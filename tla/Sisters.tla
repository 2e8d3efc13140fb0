------------------------------- MODULE Sisters -------------------------------
(***************************************************************************)
(* Agents of another machine in the local TUI.  There the monitor daemon   *)
(* publishes what it knows and a web server, which serves one request      *)
(* after another, answers from that file and runs control requests.  Here  *)
(* worker threads poll, a faster one follows the agent that has the focus, *)
(* and the UI thread waits for the answer of every control request.  A     *)
(* client that gives up does not take its request back: the server serves  *)
(* it later.                                                               *)
(*                                                                         *)
(* One setting stands for what is set to a value and published (budget,    *)
(* annotation, sleep, heartbeat).  Left out: requests that change no       *)
(* record, keys of the API, hidden sisters, and the ids of agents.         *)
(***************************************************************************)
EXTENDS Naturals, Sequences, FiniteSets

CONSTANTS
  Hosted,      \* names of agents on the other machine
  Pollers,     \* _poll_sisters_async threads at one time
  MaxChanges,  \* bound on what users of the other machine do
  MaxCalls,    \* bound on control requests
  MaxOutages   \* bound on outages and on timeouts

ASSUME SistersAssumption == IsFiniteSet(Pollers) /\ {MaxChanges, MaxCalls, MaxOutages} \subseteq Nat

VARIABLES
  truth,     \* sessions.json there: the setting of each agent, or "gone"
  published, \* monitor_daemon_state.json there
  ticking,   \* its monitor daemon runs
  serving,   \* its web server runs
  requests,  \* what the server has not served yet
  poll,      \* poll[k]: where a thread is, and what it was told
  fast,      \* the thread that follows one agent
  ui,        \* the UI thread, which waits for the answer of a control request
  known,     \* SisterState.sessions
  reachable, \* SisterState.reachable
  shown,     \* self._remote_sessions
  missed,    \* history: agents that were not published at some time
  changes, calls, outages

sisterVars == <<truth, published, ticking, serving, requests, poll, fast, ui, known,
                reachable, shown, missed, changes, calls, outages>>
hostVars == <<truth, published, ticking, serving, missed, changes>>
tuiSideVars == <<poll, fast, ui, known, reachable, shown, calls>>

Values == {"low", "high"}
Lists == [Hosted -> Values \cup {"gone"}]
Nothing == [a \in Hosted |-> "gone"]
NoPoll == [at |-> "idle", list |-> Nothing]
NoFast == [at |-> "idle", who |-> "none", value |-> "gone"]
NoCall == [at |-> "idle", who |-> "none", to |-> "gone", ok |-> FALSE]

Request(from, ask, who, to) == [from |-> from, ask |-> ask, who |-> who, to |-> to]

-----------------------------------------------------------------------------
(* The other machine *)

\* Its users launch, kill and configure agents.
HostChanges(a) ==
  /\ changes < MaxChanges /\ changes' = changes + 1
  /\ \E v \in (Values \cup {"gone"}) \ {truth[a]} : truth' = [truth EXCEPT ![a] = v]
  /\ UNCHANGED <<published, ticking, serving, requests, tuiSideVars, missed, outages>>

\* A tick lists the agents and publishes them: to a temporary file, which
\* then replaces the one that is read.
Publishes ==
  /\ ticking /\ published # truth /\ published' = truth
  /\ missed' = missed \cup {a \in Hosted : truth[a] = "gone"}
  /\ UNCHANGED <<truth, ticking, serving, requests, tuiSideVars, changes, outages>>

DaemonStops ==
  /\ ticking /\ outages < MaxOutages
  /\ ticking' = FALSE /\ outages' = outages + 1
  /\ UNCHANGED <<truth, published, serving, requests, tuiSideVars, missed, changes>>

DaemonStarts ==
  /\ ~ticking /\ ticking' = TRUE
  /\ UNCHANGED <<truth, published, serving, requests, tuiSideVars, missed, changes, outages>>

\* The connections of a server that ends are closed: whoever waits is told so.
ServerStops ==
  /\ serving /\ outages < MaxOutages
  /\ serving' = FALSE /\ outages' = outages + 1
  /\ requests' = <<>>
  /\ poll' = [k \in Pollers |-> IF poll[k].at = "waits" THEN [NoPoll EXCEPT !.at = "failed"] ELSE poll[k]]
  /\ fast' = IF fast.at = "waits" THEN NoFast ELSE fast
  /\ ui' = IF ui.at = "waits" THEN [ui EXCEPT !.at = "answered"] ELSE ui
  /\ UNCHANGED <<truth, published, ticking, missed, changes, known, reachable, shown, calls>>

ServerStarts ==
  /\ ~serving /\ serving' = TRUE
  /\ UNCHANGED <<truth, published, ticking, requests, tuiSideVars, missed, changes, outages>>

\* get_status_data: what was published, however old it is.
ServesStatus ==
  LET r == Head(requests)
  IN /\ r.ask = "all"
     /\ poll' = IF r.from = "nobody" THEN poll ELSE [poll EXCEPT ![r.from] = [at |-> "told", list |-> published]]
     /\ UNCHANGED <<truth, fast, ui>>

\* get_single_agent_status: 404 for an agent that is not published.
ServesOne ==
  LET r == Head(requests)
  IN /\ r.ask = "one"
     /\ fast' = IF r.from = "nobody" THEN fast
                ELSE IF published[r.who] = "gone" THEN NoFast
                ELSE [fast EXCEPT !.at = "told", !.value = published[r.who]]
     /\ UNCHANGED <<truth, poll, ui>>

\* What a control request does to the record of the agent it names: it is set
\* and killed if it is there, and launched if it is not.
Controlled(r) ==
  CASE r.ask = "set" /\ truth[r.who] # "gone" -> [truth EXCEPT ![r.who] = r.to]
    [] r.ask = "kill" -> [truth EXCEPT ![r.who] = "gone"]
    [] r.ask = "launch" /\ truth[r.who] = "gone" -> [truth EXCEPT ![r.who] = "low"]
    [] OTHER -> truth

\* launch_agent is content with an agent that runs already.
ControlSucceeds(r) == r.ask = "launch" \/ truth[r.who] # "gone"

ServesControl ==
  LET r == Head(requests)
  IN /\ r.ask \in {"set", "kill", "launch"}
     /\ truth' = Controlled(r)
     /\ ui' = IF r.from = "nobody" THEN ui ELSE [ui EXCEPT !.at = "answered", !.ok = ControlSucceeds(r)]
     /\ UNCHANGED <<poll, fast>>

Serves ==
  /\ serving /\ requests # <<>> /\ requests' = Tail(requests)
  /\ ServesStatus \/ ServesOne \/ ServesControl
  /\ UNCHANGED <<published, ticking, serving, missed, changes, known, reachable, shown, calls, outages>>

-----------------------------------------------------------------------------
(* SisterPoller, and the threads of the TUI *)

\* Every ten seconds, whether or not an earlier thread has ended.
PollBegins(k) ==
  /\ poll[k].at = "idle"
  /\ requests' = IF serving THEN Append(requests, Request(k, "all", "none", "gone")) ELSE requests
  /\ poll' = [poll EXCEPT ![k].at = IF serving THEN "waits" ELSE "failed"]
  /\ UNCHANGED <<hostVars, fast, ui, known, reachable, shown, calls, outages>>

\* Requests of a client that gave up have nobody to answer to.
Abandoned(from) == [i \in DOMAIN requests |-> IF requests[i].from = from THEN [requests[i] EXCEPT !.from = "nobody"]
                                              ELSE requests[i]]

PollTimesOut(k) ==
  /\ poll[k].at = "waits" /\ outages < MaxOutages /\ outages' = outages + 1
  /\ poll' = [poll EXCEPT ![k].at = "failed"]
  /\ requests' = Abandoned(k)
  /\ UNCHANGED <<hostVars, fast, ui, known, reachable, shown, calls>>

\* Mutant: the agents of a sister that cannot be reached are forgotten.
ResetForgets(k) ==
  /\ poll[k].at = "failed"
  /\ reachable' = FALSE /\ known' = Nothing
  /\ poll' = [poll EXCEPT ![k] = [at |-> "apply", list |-> known']]
  /\ UNCHANGED <<hostVars, requests, fast, ui, shown, calls, outages>>

\* _reset_sister_state
ResetSisterState(k) ==
  /\ poll[k].at = "failed"
  /\ reachable' = FALSE
  /\ poll' = [poll EXCEPT ![k] = [at |-> "apply", list |-> known]]
  /\ UNCHANGED <<hostVars, requests, fast, ui, known, shown, calls, outages>>

\* Mutant: an answer that is what the sister said last is not applied.
PollSisterOnChange(k) ==
  /\ poll[k].at = "told"
  /\ reachable' = TRUE /\ known' = poll[k].list
  /\ poll' = [poll EXCEPT ![k] = IF poll[k].list = known THEN NoPoll ELSE [poll[k] EXCEPT !.at = "apply"]]
  /\ UNCHANGED <<hostVars, requests, fast, ui, shown, calls, outages>>

\* _poll_sister
PollSister(k) ==
  /\ poll[k].at = "told"
  /\ reachable' = TRUE /\ known' = poll[k].list
  /\ poll' = [poll EXCEPT ![k].at = "apply"]
  /\ UNCHANGED <<hostVars, requests, fast, ui, shown, calls, outages>>

\* _apply_remote_sessions, by the UI thread when it does not wait.
ApplyRemoteSessions(k) ==
  /\ poll[k].at = "apply" /\ ui.at = "idle"
  /\ shown' = poll[k].list
  /\ poll' = [poll EXCEPT ![k] = NoPoll]
  /\ UNCHANGED <<hostVars, requests, fast, ui, known, reachable, calls, outages>>

FocusedPollBegins(a) ==
  /\ fast.at = "idle" /\ ui.at = "idle" /\ shown[a] # "gone" /\ serving
  /\ requests' = Append(requests, Request("fast", "one", a, "gone"))
  /\ fast' = [NoFast EXCEPT !.at = "waits", !.who = a]
  /\ UNCHANGED <<hostVars, poll, ui, known, reachable, shown, calls, outages>>

FocusedPollTimesOut ==
  /\ fast.at = "waits" /\ outages < MaxOutages /\ outages' = outages + 1
  /\ fast' = NoFast /\ requests' = Abandoned("fast")
  /\ UNCHANGED <<hostVars, poll, ui, known, reachable, shown, calls>>

\* An agent that is no longer listed is not listed again.
ApplyFocusedSister ==
  /\ fast.at = "told" /\ ui.at = "idle"
  /\ shown' = IF shown[fast.who] = "gone" THEN shown ELSE [shown EXCEPT ![fast.who] = fast.value]
  /\ fast' = NoFast
  /\ UNCHANGED <<hostVars, requests, poll, ui, known, reachable, calls, outages>>

-----------------------------------------------------------------------------
(* Control requests: SisterController, on the UI thread *)

\* A key or the command bar for an agent that is listed; a new agent by name.
\* _guard_remote refuses while the sister cannot be reached.
Calls(a, ask, to) ==
  /\ ui.at = "idle" /\ reachable /\ (ask # "launch" => shown[a] # "gone")
  /\ calls < MaxCalls /\ calls' = calls + 1
  /\ requests' = IF serving THEN Append(requests, Request("ui", ask, a, to)) ELSE requests
  /\ ui' = IF serving THEN [NoCall EXCEPT !.at = "waits", !.who = a, !.to = IF ask = "set" THEN to ELSE "gone"]
           ELSE NoCall
  /\ UNCHANGED <<hostVars, poll, fast, known, reachable, shown, outages>>

CallTimesOut ==
  /\ ui.at = "waits" /\ outages < MaxOutages /\ outages' = outages + 1
  /\ ui' = NoCall /\ requests' = Abandoned("ui")
  /\ UNCHANGED <<hostVars, poll, fast, known, reachable, shown, calls>>

\* _optimistic_update_remote, for a setting that was accepted.
CallEnds ==
  /\ ui.at = "answered" /\ ui' = NoCall
  /\ shown' = IF ui.ok /\ ui.to # "gone" /\ shown[ui.who] # "gone" THEN [shown EXCEPT ![ui.who] = ui.to] ELSE shown
  /\ UNCHANGED <<hostVars, requests, poll, fast, known, reachable, calls, outages>>

-----------------------------------------------------------------------------

\* The first answer was applied.
SistersInit ==
  /\ truth = [a \in Hosted |-> "low"] /\ published = truth
  /\ ticking = TRUE /\ serving = TRUE /\ requests = <<>>
  /\ poll = [k \in Pollers |-> NoPoll] /\ fast = NoFast /\ ui = NoCall
  /\ known = truth /\ reachable = TRUE /\ shown = truth /\ missed = {}
  /\ changes = 0 /\ calls = 0 /\ outages = 0

PollerStep(k) == PollBegins(k) \/ ResetSisterState(k) \/ PollSister(k) \/ ApplyRemoteSessions(k)

SistersNext ==
  \/ \E a \in Hosted : HostChanges(a) \/ FocusedPollBegins(a)
  \/ \E a \in Hosted, ask \in {"set", "kill", "launch"}, to \in Values : Calls(a, ask, to)
  \/ Publishes \/ DaemonStops \/ DaemonStarts \/ ServerStops \/ ServerStarts \/ Serves
  \/ \E k \in Pollers : PollerStep(k) \/ PollTimesOut(k)
  \/ FocusedPollTimesOut \/ ApplyFocusedSister \/ CallTimesOut \/ CallEnds

SistersSpec == SistersInit /\ [][SistersNext]_sisterVars

\* The timer, the threads and the server go on; nothing restarts a daemon or a
\* server that was stopped.
SistersFairness ==
  /\ \A k \in Pollers : WF_sisterVars(PollerStep(k))
  /\ WF_sisterVars(Serves) /\ WF_sisterVars(CallEnds) /\ WF_sisterVars(Publishes)

-----------------------------------------------------------------------------
(* Properties *)

SistersTypeOK ==
  /\ {truth, published, known, shown} \subseteq Lists
  /\ \A k \in Pollers : poll[k].at \in {"idle", "waits", "told", "failed", "apply"} /\ poll[k].list \in Lists
  /\ fast.at \in {"idle", "waits", "told"} /\ ui.at \in {"idle", "waits", "answered"}
  /\ Len(requests) <= Cardinality(Pollers) + MaxOutages + 2

\* Once the other machine settles, with its server and its daemon up, the TUI
\* shows what is there and keeps showing it, whatever older answers, faster
\* answers, requests given up and optimistic updates came in between.
ShownCatchesUp == <>[](serving /\ ticking) => <>[](shown = truth)

\* An outage hides no agent: one leaves the list only if the daemon of its
\* machine has at some time published a list without it.
OutageHidesNobody ==
  [][\A a \in Hosted : shown[a] # "gone" /\ shown'[a] = "gone" => a \in missed]_sisterVars
=============================================================================
