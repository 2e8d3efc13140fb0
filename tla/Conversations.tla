---------------------------- MODULE Conversations ----------------------------
(***************************************************************************)
(* Which conversation of Claude belongs to which agent.  A launch          *)
(* prescribes an id, a fork and /clear begin one that only Claude knows,   *)
(* and the monitor daemon finds it in history.jsonl by the directory.  Of  *)
(* each tmux session there is one daemon, which looks after the agents of  *)
(* that session only; sessions.json and history.jsonl all of them share.   *)
(* Tokens, context and the conversation a restart resumes depend on it.    *)
(*                                                                         *)
(* Left out: agents in containers, the other knobs of a launch line, the   *)
(* fallback for agents no id is known of, the prices of tokens.            *)
(***************************************************************************)
EXTENDS Naturals, Sequences, FiniteSets, FiniteSetsExt

CONSTANTS
  Owners,      \* agents; a new one has a new id, so each lives once
  DirectoryOf, \* start_directory of each
  TmuxSessions, \* tmux sessions, with a monitor daemon each
  Elsewhere,   \* directories without agents
  TailPrompts, \* how many prompts the last 64 KB of history.jsonl hold
  MaxConvs,    \* bound on conversations
  MaxPrompts,  \* bound on the prompts in history.jsonl
  MaxRelaunches \* bound on restarts and revivals

ASSUME ConversationsAssumption ==
  /\ {MaxConvs, MaxPrompts, MaxRelaunches, TailPrompts} \subseteq Nat
  /\ Elsewhere \notin {DirectoryOf[a] : a \in Owners}

VARIABLES
  tmuxOf,   \* tmuxOf[a]: tmux_session of the agent, that of its launcher
  record,   \* record[a]: the agent's entry in sessions.json
  running,  \* running[a]: the conversation Claude has in its window, or NoConv
  convs,    \* how many conversations have begun
  madeBy,   \* history: madeBy[c] is the agent that had conversation c first
  prompts,  \* history.jsonl: the conversation and the directory of each prompt
  cache,    \* cache[t, d]: _session_id_cache of the daemon of t, what it found in
            \* the file as it is, or NoLookup
  daemon,   \* daemon[t]: what the monitor daemon of tmux session t is about to bind
  relaunch, \* relaunch[a]: a restart or a revival under way
  relaunches

convVars == <<tmuxOf, record, running, convs, madeBy, prompts, cache, daemon, relaunch, relaunches>>

NoConv == 0
Convs == 1..MaxConvs
Directories == {DirectoryOf[a] : a \in Owners}
NoEntry == [is |-> "new", owned |-> {}, active |-> NoConv, start |-> 0, stats |-> "none"]
NoBinding == [at |-> "idle", agent |-> "none", owned |-> {}, zero |-> FALSE, found |-> {}, latest |-> NoConv]
NoRelaunch == [at |-> "idle", fresh |-> FALSE, active |-> NoConv]
NoLookup == MaxConvs + 1

Registered == {a \in Owners : record[a].is = "registered"}

\* A conversation that begins in the window of agent a.
Begins(a) == convs < MaxConvs /\ convs' = convs + 1 /\ madeBy' = [madeBy EXCEPT ![convs + 1] = a]

\* What is started with --session-id, if Claude honours it, and else under
\* an id of its own.
HonouredOrNot(a) ==
  \/ Begins(a) /\ running' = [running EXCEPT ![a] = convs + 1]
  \/ /\ convs + 2 <= MaxConvs /\ convs' = convs + 2
     /\ madeBy' = [madeBy EXCEPT ![convs + 1] = a, ![convs + 2] = a]
     /\ running' = [running EXCEPT ![a] = convs + 2]

-----------------------------------------------------------------------------
(* ClaudeLauncher *)

\* launch: the record is written, the line sent, the prescribed id bound.
LaunchAgent(a) ==
  /\ record[a].is = "new"
  /\ HonouredOrNot(a)
  /\ record' = [record EXCEPT ![a] = [NoEntry EXCEPT !.is = "registered", !.owned = {convs + 1},
                                                     !.active = convs + 1, !.start = Len(prompts)]]
  /\ UNCHANGED <<tmuxOf, prompts, cache, daemon, relaunch, relaunches>>

\* launch_fork: --resume of the source's conversation with --fork-session, in
\* its directory; Claude alone knows the new id.
LaunchFork(a, source) ==
  /\ record[a].is = "new" /\ source \in Registered /\ record[source].active # NoConv
  /\ DirectoryOf[a] = DirectoryOf[source]
  /\ Begins(a) /\ running' = [running EXCEPT ![a] = convs + 1]
  /\ record' = [record EXCEPT ![a] = [NoEntry EXCEPT !.is = "registered", !.start = Len(prompts)]]
  /\ UNCHANGED <<tmuxOf, prompts, cache, daemon, relaunch, relaunches>>

\* restart and revive are called with a session that was read before, and
\* restart waits for the old Claude to leave; before revive it is gone.
RelaunchBegins(a, fresh) ==
  /\ a \in Registered /\ relaunch[a].at = "idle" /\ relaunches < MaxRelaunches
  /\ relaunches' = relaunches + 1
  /\ relaunch' = [relaunch EXCEPT ![a] = [NoRelaunch EXCEPT !.at = "send", !.fresh = fresh, !.active = record[a].active]]
  /\ running' = [running EXCEPT ![a] = NoConv]
  /\ UNCHANGED <<tmuxOf, record, convs, madeBy, prompts, cache, daemon>>

\* _send_launch_for_session: resume what was active, or prescribe a new id,
\* which replaces the ids that were owned.
RelaunchSends(a) ==
  /\ relaunch[a].at = "send" /\ a \in Registered
  /\ relaunch' = [relaunch EXCEPT ![a] = NoRelaunch]
  /\ IF relaunch[a].fresh \/ relaunch[a].active = NoConv
     THEN /\ HonouredOrNot(a)
          /\ record' = [record EXCEPT ![a] = [@ EXCEPT !.is = "registered", !.owned = {convs + 1}, !.active = convs + 1]]
     ELSE /\ running' = [running EXCEPT ![a] = relaunch[a].active]
          /\ record' = [record EXCEPT ![a].is = "registered"]
          /\ UNCHANGED <<convs, madeBy>>
  /\ UNCHANGED <<tmuxOf, prompts, cache, daemon, relaunches>>

\* kill and cleanup take the record away, and with it what it owned.
RemoveAgent(a) ==
  /\ a \in Registered /\ relaunch[a].at = "idle"
  /\ record' = [record EXCEPT ![a] = [NoEntry EXCEPT !.is = "removed"]]
  /\ running' = [running EXCEPT ![a] = NoConv]
  /\ UNCHANGED <<tmuxOf, convs, madeBy, prompts, cache, daemon, relaunch, relaunches>>

-----------------------------------------------------------------------------
(* Claude *)

\* Claude takes seconds to start, and the id is bound as soon as the line is
\* sent: it is by the time of the first prompt.
PromptAgent(a) ==
  /\ running[a] # NoConv /\ relaunch[a].at = "idle" /\ Len(prompts) < MaxPrompts
  /\ prompts' = Append(prompts, [conv |-> running[a], dir |-> DirectoryOf[a]])
  /\ cache' = [k \in TmuxSessions \X Directories |-> NoLookup]
  /\ UNCHANGED <<tmuxOf, record, running, convs, madeBy, daemon, relaunch, relaunches>>

\* A prompt in a directory that no agent works in, in some conversation.
PromptElsewhere ==
  /\ Len(prompts) < MaxPrompts
  /\ prompts' = Append(prompts, [conv |-> NoConv, dir |-> Elsewhere])
  /\ cache' = [k \in TmuxSessions \X Directories |-> NoLookup]
  /\ UNCHANGED <<tmuxOf, record, running, convs, madeBy, daemon, relaunch, relaunches>>

ClearAgent(a) ==
  /\ running[a] # NoConv /\ relaunch[a].at = "idle"
  /\ Begins(a) /\ running' = [running EXCEPT ![a] = convs + 1]
  /\ UNCHANGED <<tmuxOf, record, prompts, cache, daemon, relaunch, relaunches>>

-----------------------------------------------------------------------------
(* The monitor daemon *)

\* Prompts in a directory since an agent was launched.
Since(a) == {i \in DOMAIN prompts : i > record[a].start /\ prompts[i].dir = DirectoryOf[a]}

LastConv(is) == IF is = {} THEN NoConv ELSE prompts[Max(is)].conv

\* Those of them that _read_lines_reversed gives.
InTail(a) == {i \in Since(a) : i + TailPrompts > Len(prompts)}

\* get_current_session_id_for_directory, of the daemon of t: what was found before
\* is returned again until the file changes, though it was looked up since another time.
CachedFor(t, a) ==
  IF cache[<<t, DirectoryOf[a]>>] = NoLookup THEN LastConv(InTail(a)) ELSE cache[<<t, DirectoryOf[a]>>]

\* The agents of a's tmux session, all that its daemon passes to the guard.
Others(a) == {b \in Registered \ {a} : tmuxOf[b] = tmuxOf[a]}

\* Mutant: only the active conversation of another agent is its own.
OwnedByOthersActive(c, a) == \E b \in Others(a) : c = record[b].active

\* is_session_id_owned_by_others
OwnedByOthers(c, a) == \E b \in Others(a) : c \in record[b].owned

\* get_session_stats of what is owned: zero, or not.
TokensOf(a, owned) == IF \E i \in DOMAIN prompts : i > record[a].start /\ prompts[i].conv \in owned
                      THEN "some" ELSE "zero"

\* The fast path of sync_session_id, in the daemon of a's tmux session: the last
\* conversation in the directory, unless it is another agent's.
SyncLooks(a) ==
  LET t == tmuxOf[a]
      c == CachedFor(t, a)
  IN /\ daemon[t].at = "idle" /\ a \in Registered
     /\ cache' = IF prompts = <<>> THEN cache ELSE [cache EXCEPT ![<<t, DirectoryOf[a]>>] = c]
     /\ daemon' = [daemon EXCEPT ![t] =
          [at |-> "bind", agent |-> a, owned |-> record[a].owned,
           zero |-> record[a].stats = "zero", latest |-> c,
           found |-> IF c = NoConv \/ OwnedByOthers(c, a) THEN {} ELSE {c}]]
     /\ UNCHANGED <<tmuxOf, record, running, convs, madeBy, prompts, relaunch, relaunches>>

\* The record of agent a without its ids: sync_claude_code_stats counts tokens
\* after it has looked for ids, and sync_session_id alone leaves the count.
CountedOrNot(a, owned) == {record[a].stats, TokensOf(a, owned)}

\* Mutant: a conversation that is found is added, and the active one stays.
BindsWithoutActive(t) ==
  /\ daemon[t].at = "bind"
  /\ record' = IF daemon[t].agent \in Registered
               THEN [record EXCEPT ![daemon[t].agent].owned = @ \cup daemon[t].found] ELSE record
  /\ daemon' = [daemon EXCEPT ![t] = NoBinding]
  /\ UNCHANGED <<tmuxOf, running, convs, madeBy, prompts, cache, relaunch, relaunches>>

\* add_claude_session_id and set_active_claude_session_id, if the agent is
\* still there.  The slow path follows when the agent that was read owned ids
\* without any tokens, and the count may come last.
SyncBinds(t) ==
  /\ daemon[t].at = "bind"
  /\ LET a == daemon[t].agent
         slow == daemon[t].owned # {} /\ daemon[t].zero
         bound == IF daemon[t].found = {} THEN record[a]
                  ELSE [record[a] EXCEPT !.owned = record[a].owned \cup daemon[t].found, !.active = daemon[t].latest]
     IN /\ IF a \notin Registered THEN record' = record
           ELSE \E n \in IF slow THEN {bound.stats} ELSE CountedOrNot(a, bound.owned) :
                  record' = [record EXCEPT ![a] = [bound EXCEPT !.stats = n]]
        /\ daemon' = [daemon EXCEPT ![t] =
             IF slow THEN [daemon[t] EXCEPT !.at = "discover", !.found = {}, !.latest = NoConv] ELSE NoBinding]
  /\ UNCHANGED <<tmuxOf, running, convs, madeBy, prompts, cache, relaunch, relaunches>>

\* _discover_all_session_ids: every conversation in the directory, in the whole of
\* the file, that nobody of the tmux session owns.  It is bound as above, once.
SyncDiscovers(t) ==
  /\ daemon[t].at = "discover"
  /\ LET a == daemon[t].agent
         free == {i \in Since(a) : prompts[i].conv \notin daemon[t].owned /\ ~OwnedByOthers(prompts[i].conv, a)}
     IN daemon' = [daemon EXCEPT ![t] =
          IF a \notin Registered THEN NoBinding
          ELSE [daemon[t] EXCEPT !.at = "bind", !.owned = {}, !.zero = FALSE, !.latest = LastConv(free),
                                 !.found = {prompts[i].conv : i \in free}]]
  /\ UNCHANGED <<tmuxOf, record, running, convs, madeBy, prompts, cache, relaunch, relaunches>>

-----------------------------------------------------------------------------

ConvInit ==
  /\ tmuxOf \in [Owners -> TmuxSessions]
  /\ record = [a \in Owners |-> NoEntry] /\ running = [a \in Owners |-> NoConv]
  /\ convs = 0 /\ madeBy = [c \in Convs |-> "none"] /\ prompts = <<>>
  /\ cache = [k \in TmuxSessions \X Directories |-> NoLookup]
  /\ daemon = [t \in TmuxSessions |-> NoBinding]
  /\ relaunch = [a \in Owners |-> NoRelaunch] /\ relaunches = 0

ConvNext ==
  \/ \E a \in Owners :
       \/ LaunchAgent(a) \/ RemoveAgent(a)
       \/ \E source \in Owners : LaunchFork(a, source)
       \/ \E fresh \in BOOLEAN : RelaunchBegins(a, fresh)
       \/ RelaunchSends(a) \/ PromptAgent(a) \/ ClearAgent(a)
       \/ SyncLooks(a)
  \/ PromptElsewhere
  \/ \E t \in TmuxSessions : SyncBinds(t) \/ SyncDiscovers(t)

ConvSpec == ConvInit /\ [][ConvNext]_convVars

\* Each daemon looks at every agent of its tmux session every ten seconds.
ConvFairness ==
  /\ \A a \in Owners : WF_convVars(SyncLooks(a))
  /\ \A t \in TmuxSessions : WF_convVars(SyncBinds(t)) /\ WF_convVars(SyncDiscovers(t))

-----------------------------------------------------------------------------
(* Properties *)

ConvTypeOK ==
  /\ tmuxOf \in [Owners -> TmuxSessions]
  /\ \A a \in Owners : record[a].owned \subseteq Convs /\ record[a].active \in Convs \cup {NoConv}
  /\ \A a \in Owners : running[a] \in 0..convs
  /\ \A t \in TmuxSessions :
       /\ daemon[t].at \in {"idle", "bind", "discover"}
       /\ daemon[t].at # "idle" => daemon[t].agent \in Owners

\* In one tmux session no conversation has two owners: its tokens are counted for
\* one agent, and no two agents resume it, though the daemon looks for conversations
\* while others launch, restart and remove agents in the same directory.
OneOwner ==
  \A a, b \in Registered :
    a # b /\ tmuxOf[a] = tmuxOf[b] => record[a].owned \cap record[b].owned = {}

\* What the docstring of sync_session_id says without that limit, and what no run
\* checks: "a sessionId already owned by another agent is never stolen".  It fails
\* for two agents of one directory in two tmux sessions, whose daemons do not look
\* at each other's agents.
NeverStolen == \A a, b \in Registered : a # b => record[a].owned \cap record[b].owned = {}

\* An agent that is the only one ever in its directory, and whose last prompt is in
\* the part of the file that is read, is in the end known by the conversation it has: a restart resumes that.
ActiveCatchesUp ==
  \A a \in Owners :
    <>[](/\ record[a].is = "registered" /\ relaunch[a].at = "idle" /\ prompts # <<>>
         /\ \A b \in Owners \ {a} : DirectoryOf[b] = DirectoryOf[a] => record[b].is = "new"
         /\ LastConv(InTail(a)) = running[a])
      => <>[](record[a].active = running[a])

\* An agent owns only conversations its own Claude began.
OnlyOwnConversations == \A a \in Owners : \A c \in record[a].owned : madeBy[c] = a
=============================================================================
