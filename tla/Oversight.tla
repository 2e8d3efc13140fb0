------------------------------ MODULE Oversight ------------------------------
(***************************************************************************)
(* The end of a child agent's work: how a report, a stop, a closed window  *)
(* or a timeout turns into the status of the child's session.  Four kinds  *)
(* of process write that status from what each of them read earlier:       *)
(* `overcode follow' in the parent, list_sessions in the CLI and the TUI,  *)
(* the tick of the monitor daemon, and `overcode report' in the child.     *)
(*                                                                         *)
(* One child is modelled, and what an agent that had its name before left  *)
(* behind: hook_state_<name>.json and report_<name>.json are keyed by the  *)
(* name, and neither the end of an agent nor a launch removes them.        *)
(* Otherwise no step relates two children; a follower that was started for *)
(* the earlier agent and goes on with the later one is left out.           *)
(*                                                                         *)
(* A locked update of sessions.json is one step; the reads between two     *)
(* updates of one process are one step too.  report_status and             *)
(* report_reason, which the code stores and never reads, are left out.     *)
(***************************************************************************)
EXTENDS Integers, FiniteSets

CONSTANTS
  Followers,   \* `overcode follow' and `launch --follow' processes
  Listers,     \* processes that call list_sessions again and again (TUI, CLI)
  Policies,    \* the --on-stuck policies considered
  Modes,       \* the detection modes considered
  MaxTurns,    \* bound on prompts, the one at launch included
  MaxRevives,  \* bound on revivals
  MaxReports   \* bound on the reports that are filed

ASSUME OversightAssumption ==
  /\ Policies \subseteq {"wait", "fail", "timeout"}
  /\ Modes \subseteq {"hooks", "polling"}
  /\ MaxTurns \in Nat
  /\ MaxRevives \in Nat
  /\ MaxReports \in Nat

VARIABLES
  policy,    \* oversight_policy of the session
  mode,      \* the daemon's detection mode
  status,    \* status of the session; "deleted" once it left sessions.json
  window,    \* the tmux window of the session exists
  event,     \* the last event in hook_state_<name>.json
  file,      \* report_<name>.json: "none", "torn" or the status in it
  deadline,  \* oversight_deadline: "none", "ahead" or "past"
  follow,    \* follow[f]: where f is, its report, its own deadline, its exit code
  list,      \* list[l]: where l is, its copy of the status, what it will write
  daemon,    \* the daemon's tick: place, copies of status and deadline, what to write
  inherited, \* history: the report of an earlier agent that was found under the name
  reporter,  \* `overcode report' in progress: place and report
  turns,     \* history: prompts so far
  revives,   \* history: revivals so far
  filed,     \* history: the reports that were completely written
  filings,   \* history: how many reports were begun
  expired,   \* history: some deadline has passed
  refunded   \* history: reclaim_budget was called for the child

agentVars == <<window, event, turns, revives>>
recordVars == <<status, deadline>>
reportVars == <<file, inherited, reporter, filed, filings>>
procVars == <<follow, list, daemon>>
oversightVars == <<policy, mode, agentVars, recordVars, reportVars, procVars, expired, refunded>>

Reports == {"success", "failure"}
Statuses == {"running", "waiting_oversight", "terminated", "done", "deleted"}
Deadlines == {"none", "ahead", "past"}

FollowStep == [at : {"idle", "watch", "stopped", "fail", "mark", "mark2", "poll",
                     "handle", "refund", "expire", "ended"},
               report : Reports \cup {"none"}, deadline : Deadlines,
               code : {-1, 0, 1, 2, 130}]
ListStep == [at : {"idle", "first", "write", "second", "write2", "refund"},
             status : Statuses, next : Statuses, done : BOOLEAN]
DaemonStep == [at : {"idle", "detect", "write", "enforce", "due", "archive"},
               status : Statuses, deadline : Deadlines, next : Statuses]

\* What a process keeps between two of its calls or ticks: nothing.
ListIdle == [at |-> "idle", status |-> "deleted", next |-> "deleted", done |-> FALSE]
DaemonIdle == [at |-> "idle", status |-> "deleted", deadline |-> "none", next |-> "deleted"]
ReporterIdle == [at |-> "idle", report |-> "none"]

\* The child was launched under a name that is new or was used before: the last
\* event and the report are those that the earlier agent left.
OversightInit ==
  /\ policy \in Policies
  /\ mode \in Modes
  /\ status = "running"
  /\ window = TRUE
  /\ event \in {"none", "Busy", "Stop", "SessionEnd"}
  /\ file \in {"none", "torn"} \cup Reports
  /\ inherited = IF file \in Reports THEN file ELSE "none"
  /\ deadline = "none"
  /\ follow = [f \in Followers |->
       [at |-> "idle", report |-> "none", deadline |-> "none", code |-> -1]]
  /\ list = [l \in Listers |-> ListIdle]
  /\ daemon = DaemonIdle
  /\ reporter = ReporterIdle
  /\ turns = 0
  /\ revives = 0
  /\ filed = {}
  /\ filings = 0
  /\ expired = FALSE
  /\ refunded = FALSE

-----------------------------------------------------------------------------
(* What the processes read and write *)

\* _check_hook_stop
HookStop == event = "Stop"

\* _check_report: a torn file counts as none.
Report == IF file \in Reports THEN file ELSE "none"

\* _check_session_terminated
SessionTerminated == status \in {"terminated", "deleted"}

\* update_session_status: no effect on a session that is gone.
SetStatus(s) == status' = IF status = "deleted" THEN status ELSE s

-----------------------------------------------------------------------------
(* The child agent, its window and its hooks *)

\* A prompt starts a turn: UserPromptSubmit and the tool events that follow.
Prompt ==
  /\ window
  /\ turns < MaxTurns
  /\ turns' = turns + 1
  /\ event' = "Busy"
  /\ UNCHANGED <<policy, mode, window, revives, recordVars, reportVars, procVars, expired, refunded>>

\* A turn of this child ends, or Claude exits and leaves a shell in the window.
TurnEnds ==
  /\ window
  /\ \/ turns > 0 /\ event = "Busy" /\ event' = "Stop"
     \/ event # "SessionEnd" /\ event' = "SessionEnd"
  /\ UNCHANGED <<policy, mode, window, turns, revives, recordVars, reportVars, procVars, expired, refunded>>

\* The window is closed, and with it a report command that runs in it.
WindowCloses ==
  /\ window
  /\ window' = FALSE
  /\ reporter' = ReporterIdle
  /\ UNCHANGED <<policy, mode, event, turns, revives, recordVars, file, inherited, filed, filings,
                 procVars, expired, refunded>>

\* revive: a new window under a new name, recorded together with the status.
\* Neither the hook state, nor the report, nor the deadline is reset.
Revive ==
  /\ ~window
  /\ status # "deleted"
  /\ revives < MaxRevives
  /\ revives' = revives + 1
  /\ window' = TRUE
  /\ status' = "running"
  /\ UNCHANGED <<policy, mode, event, turns, deadline, reportVars, procVars,
                 expired, refunded>>

\* kill_session and cleanup: the window goes, then the session.
Kill ==
  /\ status # "deleted"
  /\ status' = "deleted"
  /\ window' = FALSE
  /\ reporter' = ReporterIdle
  /\ UNCHANGED <<policy, mode, event, turns, revives, deadline, file, inherited, filed, filings,
                 procVars, expired, refunded>>

-----------------------------------------------------------------------------
(* overcode report *)

\* write_text opens the file for writing, which empties it.
ReportBegins(r) ==
  /\ window
  /\ reporter.at = "idle"
  /\ filings < MaxReports
  /\ filings' = filings + 1
  /\ file' = "torn"
  /\ reporter' = [at |-> "write", report |-> r]
  /\ UNCHANGED <<policy, mode, agentVars, recordVars, procVars, inherited, filed, expired, refunded>>

ReportWrites ==
  /\ reporter.at = "write"
  /\ file' = reporter.report
  /\ filed' = filed \cup {reporter.report}
  /\ reporter' = ReporterIdle
  /\ UNCHANGED <<policy, mode, agentVars, recordVars, inherited, filings, procVars, expired,
                 refunded>>

-----------------------------------------------------------------------------
(* Time *)

\* The recorded deadline passes, and so does any earlier copy of it.
DeadlinePasses ==
  /\ deadline = "ahead"
  /\ deadline' = "past"
  /\ daemon' = [daemon EXCEPT !.deadline = IF @ = "ahead" THEN "past" ELSE @]
  /\ expired' = TRUE
  /\ UNCHANGED <<policy, mode, agentVars, status, reportVars, follow, list, refunded>>

\* The deadline that follower f computed for itself passes.
OwnDeadlinePasses(f) ==
  /\ follow[f].deadline = "ahead"
  /\ follow' = [follow EXCEPT ![f].deadline = "past"]
  /\ expired' = TRUE
  /\ UNCHANGED <<policy, mode, agentVars, recordVars, reportVars, list, daemon, refunded>>

-----------------------------------------------------------------------------
(* overcode follow *)

FollowUnchanged ==
  UNCHANGED <<policy, mode, agentVars, reportVars, list, daemon, expired>>

FollowGoto(f, to) == follow' = [follow EXCEPT ![f].at = to]

\* follow_agent returns.
FollowExits(f, code) ==
  follow' = [follow EXCEPT ![f] =
       [at |-> "ended", report |-> "none", deadline |-> "none", code |-> code]]

FollowStart(f) ==
  /\ follow[f].at = "idle"
  /\ IF status = "deleted" THEN FollowExits(f, 1) ELSE FollowGoto(f, "watch")
  /\ UNCHANGED <<recordVars, refunded>>
  /\ FollowUnchanged

\* The outer loop.  Without a pane only the status is looked at.
FollowWatch(f) ==
  /\ follow[f].at = "watch"
  /\ \/ window /\ HookStop /\ FollowGoto(f, "stopped")
     \/ ~(window /\ HookStop) /\ SessionTerminated /\ FollowExits(f, 1)
  /\ UNCHANGED <<recordVars, refunded>>
  /\ FollowUnchanged

\* Ctrl-C: the handler's flag is only read by the outer loop.
FollowInterrupted(f) ==
  /\ follow[f].at = "watch"
  /\ FollowExits(f, 130)
  /\ UNCHANGED <<recordVars, refunded>>
  /\ FollowUnchanged

\* After the final output: is there a report already?
FollowStopped(f) ==
  /\ follow[f].at = "stopped"
  /\ follow' = [follow EXCEPT ![f] = [@ EXCEPT !.report = Report,
                                               !.at = IF Report # "none" THEN "handle"
                                                      ELSE IF policy = "fail" THEN "fail" ELSE "mark"]]
  /\ UNCHANGED <<recordVars, refunded>>
  /\ FollowUnchanged

FollowFails(f) ==
  /\ follow[f].at = "fail"
  /\ SetStatus("done")
  /\ FollowExits(f, 1)
  /\ UNCHANGED <<deadline, refunded>>
  /\ FollowUnchanged

\* waiting_oversight, with a deadline if there is a timeout; in that case a
\* second update sets the status again.
FollowMarks(f) ==
  /\ follow[f].at = "mark"
  /\ SetStatus("waiting_oversight")
  /\ \/ /\ policy = "timeout" /\ status # "deleted"
        /\ deadline' = "ahead"
        /\ FollowGoto(f, "mark2")
     \/ /\ policy # "timeout" \/ status = "deleted"
        /\ follow' = [follow EXCEPT ![f] = [@ EXCEPT !.at = "poll",
                                                     !.deadline = IF policy = "timeout" THEN "ahead" ELSE "none"]]
        /\ UNCHANGED deadline
  /\ UNCHANGED <<refunded>>
  /\ FollowUnchanged

FollowMarksAgain(f) ==
  /\ follow[f].at = "mark2"
  /\ SetStatus("waiting_oversight")
  /\ follow' = [follow EXCEPT ![f] = [@ EXCEPT !.at = "poll", !.deadline = "ahead"]]
  /\ UNCHANGED <<deadline, refunded>>
  /\ FollowUnchanged

\* Mutant: the deadline is only looked at while the child's window is open.
PollForReportIfOpen(f) ==
  /\ follow[f].at = "poll"
  /\ \/ Report # "none" /\ follow' = [follow EXCEPT ![f] = [@ EXCEPT !.at = "handle", !.report = Report]]
     \/ Report = "none" /\ window /\ follow[f].deadline = "past" /\ FollowGoto(f, "expire")
     \/ Report = "none" /\ follow[f].deadline # "past" /\ SessionTerminated /\ FollowExits(f, 1)
  /\ UNCHANGED <<recordVars, refunded>>
  /\ FollowUnchanged

\* _poll_for_report: a report, then the own deadline, then a lost session.
PollForReport(f) ==
  /\ follow[f].at = "poll"
  /\ \/ Report # "none" /\ follow' = [follow EXCEPT ![f] = [@ EXCEPT !.at = "handle", !.report = Report]]
     \/ Report = "none" /\ follow[f].deadline = "past" /\ FollowGoto(f, "expire")
     \/ Report = "none" /\ follow[f].deadline # "past" /\ SessionTerminated /\ FollowExits(f, 1)
  /\ UNCHANGED <<recordVars, refunded>>
  /\ FollowUnchanged

\* Mutant: whatever was reported counts as a success.
HandleReportBlind(f) ==
  /\ follow[f].at = "handle"
  /\ SetStatus("done")
  /\ FollowExits(f, 0)
  /\ UNCHANGED <<deadline, refunded>>
  /\ FollowUnchanged

\* _handle_report
HandleReport(f) ==
  /\ follow[f].at = "handle"
  /\ SetStatus("done")
  /\ \/ follow[f].report = "success" /\ FollowGoto(f, "refund")
     \/ follow[f].report = "failure" /\ FollowExits(f, 1)
  /\ UNCHANGED <<deadline, refunded>>
  /\ FollowUnchanged

\* reclaim_budget for a success (AgentTree has the amounts).
FollowRefunds(f) ==
  /\ follow[f].at = "refund"
  /\ refunded' = (refunded \/ status # "deleted")
  /\ FollowExits(f, 0)
  /\ UNCHANGED recordVars
  /\ FollowUnchanged

\* The timeout.
FollowExpires(f) ==
  /\ follow[f].at = "expire"
  /\ SetStatus("done")
  /\ FollowExits(f, 2)
  /\ UNCHANGED <<deadline, refunded>>
  /\ FollowUnchanged

Follow(f) ==
  \/ FollowStart(f) \/ FollowWatch(f) \/ FollowStopped(f) \/ FollowFails(f)
  \/ FollowMarks(f) \/ FollowMarksAgain(f) \/ PollForReport(f) \/ HandleReport(f)
  \/ FollowRefunds(f) \/ FollowExpires(f)

-----------------------------------------------------------------------------
(* list_sessions *)

ListUnchanged ==
  UNCHANGED <<policy, mode, agentVars, deadline, reportVars, follow, daemon, expired>>

ListGoto(l, to) == list' = [list EXCEPT ![l].at = to]

\* The snapshot.
ListBegins(l) ==
  /\ list[l].at = "idle"
  /\ status # "deleted"
  /\ list' = [list EXCEPT ![l] = [@ EXCEPT !.at = "first", !.status = status]]
  /\ UNCHANGED <<status, refunded>>
  /\ ListUnchanged

ListWill(l, to, s) == list' = [list EXCEPT ![l] = [@ EXCEPT !.at = to, !.next = s]]

\* First pass: a window that is gone.
ListFirst(l) ==
  /\ list[l].at = "first"
  /\ LET gone == list[l].status \notin {"terminated", "done"} /\ ~window
     IN \/ gone /\ HookStop /\ Report # "none" /\ ListWill(l, "write", "done")
        \/ gone /\ HookStop /\ Report = "none" /\ ListWill(l, "write", "waiting_oversight")
        \/ gone /\ ~HookStop /\ ListWill(l, "write", "terminated")
        \/ ~gone /\ ListGoto(l, "second")
  /\ UNCHANGED <<status, refunded>>
  /\ ListUnchanged

\* The update changes the record and the copy; newly_done remembers it.
ListUpdates(l, to) ==
  /\ SetStatus(list[l].next)
  /\ list' = [list EXCEPT ![l] = [@ EXCEPT !.at = to, !.status = list[l].next, !.next = "deleted",
                                           !.done = list[l].done \/ list[l].next = "done"]]
  /\ UNCHANGED refunded
  /\ ListUnchanged

ListWrites(l) == list[l].at = "write" /\ ListUpdates(l, "second")
ListWritesAgain(l) == list[l].at = "write2" /\ ListUpdates(l, "refund")

\* Mutant: the second pass leaves out children that wait for oversight.
ListSecondRunningOnly(l) ==
  /\ list[l].at = "second"
  /\ LET stopped == list[l].status \in {"running", "terminated"} /\ HookStop
     IN \/ stopped /\ Report # "none" /\ ListWill(l, "write2", "done")
        \/ /\ stopped /\ Report = "none" /\ list[l].status # "waiting_oversight"
           /\ ListWill(l, "write2", "waiting_oversight")
        \/ /\ ~stopped \/ (Report = "none" /\ list[l].status = "waiting_oversight")
           /\ ListGoto(l, "refund")
  /\ UNCHANGED <<status, refunded>>
  /\ ListUnchanged

\* Second pass: a child that stopped.
ListSecond(l) ==
  /\ list[l].at = "second"
  /\ LET stopped == list[l].status \in {"running", "terminated", "waiting_oversight"} /\ HookStop
     IN \/ stopped /\ Report # "none" /\ ListWill(l, "write2", "done")
        \/ /\ stopped /\ Report = "none" /\ list[l].status # "waiting_oversight"
           /\ ListWill(l, "write2", "waiting_oversight")
        \/ /\ ~stopped \/ (Report = "none" /\ list[l].status = "waiting_oversight")
           /\ ListGoto(l, "refund")
  /\ UNCHANGED <<status, refunded>>
  /\ ListUnchanged

\* The unused budget of a child that was marked done by this call.
ListRefunds(l) ==
  /\ list[l].at = "refund"
  /\ refunded' = (refunded \/ (list[l].done /\ status # "deleted"))
  /\ list' = [list EXCEPT ![l] = ListIdle]
  /\ UNCHANGED status
  /\ ListUnchanged

ListSessions(l) ==
  \/ ListBegins(l) \/ ListFirst(l) \/ ListWrites(l)
  \/ ListSecond(l) \/ ListWritesAgain(l) \/ ListRefunds(l)

-----------------------------------------------------------------------------
(* The monitor daemon *)

DaemonUnchanged ==
  UNCHANGED <<policy, mode, event, turns, revives, deadline, file, inherited, filed, filings, follow,
              list, expired, refunded>>

DaemonGoto(to) == daemon' = [daemon EXCEPT !.at = to]

\* What is left of the tick for this session depends on the snapshot only.
FinishTick ==
  daemon' =
    IF daemon.status = "waiting_oversight" /\ policy = "timeout"
    THEN [daemon EXCEPT !.at = "enforce", !.next = "deleted"]
    ELSE IF daemon.status = "done" THEN [daemon EXCEPT !.at = "archive", !.next = "deleted"]
    ELSE DaemonIdle

\* The sessions are read once per tick.
TickBegins ==
  /\ daemon.at = "idle"
  /\ status # "deleted"
  /\ daemon' = [at |-> "detect", status |-> status, deadline |-> deadline, next |-> "deleted"]
  /\ UNCHANGED <<window, reporter, status>>
  /\ DaemonUnchanged

\* What detect_status can say, and whether the pane was empty.  With hooks the
\* window counts only if the last event says nothing; a shell prompt in the
\* pane is told from a prompt of Claude by its text.
Detected ==
  IF daemon.status = "done" THEN {"done"}
  ELSE IF ~window /\ (mode = "polling" \/ event \in {"none", "SessionEnd"}) THEN {"gone"}
  ELSE IF window /\ (mode = "polling" \/ event = "SessionEnd") THEN {"alive", "shell"}
  ELSE {"alive"}

\* _detect_and_enrich compares what it detected with the session read again.
TickDetects ==
  /\ daemon.at = "detect"
  /\ \E d \in Detected :
       \/ /\ d = "gone" /\ ~SessionTerminated
          /\ daemon' = [daemon EXCEPT !.at = "write", !.next = "terminated"]
       \/ /\ d \in {"alive", "done"} /\ status = "terminated"
          /\ daemon' = [daemon EXCEPT !.at = "write", !.next = "running"]
       \/ /\ \/ d = "gone" /\ SessionTerminated
             \/ d = "shell"
             \/ d \in {"alive", "done"} /\ status # "terminated"
          /\ FinishTick
  /\ UNCHANGED <<window, reporter, status>>
  /\ DaemonUnchanged

TickWrites ==
  /\ daemon.at = "write"
  /\ SetStatus(daemon.next)
  /\ FinishTick
  /\ UNCHANGED <<window, reporter>>
  /\ DaemonUnchanged

\* Mutant: the deadline is not compared with the clock.
EnforceOversightTimeoutsEarly ==
  /\ daemon.at = "enforce"
  /\ IF daemon.deadline # "none" THEN DaemonGoto("due") ELSE daemon' = DaemonIdle
  /\ UNCHANGED <<window, reporter, status>>
  /\ DaemonUnchanged

\* _enforce_oversight_timeouts, on the status and the deadline of the snapshot.
EnforceOversightTimeouts ==
  /\ daemon.at = "enforce"
  /\ IF daemon.deadline = "past" THEN DaemonGoto("due") ELSE daemon' = DaemonIdle
  /\ UNCHANGED <<window, reporter, status>>
  /\ DaemonUnchanged

EnforceDone ==
  /\ daemon.at = "due"
  /\ SetStatus("done")
  /\ daemon' = DaemonIdle
  /\ UNCHANGED <<window, reporter>>
  /\ DaemonUnchanged

\* Every 60 loops, a session that was done for an hour loses its window and
\* becomes terminated.
AutoArchiveDone ==
  /\ daemon.at = "archive"
  /\ window' = FALSE
  /\ reporter' = ReporterIdle
  /\ SetStatus("terminated")
  /\ daemon' = DaemonIdle
  /\ DaemonUnchanged

TickWithoutArchive ==
  /\ daemon.at = "archive"
  /\ daemon' = DaemonIdle
  /\ UNCHANGED <<window, reporter, status>>
  /\ DaemonUnchanged

Tick == TickBegins \/ TickDetects \/ TickWrites \/ EnforceOversightTimeouts \/ EnforceDone
        \/ TickWithoutArchive

-----------------------------------------------------------------------------

OversightNext ==
  \/ Prompt \/ TurnEnds \/ WindowCloses \/ Revive \/ Kill
  \/ \E r \in Reports : ReportBegins(r)
  \/ ReportWrites
  \/ DeadlinePasses
  \/ \E f \in Followers : OwnDeadlinePasses(f) \/ Follow(f) \/ FollowInterrupted(f)
  \/ \E l \in Listers : ListSessions(l)
  \/ Tick \/ AutoArchiveDone

OversightSpec == OversightInit /\ [][OversightNext]_oversightVars

\* Time passes, and the processes that run keep running: the TUI refreshes its
\* list on a timer, the daemon ticks, a follower polls.  Nothing is assumed of
\* the child, of its window or of a human.
OversightFairness ==
  /\ WF_oversightVars(DeadlinePasses)
  /\ WF_oversightVars(Tick)
  /\ \A f \in Followers : WF_oversightVars(OwnDeadlinePasses(f)) /\ WF_oversightVars(Follow(f))
  /\ \A l \in Listers : WF_oversightVars(ListSessions(l))

OversightFairSpec == OversightSpec /\ OversightFairness

\* A follower polls twice a second: it even sees what lasts only for a while.
OversightPollSpec == OversightFairSpec /\ \A f \in Followers : SF_oversightVars(Follow(f))

-----------------------------------------------------------------------------
(* Properties *)

OversightTypeOK ==
  /\ policy \in Policies
  /\ mode \in Modes
  /\ status \in Statuses
  /\ window \in BOOLEAN
  /\ event \in {"none", "Busy", "Stop", "SessionEnd"}
  /\ file \in Reports \cup {"none", "torn"}
  /\ inherited \in Reports \cup {"none"}
  /\ deadline \in Deadlines
  /\ follow \in [Followers -> FollowStep]
  /\ list \in [Listers -> ListStep]
  /\ daemon \in DaemonStep
  /\ reporter \in [at : {"idle", "write"}, report : Reports \cup {"none"}]
  /\ turns \in 0 .. MaxTurns
  /\ revives \in 0 .. MaxRevives
  /\ filed \subseteq Reports
  /\ filings \in 0 .. MaxReports
  /\ expired \in BOOLEAN
  /\ refunded \in BOOLEAN

\* The reports that have been made under the child's name: its own, and the one
\* that an earlier agent of the name left.  The code does not tell them apart.
Reported == filed \cup ({inherited} \cap Reports)

\* Four processes write "done", each from what it read some time ago.  However
\* they interleave, a child becomes done only if there is a report under its name
\* (its own, unless an earlier agent of that name left one), or a timeout that its
\* policy asks for has expired, or its policy is to fail at once.
DoneHasACause ==
  [][status # "done" /\ status' = "done" =>
       \/ Reported # {}
       \/ policy = "timeout" /\ expired
       \/ policy = "fail"]_oversightVars

\* `follow' ends like a subprocess: 0 means that success was reported at some time
\* by the child, or by an earlier agent of its name; 2 that a timeout was asked for
\* and expired.  The parent gets budget back only for a child under whose name there
\* is a report; one that was given up (timeout, --on-stuck fail) keeps what it was
\* given.
ExitCodeIsTrue ==
  /\ \A f \in Followers :
       /\ follow[f].code = 0 => "success" \in Reported
       /\ follow[f].code = 2 => policy = "timeout" /\ expired
  /\ refunded => Reported # {}

\* What one would like instead, and what no run checks: only the child's own report
\* counts.  It fails after one refresh of the list, if the name was used before.
OnlyOwnReportCounts ==
  /\ \A f \in Followers : follow[f].code = 0 => "success" \in filed
  /\ refunded => filed # {}

\* A follower that waits for a report ends once there is one, and with a
\* timeout it ends even if the child is never heard of again.
WaitEnds ==
  \A f \in Followers :
    follow[f].at = "poll" /\ (Report # "none" \/ policy = "timeout") ~> follow[f].at = "ended"

\* Stale writes do not win: once a child has stopped for good and its report
\* is on disk, its session is marked done again and again (or deleted),
\* whatever a daemon, a follower or a lister with an old copy writes over it.
ReportSettles ==
  <>[](HookStop /\ Report # "none") => []<>(status \in {"done", "deleted"})

\* What a child owes comes to an end on both sides: whoever waits for it, and
\* its own record.
OversightEnds == WaitEnds /\ ReportSettles

\* What the documentation says of `follow': it blocks until a report arrives
\* or the policy triggers.  So once the child has stopped for good and its
\* report is on disk, a follower ends.
FollowHearsReport ==
  \A f \in Followers :
    <>[](HookStop /\ Report # "none") => <>[](follow[f].at \in {"idle", "ended"})
=============================================================================
