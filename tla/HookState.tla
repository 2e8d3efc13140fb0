------------------------------ MODULE HookState ------------------------------
(***************************************************************************)
(* The hooks of one agent and the detector that reads what they leave.     *)
(* Claude Code starts a hook-handler process for each of its events: one   *)
(* at a time for a prompt and for the end of a turn, several at once for   *)
(* tools that run in parallel.  Each rewrites hook_state_<name>.json in    *)
(* place, without a lock, and appends to hook_events_<name>.jsonl, which   *)
(* it shortens through a temporary file that all of them share.            *)
(*                                                                         *)
(* Left out: permission requests and tool failures (events like others),   *)
(* the context line of a prompt, what the detector says of the activity.   *)
(***************************************************************************)
EXTENDS Integers, Sequences, SequencesExt

CONSTANTS
  Hooks,      \* hook-handler processes at one time
  MaxHooks,   \* bound on the hooks that are ever run
  RotateOver, \* length of log that is rotated (100 KB in the code)
  KeepLines   \* _EVENT_LOG_KEEP_LINES (200 in the code)

ASSUME HookAssumption ==
  /\ MaxHooks \in Nat
  /\ KeepLines \in Nat
  /\ RotateOver \in Nat /\ RotateOver >= KeepLines

VARIABLES
  turn,      \* what Claude does: at rest, in a turn, waiting for a hook of one of these
  hook,      \* hook[h]: where the process is, its event, the skills and lines it read
  record,    \* hook_state_<name>.json
  eventLog,  \* hook_events_<name>.jsonl: of each line its class, and whether it is recent
  tmpLog,    \* the temporary file of a rotation
  exceeded,  \* budget_exceeded of the agent in monitor_daemon_state.json
  pane,      \* what the agent's pane shows
  shown,     \* the status the detector last answered
  hooksRun   \* hooks run so far

hookVars == <<turn, hook, record, eventLog, tmpLog, exceeded, pane, shown, hooksRun>>

RunningEvents == {"UserPromptSubmit", "ToolUse", "Skill", "Sleep"}
RestEvents == {"Stop", "StopFailure", "SessionEnd", "UserPromptSubmitRejected"}

NoRecord == [kind |-> "missing", event |-> "none", skills |-> FALSE]
NoTmp == [exists |-> FALSE, lines |-> <<>>]
IdleHook == [at |-> "idle", event |-> "none", skills |-> FALSE, lines |-> <<>>]

HookInit ==
  /\ turn = "rest"
  /\ hook = [h \in Hooks |-> IdleHook]
  /\ record = NoRecord
  /\ eventLog = <<>>
  /\ tmpLog = NoTmp
  /\ exceeded = FALSE
  /\ pane = "prompt"
  /\ shown = "waiting"
  /\ hooksRun = 0

-----------------------------------------------------------------------------
(* Claude Code *)

QuietHooks == \A h \in Hooks : hook[h].at = "idle"

RunHook(h, event, next) ==
  /\ hook[h].at = "idle"
  /\ hooksRun < MaxHooks
  /\ hooksRun' = hooksRun + 1
  /\ hook' = [hook EXCEPT ![h] = [IdleHook EXCEPT !.at = "read", !.event = event]]
  /\ turn' = next
  /\ UNCHANGED <<record, eventLog, tmpLog, exceeded, shown>>

\* A prompt is submitted; Claude waits for its hook before it begins.
SubmitPrompt(h) ==
  /\ turn = "rest" /\ QuietHooks
  /\ pane' = "prompt"
  /\ RunHook(h, "UserPromptSubmit", "submitting")

\* Tools run one after the other or in parallel, each with hooks of its own.
UseTool(h, event) ==
  /\ turn = "turn"
  /\ UNCHANGED pane
  /\ RunHook(h, event, "turn")

\* The turn ends, by itself, by an error or with /exit and /clear, when all
\* its hooks have: its own hook is the last.
EndTurn(h, event) ==
  /\ turn = "turn" /\ QuietHooks
  /\ pane' = IF event = "SessionEnd" THEN "shell" ELSE "prompt"
  /\ RunHook(h, event, "ending")

\* Escape ends the turn without any hook, but the pane says so.
Interrupt ==
  /\ turn = "turn" /\ QuietHooks
  /\ turn' = "rest"
  /\ pane' = "interrupted"
  /\ UNCHANGED <<hook, record, eventLog, tmpLog, exceeded, shown, hooksRun>>

\* The published state says that the agent has spent its budget, or no more.
BudgetChanges ==
  /\ exceeded' = ~exceeded
  /\ UNCHANGED <<turn, hook, record, eventLog, tmpLog, pane, shown, hooksRun>>

-----------------------------------------------------------------------------
(* hook-handler *)

HookGoto(h, from, to) ==
  /\ hook[h].at = from
  /\ hook' = [hook EXCEPT ![h] = [hook[h] EXCEPT !.at = to]]

ClaudeUnchanged == UNCHANGED <<exceeded, pane, shown, hooksRun>>

\* write_hook_state reads the skills that were recorded so far.
ReadSkills(h) ==
  /\ hook[h].at = "read"
  /\ hook' = [hook EXCEPT ![h] = [hook[h] EXCEPT
                 !.at = "truncate", !.skills = record.skills \/ hook[h].event = "Skill"]]
  /\ UNCHANGED <<turn, record, eventLog, tmpLog>>
  /\ ClaudeUnchanged

\* write_text opens the file, which empties it,
TruncateRecord(h) ==
  /\ HookGoto(h, "truncate", "write")
  /\ record' = [NoRecord EXCEPT !.kind = "empty"]
  /\ UNCHANGED <<turn, eventLog, tmpLog>>
  /\ ClaudeUnchanged

\* and writes from its beginning: over what another process has written
\* since, of which a longer rest stays behind.
WriteRecord(h) ==
  /\ HookGoto(h, "write", "append")
  /\ LET mine == [kind |-> "json", event |-> hook[h].event, skills |-> hook[h].skills]
     IN record' \in IF record.kind = "empty" THEN {mine}
                    ELSE {mine, [NoRecord EXCEPT !.kind = "mixed"]}
  /\ UNCHANGED <<turn, eventLog, tmpLog>>
  /\ ClaudeUnchanged

\* Claude goes on when the hook ends; exit code 2 blocks the prompt.
HookEnds(h, blocked) ==
  /\ hook' = [hook EXCEPT ![h] = IdleHook]
  /\ turn' = CASE turn = "submitting" -> IF blocked THEN "rest" ELSE "turn"
               [] turn = "ending" -> "rest"
               [] OTHER -> turn

\* append_hook_event
AppendEvent(h) ==
  /\ eventLog' = Append(eventLog, [runs |-> hook[h].event \in RunningEvents, recent |-> TRUE])
  /\ HookGoto(h, "append", IF Len(eventLog') > RotateOver THEN "rotate" ELSE "budget")
  /\ UNCHANGED <<turn, record, tmpLog>>
  /\ ClaudeUnchanged

\* _rotate_event_log reads the log,
RotateReads(h) ==
  /\ hook[h].at = "rotate"
  /\ hook' = [hook EXCEPT ![h] =
       IF Len(eventLog) <= KeepLines THEN [hook[h] EXCEPT !.at = "budget"]
       ELSE [hook[h] EXCEPT !.at = "tmp",
               !.lines = SubSeq(eventLog, Len(eventLog) - KeepLines + 1, Len(eventLog))]]
  /\ UNCHANGED <<turn, record, eventLog, tmpLog>>
  /\ ClaudeUnchanged

\* writes its end to the temporary file,
RotateWrites(h) ==
  /\ HookGoto(h, "tmp", "replace")
  /\ tmpLog' = [exists |-> TRUE, lines |-> hook[h].lines]
  /\ UNCHANGED <<turn, record, eventLog>>
  /\ ClaudeUnchanged

\* and renames that, whoever wrote it, unless another process has already.
RotateReplaces(h) ==
  /\ hook[h].at = "replace"
  /\ hook' = [hook EXCEPT ![h] = [hook[h] EXCEPT !.at = "budget", !.lines = <<>>]]
  /\ eventLog' = IF tmpLog.exists THEN tmpLog.lines ELSE eventLog
  /\ tmpLog' = NoTmp
  /\ UNCHANGED <<turn, record>>
  /\ ClaudeUnchanged

\* A prompt over budget is recorded once more, as rejected, and then blocked.
CheckBudget(h) ==
  /\ hook[h].at = "budget"
  /\ IF hook[h].event = "UserPromptSubmit" /\ exceeded
     THEN /\ hook' = [hook EXCEPT ![h] = [IdleHook EXCEPT
                        !.at = "read", !.event = "UserPromptSubmitRejected"]]
          /\ UNCHANGED turn
     ELSE HookEnds(h, hook[h].event = "UserPromptSubmitRejected")
  /\ UNCHANGED <<record, eventLog, tmpLog>>
  /\ ClaudeUnchanged

HookStep(h) ==
  \/ ReadSkills(h) \/ TruncateRecord(h) \/ WriteRecord(h) \/ AppendEvent(h)
  \/ RotateReads(h) \/ RotateWrites(h) \/ RotateReplaces(h) \/ CheckBudget(h)

-----------------------------------------------------------------------------
(* HookStatusDetector *)

\* A second and a half passes without an event.
LogAges ==
  /\ \E i \in DOMAIN eventLog : eventLog[i].recent
  /\ eventLog' = [i \in DOMAIN eventLog |-> [eventLog[i] EXCEPT !.recent = FALSE]]
  /\ UNCHANGED <<turn, hook, record, tmpLog, exceeded, pane, shown, hooksRun>>

\* Mutant: a running event counts as recent however long ago it was.
RunningEventInLog == \E i \in DOMAIN eventLog : eventLog[i].runs

\* The log has a running event that is younger than the detector's patience.
RunningEventIsRecent == \E i \in DOMAIN eventLog : eventLog[i].runs /\ eventLog[i].recent

\* A missing or broken record counts as an agent that has not begun.
StatusOfRecord ==
  CASE record.kind # "json" -> "waiting"
    [] record.event = "SessionEnd" -> IF pane = "shell" THEN "terminated" ELSE "waiting"
    [] record.event = "Sleep" -> "busy_sleeping"
    [] record.event \in RunningEvents -> IF pane = "interrupted" THEN "waiting" ELSE "running"
    [] record.event = "Stop" ->
         IF RunningEventIsRecent /\ pane # "interrupted" THEN "running" ELSE "waiting"
    [] OTHER -> "error"

DetectHook ==
  /\ shown' = StatusOfRecord
  /\ UNCHANGED <<turn, hook, record, eventLog, tmpLog, exceeded, pane, hooksRun>>

-----------------------------------------------------------------------------

HookNext ==
  \/ \E h \in Hooks :
       \/ SubmitPrompt(h)
       \/ \E event \in {"ToolUse", "Skill", "Sleep"} : UseTool(h, event)
       \/ \E event \in {"Stop", "StopFailure", "SessionEnd"} : EndTurn(h, event)
       \/ HookStep(h)
  \/ Interrupt \/ BudgetChanges \/ LogAges \/ DetectHook

HookSpec == HookInit /\ [][HookNext]_hookVars

\* The processes run, time passes, and the daemon looks on every tick.
HookFairness ==
  /\ \A h \in Hooks : WF_hookVars(HookStep(h))
  /\ WF_hookVars(LogAges) /\ WF_hookVars(DetectHook)

-----------------------------------------------------------------------------
(* Properties *)

HookTypeOK ==
  /\ turn \in {"rest", "submitting", "turn", "ending"}
  /\ \A h \in Hooks : hook[h].event \in RunningEvents \cup RestEvents \cup {"none"}
  /\ record.kind \in {"missing", "empty", "json", "mixed"}
  /\ record.kind # "json" => record.event = "none" /\ ~record.skills
  /\ Len(eventLog) <= RotateOver + MaxHooks
  /\ pane \in {"prompt", "interrupted", "shell"}
  /\ shown \in {"waiting", "running", "busy_sleeping", "terminated", "error"}

\* When Claude rests, what all the hooks left behind reads as "running" for one
\* reason only: its turn ended with a Stop a moment ago.  A prompt that was
\* blocked, a turn that failed, an interrupt, a record that parallel hooks
\* broke or a rotation that lost lines leaves no other.
RestIsRecorded ==
  turn = "rest" /\ StatusOfRecord = "running" => record.event = "Stop" /\ RunningEventIsRecent

\* Once Claude rests for good (it stopped, failed, left, was interrupted, or
\* its prompt was blocked for its budget) the detector ceases to say that it
\* runs, whatever the hooks of parallel tools did to the record and to each
\* other's rotation.  (A bash sleep that was interrupted stays busy_sleeping.)
RestIsSeen ==
  /\ []RestIsRecorded
  /\ <>[](turn = "rest") => <>[](shown # "running")
=============================================================================
