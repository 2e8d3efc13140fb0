-------------------------- MODULE SupervisorDaemon ---------------------------
(***************************************************************************)
(* The supervisor daemon: the loop that reads what the monitor daemon      *)
(* publishes and runs one "daemon claude" in a tmux window of its own      *)
(* while agents need attention, and the statistics it keeps of those runs. *)
(* The daemon's lock is modelled in PidLock: there is one supervisor here. *)
(*                                                                         *)
(* Left out: run seconds, launch and timeout counters, what the prompts    *)
(* say.                                                                    *)
(***************************************************************************)
EXTENDS Integers, FiniteSets, FiniteSetsExt

CONSTANTS
  MaxRuns,     \* bound on the windows that are ever created
  MaxTokens,   \* bound on the tokens one run uses
  MaxFaults    \* bound on deaths, failures and closed windows

ASSUME SupervisorAssumption == MaxRuns \in Nat /\ MaxTokens \in Nat /\ MaxFaults \in Nat

VARIABLES
  phase,     \* where the daemon is in its loop; "off" if there is none
  mine,      \* daemon_claude_window is set
  windows,   \* how many tmux windows are called "_daemon_claude"
  claude,    \* what the Claude in the newest of them is doing
  seen,      \* whether this wait has polled, and has seen a tool at work
  mem,       \* supervisor_stats of the process: tokens, seen_session_ids
  disk,      \* supervisor_stats.json, or Torn
  tokens,    \* tokens[r]: what the transcript of run r adds up to
  runs,      \* runs so far; the newest is run number `runs'
  pane,      \* interventions on the pane that are not in the log yet
  log,       \* interventions in the log since the launch
  steers,    \* steers_count of the agents, summed
  need,      \* what the published agents need: nothing, their user, attention
  fresh,     \* the published state is not stale
  faults

loopVars == <<phase, mine, seen>>
windowVars == <<windows, claude, pane, runs, tokens>>
statVars == <<mem, disk, log, steers>>
worldVars == <<need, fresh>>
supVars == <<loopVars, windowVars, statVars, worldVars, faults>>

Runs == 1 .. MaxRuns
NoStats == [tokens |-> 0, ids |-> {}]
Torn == [torn |-> TRUE]

SupInit ==
  /\ phase = "off"
  /\ mine = FALSE
  /\ windows = 0
  /\ claude = "none"
  /\ seen = "unpolled"
  /\ mem = NoStats
  /\ disk = NoStats
  /\ tokens = [r \in Runs |-> 0]
  /\ runs = 0
  /\ pane = 0
  /\ log = 0
  /\ steers = 0
  /\ need = "nothing"
  /\ fresh = FALSE
  /\ faults = 0

Fault == faults < MaxFaults /\ faults' = faults + 1

NoWindow == windows' = 0 /\ claude' = "none" /\ pane' = 0 /\ UNCHANGED <<runs, tokens>>

IsDaemonClaudeRunning == mine /\ windows > 0

-----------------------------------------------------------------------------
(* The world around it *)

\* The agents' statuses as the monitor daemon publishes them change.
NeedChanges ==
  /\ need' \in {"nothing", "user", "attention"} \ {need}
  /\ UNCHANGED <<loopVars, windowVars, statVars, fresh, faults>>

MonitorChanges ==
  /\ fresh' = ~fresh
  /\ UNCHANGED <<loopVars, windowVars, statVars, need, faults>>

\* Claude gets past its start-up dialogs to its prompt.
ClaudeBoots ==
  /\ claude = "booting"
  /\ claude' = "prompt"
  /\ UNCHANGED <<loopVars, statVars, worldVars, windows, pane, runs, tokens, faults>>

\* It uses tokens and, with a tool, may intervene in an agent.
ClaudeActs ==
  /\ claude = "working"
  /\ tokens[runs] < MaxTokens
  /\ tokens' = [tokens EXCEPT ![runs] = @ + 1]
  /\ pane' \in {pane, 1}
  /\ UNCHANGED <<loopVars, statVars, worldVars, windows, claude, runs, faults>>

ClaudeFinishes ==
  /\ claude = "working"
  /\ claude' = "finished"
  /\ UNCHANGED <<loopVars, statVars, worldVars, windows, pane, runs, tokens, faults>>

WindowGoes ==
  /\ windows > 0
  /\ Fault
  /\ NoWindow
  /\ UNCHANGED <<loopVars, statVars, worldVars>>

-----------------------------------------------------------------------------
(* Start, end and the head of the loop *)

\* The constructor; a file that cannot be parsed is as good as none.
SupStarts ==
  /\ phase = "off"
  /\ phase' = "connect"
  /\ mine' = FALSE
  /\ mem' = IF disk = Torn THEN NoStats ELSE disk
  /\ log' = 0
  /\ UNCHANGED <<windowVars, worldVars, seen, disk, steers, faults>>

\* wait_for_monitor_daemon, which gives up after 30 seconds.
Connects ==
  /\ phase = "connect"
  /\ phase' = IF fresh THEN "top" ELSE "off"
  /\ UNCHANGED <<windowVars, statVars, worldVars, mine, seen, faults>>

\* The finally of run: kill_daemon_claude, remove_pid_file.
Quits ==
  /\ phase' = "off"
  /\ mine' = FALSE
  /\ seen' = "unpolled"
  /\ IF mine /\ windows > 0 THEN NoWindow ELSE UNCHANGED windowVars

\* A signal is looked at by the loop's condition only.
SupShutdown ==
  /\ phase = "top"
  /\ Quits
  /\ UNCHANGED <<statVars, worldVars, faults>>

\* SIGKILL, a power cut; stats are saved in place and may be left torn.
SupCrash ==
  /\ phase # "off"
  /\ Fault
  /\ phase' = "off"
  /\ mine' = FALSE
  /\ seen' = "unpolled"
  /\ disk' \in {disk} \cup (IF phase \in {"record", "mark", "late", "sync"} THEN {Torn} ELSE {})
  /\ UNCHANGED <<windowVars, worldVars, mem, log, steers>>

\* Mutant: windows that are not this process's are left alone.
CleanupStaleOwn ==
  /\ phase = "top"
  /\ phase' = "read"
  /\ mine' = (mine /\ windows > 0)
  /\ UNCHANGED <<windowVars, statVars, worldVars, seen, faults>>

\* cleanup_stale_daemon_claudes: forget a window that is gone, kill the
\* windows of an earlier process.  The name does not tell two windows apart.
CleanupStale ==
  /\ phase = "top"
  /\ phase' = "read"
  /\ mine' = (mine /\ windows > 0)
  /\ IF ~mine' /\ windows > 0 THEN NoWindow ELSE UNCHANGED windowVars
  /\ UNCHANGED <<statVars, worldVars, seen, faults>>

\* determine_supervisor_action: only "launch" and "wait" leave the loop's head.
Decides ==
  /\ phase = "read"
  /\ LET attend == fresh /\ need # "nothing"
     IN phase' = CASE attend /\ IsDaemonClaudeRunning -> "wait"
                   [] attend /\ ~IsDaemonClaudeRunning /\ need = "attention" -> "launch"
                   [] OTHER -> "top"
  /\ seen' = "unpolled"
  /\ UNCHANGED <<windowVars, statVars, worldVars, mine, faults>>

-----------------------------------------------------------------------------
(* launch_daemon_claude *)

\* create_window; from here on log entries count for this launch.
CreatesWindow ==
  /\ phase = "launch"
  /\ runs < MaxRuns
  /\ phase' = "startup"
  /\ mine' = TRUE
  /\ windows' = windows + 1
  /\ claude' = "booting"
  /\ pane' = 0
  /\ runs' = runs + 1
  /\ log' = 0
  /\ UNCHANGED <<worldVars, seen, mem, disk, steers, tokens, faults>>

\* No skill file, no tmux session, no window.
LaunchRefused ==
  /\ phase = "launch"
  /\ Fault
  /\ phase' = "top"
  /\ UNCHANGED <<windowVars, statVars, worldVars, mine, seen>>

\* The command cannot be typed: the window goes, its name is kept.
TypingFails ==
  /\ phase = "startup" /\ claude = "booting"
  /\ Fault
  /\ phase' = "top"
  /\ NoWindow
  /\ UNCHANGED <<statVars, worldVars, mine, seen>>

PromptSeen ==
  /\ phase = "startup" /\ claude = "prompt"
  /\ phase' = "prompt"
  /\ UNCHANGED <<windowVars, statVars, worldVars, mine, seen, faults>>

\* _accept_startup_prompts gives up after 15 seconds by a call of log.warning,
\* a method no daemon logger has: the exception ends the daemon.
StartupTimesOut ==
  /\ phase = "startup" /\ claude \in {"booting", "none"}
  /\ faults < MaxFaults \/ claude = "none"
  /\ faults' = IF claude = "none" THEN faults ELSE faults + 1
  /\ Quits
  /\ UNCHANGED <<statVars, worldVars>>

SendsPrompt ==
  /\ phase = "prompt" /\ claude = "prompt"
  /\ phase' = "record"
  /\ claude' = "working"
  /\ UNCHANGED <<statVars, worldVars, mine, seen, windows, pane, runs, tokens, faults>>

\* The launch has failed, but the action was "launch" and there may be a window.
SendFailsOrGone ==
  /\ phase = "prompt"
  /\ IF claude = "none" THEN UNCHANGED faults ELSE Fault
  /\ phase' = IF IsDaemonClaudeRunning THEN "wait" ELSE "top"
  /\ UNCHANGED <<windowVars, statVars, worldVars, mine, seen>>

RecordsLaunch ==
  /\ phase = "record"
  /\ phase' = IF IsDaemonClaudeRunning THEN "wait" ELSE "top"
  /\ disk' = mem
  /\ UNCHANGED <<windowVars, worldVars, mine, seen, mem, log, steers, faults>>

-----------------------------------------------------------------------------
(* wait_for_daemon_claude and what follows it *)

ShowsTools == claude \in {"working", "finished"}
IsDaemonClaudeDone == windows = 0 \/ claude = "finished"

\* capture_daemon_claude_output, then the two questions to the pane.
Polls ==
  /\ phase = "wait"
  /\ log' = log + pane
  /\ pane' = 0
  /\ seen' = IF seen = "tools" \/ ShowsTools THEN "tools" ELSE "nothing"
  /\ phase' = IF seen' = "tools" /\ IsDaemonClaudeDone THEN "mark" ELSE "wait"
  /\ UNCHANGED <<worldVars, mine, windows, claude, runs, tokens, mem, disk, steers, faults>>

WaitTimesOut ==
  /\ phase = "wait" /\ seen # "unpolled"
  /\ phase' = "late"
  /\ UNCHANGED <<windowVars, statVars, worldVars, mine, seen, faults>>

\* _mark_daemon_claude_stopped saves the stats.
Marks ==
  /\ phase = "mark"
  /\ phase' = "kill"
  /\ disk' = mem
  /\ UNCHANGED <<windowVars, worldVars, mine, seen, mem, log, steers, faults>>

\* Mutant: the finished Claude is left in its window.
KillsDaemonClaudeNot ==
  /\ phase = "kill"
  /\ phase' = "count"
  /\ UNCHANGED <<windowVars, statVars, worldVars, mine, seen, faults>>

KillsDaemonClaude ==
  /\ phase = "kill"
  /\ phase' = "count"
  /\ mine' = FALSE
  /\ IF mine /\ windows > 0 THEN NoWindow ELSE UNCHANGED windowVars
  /\ UNCHANGED <<statVars, worldVars, seen, faults>>

\* What the logger writes in front of a line, and what the counter parses.
FileStamp == "year-month-day"
TimestampFormats == {"weekday-day-month-year"}

\* count_interventions_from_log skips a line whose stamp it cannot parse.
CountInterventionsFromLog == IF FileStamp \in TimestampFormats THEN log ELSE 0

UpdatesCounts ==
  /\ phase = "count"
  /\ phase' = "sync"
  /\ steers' = steers + CountInterventionsFromLog
  /\ UNCHANGED <<windowVars, worldVars, mine, seen, mem, disk, log, faults>>

NewRuns == {r \in 1 .. runs : r \notin mem.ids}

\* _sync_daemon_claude_tokens: all transcripts it has not seen, if they say
\* anything at all.
Synced ==
  LET new == MapThenSumSet(LAMBDA r : tokens[r], NewRuns)
  IN  IF new > 0 THEN [tokens |-> mem.tokens + new, ids |-> mem.ids \cup NewRuns] ELSE mem

SyncsTokens ==
  /\ phase = "sync"
  /\ phase' = "top"
  /\ mem' = Synced
  /\ disk' = IF Synced = mem THEN disk ELSE Synced
  /\ UNCHANGED <<windowVars, worldVars, mine, seen, log, steers, faults>>

\* Mutant: tokens are read after a timeout too.
GoesOnLateSyncs ==
  /\ phase = "late"
  /\ phase' = "top"
  /\ mem' = Synced
  /\ disk' = Synced
  /\ UNCHANGED <<windowVars, worldVars, mine, seen, log, steers, faults>>

\* After a timeout the window stays; the next loop waits for it again.
GoesOnLate ==
  /\ phase = "late"
  /\ phase' = "top"
  /\ disk' = mem
  /\ UNCHANGED <<windowVars, worldVars, mine, seen, mem, log, steers, faults>>

-----------------------------------------------------------------------------

SupSteps ==
  \/ Connects \/ CleanupStale \/ Decides
  \/ CreatesWindow \/ PromptSeen \/ SendsPrompt \/ RecordsLaunch
  \/ Polls \/ Marks \/ KillsDaemonClaude \/ UpdatesCounts \/ SyncsTokens \/ GoesOnLate

SupFailures ==
  \/ SupCrash \/ LaunchRefused \/ TypingFails \/ StartupTimesOut
  \/ SendFailsOrGone \/ WaitTimesOut

World == NeedChanges \/ MonitorChanges \/ ClaudeBoots \/ ClaudeActs \/ ClaudeFinishes \/ WindowGoes

SupNext == SupStarts \/ SupShutdown \/ SupSteps \/ SupFailures \/ World

SupSpec == SupInit /\ [][SupNext]_supVars

\* The daemon's loop goes on, its timeouts pass, it notices that a window is
\* gone, and a Claude that has a prompt does its work.
SupFairSpec ==
  /\ SupSpec
  /\ WF_supVars(SupSteps) /\ WF_supVars(WaitTimesOut)
  /\ WF_supVars(windows = 0 /\ (StartupTimesOut \/ SendFailsOrGone))
  /\ WF_supVars(ClaudeBoots) /\ WF_supVars(ClaudeFinishes)

-----------------------------------------------------------------------------
(* Properties *)

Phases == {"off", "connect", "top", "read", "launch", "startup", "prompt", "record",
           "wait", "late", "mark", "kill", "count", "sync"}
Stats == [tokens : 0 .. MaxRuns * MaxTokens, ids : SUBSET Runs]

SupTypeOK ==
  /\ phase \in Phases
  /\ mine \in BOOLEAN
  /\ windows \in Nat
  /\ claude \in {"none", "booting", "prompt", "working", "finished"}
  /\ claude = "none" <=> windows = 0
  /\ seen \in {"unpolled", "nothing", "tools"}
  /\ mem \in Stats
  /\ disk \in Stats \cup {Torn}
  /\ tokens \in [Runs -> 0 .. MaxTokens]
  /\ runs \in 0 .. MaxRuns
  /\ pane \in 0 .. 1
  /\ log \in Nat /\ steers \in Nat
  /\ need \in {"nothing", "user", "attention"} /\ fresh \in BOOLEAN
  /\ faults \in 0 .. MaxFaults

Adds(stats) == stats.tokens = MapThenSumSet(LAMBDA r : tokens[r], stats.ids)

\* There is one daemon claude at most, whatever an earlier supervisor left
\* behind: two of them would answer the same prompts.  The token count is what
\* the transcripts it has read add up to, in the process and on disk, through
\* timeouts, deaths and torn files: no transcript is read while its run goes
\* on, none is counted twice.
OneClaudeCountedOnce ==
  /\ windows <= 1
  /\ phase # "off" => Adds(mem)
  /\ disk # Torn => Adds(disk)

Unprompted == claude = "prompt" /\ phase \notin {"startup", "prompt"}

\* While the supervisor runs, the published state is fresh and agents need
\* attention, some daemon claude is given their list again and again.  A prompt
\* that is lost on the way (the window waits for it for ever) is the exception.
AttentionIsPaid ==
  []<>(\/ claude = "working"
       \/ ~(phase # "off" /\ fresh /\ need = "attention")
       \/ Unprompted \/ runs = MaxRuns)
=============================================================================
