---------------------------- MODULE JobLifecycle -----------------------------
(***************************************************************************)
(* One bash job of `overcode jobs', from launch to clear: its record in    *)
(* jobs.json, its tmux window, the wrapper script that runs in it, and the *)
(* processes that infer from the window what became of the job.            *)
(*                                                                         *)
(* A locked update of jobs.json is one step.  Jobs have unique names and   *)
(* windows, so one job shows what can happen to any of them.               *)
(***************************************************************************)
EXTENDS Integers

CONSTANTS
  Listers,      \* processes that call list_jobs again and again (TUI, CLI)
  MaxFailures   \* bound on deaths of the launcher, of tmux and of `_complete'

ASSUME JobAssumption == MaxFailures \in Nat

VARIABLES
  job,       \* the record: status ("absent" if there is none), exit_code, tmux_window set
  launch,    \* where launch is
  server,    \* the tmux session "jobs" exists
  window,    \* the job's window: "none", "open" or "closed"
  script,    \* where the wrapper is in the window
  truth,     \* exit code of the command
  exitfile,  \* what the exit code file says
  old,       \* start_time is 30 seconds ago or more
  list,      \* list[l]: where lister l is, whether it saw a window name, what it read
  kill,      \* where kill_job is
  failures,  \* history: failures so far
  killed     \* history: kill_job was called for a running job

jobVars == <<job, launch, server, window, script, truth, exitfile, old, list, kill, failures, killed>>

Codes == {0, 1}
NoCode == -1
Final == {"completed", "failed", "killed"}

Absent == [status |-> "absent", code |-> NoCode, named |-> FALSE]
ListIdle == [at |-> "idle", named |-> FALSE, code |-> NoCode]

JobInit ==
  /\ job = Absent
  /\ launch = "begin"
  /\ server \in BOOLEAN
  /\ window = "none"
  /\ script = "none"
  /\ truth = NoCode
  /\ exitfile = NoCode
  /\ old = FALSE
  /\ list = [l \in Listers |-> ListIdle]
  /\ kill = "idle"
  /\ failures = 0
  /\ killed = FALSE

Fail == failures < MaxFailures /\ failures' = failures + 1

\* update_job and mark_complete change a record that is still there.
Update(f) == job' = IF job.status = "absent" THEN job ELSE f

-----------------------------------------------------------------------------
(* launch *)

LaunchUnchanged == UNCHANGED <<truth, exitfile, old, list, kill, killed>>

CreateJob ==
  /\ launch = "begin"
  /\ launch' = "window"
  /\ job' = [Absent EXCEPT !.status = "running"]
  /\ UNCHANGED <<server, window, script, failures>>
  /\ LaunchUnchanged

\* ensure_session and create_window
CreateWindow ==
  /\ launch = "window"
  /\ launch' = "name"
  /\ server' = TRUE
  /\ window' = "open"
  /\ script' = "prompt"
  /\ UNCHANGED <<job, failures>>
  /\ LaunchUnchanged

\* tmux makes no window: the job is deleted again.
CreateWindowFails ==
  /\ launch = "window"
  /\ Fail
  /\ launch' = "ended"
  /\ job' = Absent
  /\ UNCHANGED <<server, window, script>>
  /\ LaunchUnchanged

NameWindow ==
  /\ launch = "name"
  /\ launch' = "send"
  /\ Update([job EXCEPT !.named = TRUE])
  /\ UNCHANGED <<server, window, script, failures>>
  /\ LaunchUnchanged

\* The wrapper is typed into the window, if there still is one.
SendWrapper ==
  /\ launch = "send"
  /\ launch' = "ended"
  /\ script' = IF window = "open" THEN "command" ELSE script
  /\ UNCHANGED <<job, server, window, failures>>
  /\ LaunchUnchanged

LauncherDies ==
  /\ launch \in {"window", "name", "send"}
  /\ Fail
  /\ launch' = "ended"
  /\ UNCHANGED <<job, server, window, script>>
  /\ LaunchUnchanged

Launch == CreateJob \/ CreateWindow \/ NameWindow \/ SendWrapper

-----------------------------------------------------------------------------
(* The wrapper script and its window *)

ScriptUnchanged == UNCHANGED <<launch, server, window, old, list, kill, killed>>

\* The command ends.  From here on the shell has no child until `_complete'.
CommandEnds(c) ==
  /\ script = "command"
  /\ script' = "ended"
  /\ truth' = c
  /\ UNCHANGED <<job, exitfile, failures>>
  /\ ScriptUnchanged

WriteExitFile ==
  /\ script = "ended"
  /\ script' = "filed"
  /\ exitfile' = truth
  /\ UNCHANGED <<job, truth, failures>>
  /\ ScriptUnchanged

CallComplete ==
  /\ script = "filed"
  /\ script' = "complete"
  /\ UNCHANGED <<job, truth, exitfile, failures>>
  /\ ScriptUnchanged

Completed(c) == [job EXCEPT !.status = IF c = 0 THEN "completed" ELSE "failed", !.code = c]

\* overcode jobs _complete; then the window keeps a shell.
MarkComplete ==
  /\ script = "complete"
  /\ script' = "prompt"
  /\ Update(Completed(truth))
  /\ UNCHANGED <<truth, exitfile, failures>>
  /\ ScriptUnchanged

\* It dies, cannot be found, or raises StateWriteError.
CompleteFails ==
  /\ script = "complete"
  /\ Fail
  /\ script' = "prompt"
  /\ UNCHANGED <<job, truth, exitfile>>
  /\ ScriptUnchanged

CloseWindow ==
  /\ window' = "closed"
  /\ script' = "none"

\* A human closes the window, or the shell in it dies.
WindowCloses ==
  /\ window = "open"
  /\ CloseWindow
  /\ UNCHANGED <<job, launch, server, truth, exitfile, old, list, kill, failures, killed>>

\* tmux goes, and every window with it: a reboot, kill-server.
ServerDies ==
  /\ server
  /\ Fail
  /\ server' = FALSE
  /\ IF window = "open" THEN CloseWindow ELSE UNCHANGED <<window, script>>
  /\ UNCHANGED <<job, launch, truth, exitfile, old, list, kill, killed>>

\* Some other job is launched and makes the tmux session again.
ServerReturns ==
  /\ ~server
  /\ server' = TRUE
  /\ UNCHANGED <<job, launch, window, script, truth, exitfile, old, list, kill, failures, killed>>

\* Thirty seconds are longer than a launch takes, and longer than list_jobs
\* takes from its snapshot to its look at the windows.
Ages ==
  /\ launch = "ended" /\ ~old
  /\ \A l \in Listers : list[l].at = "windows" => list[l].named = job.named
  /\ old' = TRUE
  /\ UNCHANGED <<job, launch, server, window, script, truth, exitfile, list, kill, failures, killed>>

HasChildren == script \in {"command", "complete"}

-----------------------------------------------------------------------------
(* list_jobs *)

ListUnchanged == UNCHANGED <<launch, server, window, script, truth, old, kill, failures, killed>>

ListGoto(l, to) == list' = [list EXCEPT ![l].at = to]
ListReturns(l) == list' = [list EXCEPT ![l] = ListIdle]

\* The snapshot; only a running job is looked at.
ListBegins(l) ==
  /\ list[l].at = "idle"
  /\ job.status = "running"
  /\ list' = [list EXCEPT ![l] = [@ EXCEPT !.at = "windows", !.named = job.named]]
  /\ UNCHANGED <<job, exitfile>>
  /\ ListUnchanged

\* No windows at all is taken for a failed query; a missing window counts
\* only when the job is old enough.
ListWindows(l) ==
  /\ list[l].at = "windows"
  /\ LET there == list[l].named /\ window = "open"
     IN \/ ~server /\ ListReturns(l)
        \/ server /\ there /\ ListGoto(l, "pane")
        \/ server /\ ~there /\ old /\ ListGoto(l, "missing")
        \/ server /\ ~there /\ ~old /\ ListReturns(l)
  /\ UNCHANGED <<job, exitfile>>
  /\ ListUnchanged

ListKills(l) ==
  /\ list[l].at = "missing"
  /\ Update([job EXCEPT !.status = "killed"])
  /\ ListReturns(l)
  /\ UNCHANGED exitfile
  /\ ListUnchanged

\* Mutant: what cannot be read counts as an error.
ReadExitCodePessimist == IF exitfile = NoCode THEN 1 ELSE exitfile

\* _read_exit_code: 0 if there is no file.
ReadExitCode == IF exitfile = NoCode THEN 0 ELSE exitfile

\* Mutant: completion is left to the wrapper alone.
ListPaneBlind(l) ==
  /\ list[l].at = "pane"
  /\ ListReturns(l)
  /\ UNCHANGED <<job, exitfile>>
  /\ ListUnchanged

\* The shell in the pane has no child: the command is taken to have ended.
ListPane(l) ==
  /\ list[l].at = "pane"
  /\ LET idle == window = "open" /\ ~HasChildren
     IN \/ idle /\ list' = [list EXCEPT ![l] = [@ EXCEPT !.at = "mark", !.code = ReadExitCode]]
        \/ ~idle /\ ListReturns(l)
  /\ UNCHANGED <<job, exitfile>>
  /\ ListUnchanged

\* Mutant: the code is stored, but the status is taken from the job's copy.
ListMarksCodeOnly(l) ==
  /\ list[l].at = "mark"
  /\ Update([job EXCEPT !.code = list[l].code])
  /\ ListGoto(l, "unlink")
  /\ UNCHANGED exitfile
  /\ ListUnchanged

ListMarks(l) ==
  /\ list[l].at = "mark"
  /\ Update(Completed(list[l].code))
  /\ ListGoto(l, "unlink")
  /\ UNCHANGED exitfile
  /\ ListUnchanged

ListUnlinks(l) ==
  /\ list[l].at = "unlink"
  /\ exitfile' = NoCode
  /\ ListReturns(l)
  /\ UNCHANGED job
  /\ ListUnchanged

ListJobs(l) ==
  \/ ListBegins(l) \/ ListWindows(l) \/ ListKills(l)
  \/ ListPane(l) \/ ListMarks(l) \/ ListUnlinks(l)

-----------------------------------------------------------------------------
(* kill_job and clear_completed *)

KillUnchanged == UNCHANGED <<launch, server, truth, exitfile, old, list, failures>>

\* The name of the window is the one that was recorded by now.
KillBegins ==
  /\ kill = "idle"
  /\ job.status = "running"
  /\ kill' = IF job.named THEN "window" ELSE "update"
  /\ killed' = TRUE
  /\ UNCHANGED <<job, window, script>>
  /\ KillUnchanged

KillWindow ==
  /\ kill = "window"
  /\ kill' = "update"
  /\ IF window = "open" THEN CloseWindow ELSE UNCHANGED <<window, script>>
  /\ UNCHANGED <<job, killed>>
  /\ KillUnchanged

KillUpdates ==
  /\ kill = "update"
  /\ kill' = "idle"
  /\ Update([job EXCEPT !.status = "killed"])
  /\ UNCHANGED <<window, script, killed>>
  /\ KillUnchanged

ClearCompleted ==
  /\ job.status \in Final
  /\ job' = Absent
  /\ UNCHANGED <<window, script, kill, killed>>
  /\ KillUnchanged

-----------------------------------------------------------------------------

Wrapper == WriteExitFile \/ CallComplete \/ MarkComplete \/ CompleteFails

JobNext ==
  \/ Launch \/ CreateWindowFails \/ LauncherDies
  \/ \E c \in Codes : CommandEnds(c)
  \/ Wrapper \/ WindowCloses \/ ServerDies \/ ServerReturns \/ Ages
  \/ \E l \in Listers : ListJobs(l)
  \/ KillBegins \/ KillWindow \/ KillUpdates \/ ClearCompleted

JobSpec == JobInit /\ [][JobNext]_jobVars

\* The TUI lists the jobs on a timer, a wrapper that runs goes on, time passes.
\* The command itself may run for ever.
JobFairSpec ==
  /\ JobSpec
  /\ WF_jobVars(Launch) /\ WF_jobVars(Wrapper) /\ WF_jobVars(Ages)
  /\ \A l \in Listers : WF_jobVars(ListJobs(l))

-----------------------------------------------------------------------------
(* Properties *)

JobTypeOK ==
  /\ job \in [status : {"absent", "running"} \cup Final, code : Codes \cup {NoCode}, named : BOOLEAN]
  /\ job.code # NoCode => job.status \in Final
  /\ launch \in {"begin", "window", "name", "send", "ended"}
  /\ server \in BOOLEAN
  /\ window \in {"none", "open", "closed"}
  /\ script \in {"none", "prompt", "command", "ended", "filed", "complete"}
  /\ script # "none" => window = "open" /\ server
  /\ truth \in Codes \cup {NoCode}
  /\ exitfile \in Codes \cup {NoCode}
  /\ old \in BOOLEAN
  /\ list \in [Listers -> [at : {"idle", "windows", "missing", "pane", "mark", "unlink"},
                           named : BOOLEAN, code : Codes \cup {NoCode}]]
  /\ kill \in {"idle", "window", "update"}
  /\ failures \in 0 .. MaxFailures
  /\ killed \in BOOLEAN

\* Several processes infer the result from the window, the shell's children
\* and a file that each of them removes.  None of them ever invents a
\* failure: a job is recorded as failed only if its command did fail.
FailureIsReal == job.status = "failed" => truth = 1

\* A job whose command is running is recorded as killed only if somebody asked
\* to kill it: a lister that sees no window yet does not give it up.
KilledIsAsked == job.status = "killed" /\ script = "command" => killed

\* What the record says of a job's end, nobody has invented.
RecordIsTrue == FailureIsReal /\ KilledIsAsked

Over == window = "closed" \/ truth # NoCode \/ (launch = "ended" /\ window = "none")

\* However a job ends (its command returns, `_complete' is lost, the window or
\* tmux goes, the launcher dies half-way), its record does not say "running"
\* for ever, as long as the tmux session for jobs is there in the end.
EndIsSeen == <>[]server => (Over ~> job.status # "running")

\* job_launcher.py:106: "Window alive but shell has no child processes ->
\* command finished": so a job that is recorded as completed has succeeded.
SuccessIsReal == job.status = "completed" => truth = 0
=============================================================================
