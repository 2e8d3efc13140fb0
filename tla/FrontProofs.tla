---------------------------- MODULE FrontProofs -----------------------------
(***************************************************************************)
(* Proofs about what runs beside an agent, for any set of listers and      *)
(* hooks and any number of failures: what the record of a job says is true *)
(* and an agent at rest is recorded as being so.                           *)
(*                                                                         *)
(* The modules share no variable: each is proved of its own specification, *)
(* those of the state file in StateFileProofs and those of the TUI in      *)
(* TuiProofs; the last theorems bring them together for the behaviours     *)
(* that TLC runs.                                                          *)
(***************************************************************************)
EXTENDS MCFront, StateFileProofs, TuiProofs

-----------------------------------------------------------------------------
(* A job *)

\* What the registry holds of a job, and where a lister is.
JobType == [status : {"absent", "running"} \cup Final, code : Codes \cup {NoCode}, named : BOOLEAN]
ListType == [at : {"idle", "windows", "missing", "pane", "mark", "unlink"},
             named : BOOLEAN, code : Codes \cup {NoCode}]

\* The command of the job ran to its end.
Ran == {"ended", "filed", "complete"}

\* The command is started once, by the last step of launch, and its exit code
\* is known from its end on.  A window that is open is one of a server.
TruthInv ==
  /\ window = "open" => server
  /\ launch # "ended" \/ script = "command" => truth = NoCode
  /\ script \in Ran \cup {"command"} => launch = "ended"
  /\ script \in Ran => truth \in Codes

\* Every copy of the exit code 1 goes back to the command.
CodeInv ==
  /\ exitfile = 1 => truth = 1
  /\ \A l \in Listers : list[l].at = "mark" => list[l].code \in Codes
  /\ \A l \in Listers : list[l].code = 1 => truth = 1

\* A window in which the command runs has its name in the record, and in the
\* snapshot of every lister that looks once the grace period is over.
NameInv ==
  /\ launch = "send" \/ script = "command" => job.status = "absent" \/ job.named
  /\ old => launch = "ended"
  /\ \A l \in Listers : list[l].at = "windows" /\ old => job.status = "absent" \/ list[l].named = job.named

\* Who is about to write "killed" knows that the command does not run, or was
\* asked to.
KillInv ==
  /\ \A l \in Listers : list[l].at = "missing" => old /\ (script = "command" => job.status = "absent")
  /\ kill # "idle" => killed
  /\ job.status = "killed" /\ launch # "ended" => killed

\* The inductive invariant.
JobInv == JobTypeOK /\ TruthInv /\ CodeInv /\ NameInv /\ KillInv /\ FailureIsReal /\ KilledIsAsked

-----------------------------------------------------------------------------

\* The initial state satisfies the inductive invariant.
LEMMA JobBegins == JobInit => JobInv
<1> SUFFICES ASSUME JobInit PROVE JobInv
  OBVIOUS
<1> USE JobAssumption DEF JobInit, Absent, ListIdle, NoCode, Codes, Final, Ran
<1>1. server \in BOOLEAN /\ old \in BOOLEAN /\ killed \in BOOLEAN
  BY Zenon
<1>2. job \in JobType /\ list \in [Listers -> ListType]
  BY DEF JobType, ListType
<1>3. JobTypeOK
  BY <1>1, <1>2 DEF JobTypeOK, JobType, ListType
<1> QED
  BY <1>3 DEF JobInv, TruthInv, CodeInv, NameInv, KillInv, FailureIsReal, KilledIsAsked

-----------------------------------------------------------------------------

(* launch *)

\* The steps of launch keep the invariant.
LEMMA LaunchKeeps == JobInv /\ (Launch \/ CreateWindowFails \/ LauncherDies) => JobInv'
<1> SUFFICES ASSUME JobInv, Launch \/ CreateWindowFails \/ LauncherDies PROVE JobInv'
  OBVIOUS
<1> USE JobAssumption DEF JobInv, JobTypeOK, TruthInv, CodeInv, NameInv, KillInv, FailureIsReal, KilledIsAsked,
      Absent, ListIdle, NoCode, Codes, Final, Ran, Fail, Update, Completed, JobType, ListType, LaunchUnchanged
<1>1. CASE CreateJob
  BY <1>1 DEF CreateJob
<1>2. CASE CreateWindow
  BY <1>2 DEF CreateWindow
<1>3. CASE NameWindow
  <2>1. JobTypeOK' /\ TruthInv'
    BY <1>3 DEF NameWindow
  <2>2. CodeInv' /\ NameInv'
    BY <1>3 DEF NameWindow
  <2>3. KillInv' /\ FailureIsReal' /\ KilledIsAsked'
    BY <1>3 DEF NameWindow
  <2> QED
    BY <2>1, <2>2, <2>3
<1>4. CASE SendWrapper
  <2>1. CASE window = "open"
    <3>1. JobTypeOK' /\ TruthInv'
      <4>1. server' \in BOOLEAN /\ old' \in BOOLEAN /\ killed' \in BOOLEAN
        BY <1>4, Zenon DEF SendWrapper
      <4>2. failures' \in 0 .. MaxFailures
        BY <1>4 DEF SendWrapper
      <4>3. UNCHANGED <<job, truth, exitfile, list, kill>>
        BY <1>4, Zenon DEF SendWrapper
      <4>4. /\ script' \in {"none", "prompt", "command", "ended", "filed", "complete"}
            /\ script' # "none" => window' = "open" /\ server'
            /\ window' \in {"none", "open", "closed"}
            /\ launch' \in {"begin", "window", "name", "send", "ended"}
        BY <1>4, <2>1 DEF SendWrapper
      <4>5. TruthInv'
        BY <1>4, <2>1 DEF SendWrapper
      <4> QED
        BY <4>1, <4>2, <4>3, <4>4, <4>5
    <3>2. CodeInv'
      BY <1>4, <2>1 DEF SendWrapper
    <3>3. NameInv' /\ KillInv'
      BY <1>4, <2>1 DEF SendWrapper
    <3>4. FailureIsReal' /\ KilledIsAsked'
      BY <1>4, <2>1 DEF SendWrapper
    <3> QED
      BY <3>1, <3>2, <3>3, <3>4
  <2>2. CASE window # "open"
    BY <1>4, <2>2 DEF SendWrapper
  <2> QED
    BY <2>1, <2>2
<1>5. CASE CreateWindowFails
  BY <1>5 DEF CreateWindowFails
<1>6. CASE LauncherDies
  BY <1>6 DEF LauncherDies
<1> QED
  BY <1>1, <1>2, <1>3, <1>4, <1>5, <1>6 DEF Launch

-----------------------------------------------------------------------------
(* The wrapper script *)

\* The steps of the wrapper keep the invariant.
LEMMA WrapperKeeps == JobInv /\ ((\E c \in Codes : CommandEnds(c)) \/ Wrapper) => JobInv'
<1> SUFFICES ASSUME JobInv, (\E c \in Codes : CommandEnds(c)) \/ Wrapper PROVE JobInv'
  OBVIOUS
<1> USE JobAssumption DEF JobInv, JobTypeOK, TruthInv, CodeInv, NameInv, KillInv, FailureIsReal, KilledIsAsked,
      Absent, ListIdle, NoCode, Codes, Final, Ran, Fail, Update, Completed, JobType, ListType, ScriptUnchanged
<1>1. CASE \E c \in Codes : CommandEnds(c)
  BY <1>1 DEF CommandEnds
<1>2. CASE WriteExitFile
  BY <1>2 DEF WriteExitFile
<1>3. CASE CallComplete
  BY <1>3 DEF CallComplete
<1>4. CASE MarkComplete
  <2>1. JobTypeOK' /\ TruthInv'
    BY <1>4 DEF MarkComplete
  <2>2. CodeInv' /\ NameInv'
    BY <1>4 DEF MarkComplete
  <2>3. KillInv' /\ FailureIsReal' /\ KilledIsAsked'
    BY <1>4 DEF MarkComplete
  <2> QED
    BY <2>1, <2>2, <2>3
<1>5. CASE CompleteFails
  BY <1>5 DEF CompleteFails
<1> QED
  BY <1>1, <1>2, <1>3, <1>4, <1>5 DEF Wrapper

(* The window and time *)

\* What happens to the window and to tmux, and the passing of time, keep it.
LEMMA WorldKeeps == JobInv /\ (WindowCloses \/ ServerDies \/ ServerReturns \/ Ages) => JobInv'
<1> SUFFICES ASSUME JobInv, WindowCloses \/ ServerDies \/ ServerReturns \/ Ages PROVE JobInv'
  OBVIOUS
<1> USE JobAssumption DEF JobInv, JobTypeOK, TruthInv, CodeInv, NameInv, KillInv, FailureIsReal, KilledIsAsked,
      Absent, ListIdle, NoCode, Codes, Final, Ran, Fail, Update, Completed, JobType, ListType, CloseWindow
<1>1. CASE WindowCloses
  BY <1>1 DEF WindowCloses
<1>2. CASE ServerDies
  <2>1. CASE window = "open"
    <3>1. JobTypeOK' /\ TruthInv'
      <4>1. server' \in BOOLEAN /\ old' \in BOOLEAN /\ killed' \in BOOLEAN
        BY <1>2, Zenon DEF ServerDies
      <4>2. failures' \in 0 .. MaxFailures
        BY <1>2 DEF ServerDies
      <4>3. UNCHANGED <<job, truth, exitfile, list, kill>>
        BY <1>2, Zenon DEF ServerDies
      <4>4. /\ script' \in {"none", "prompt", "command", "ended", "filed", "complete"}
            /\ script' # "none" => window' = "open" /\ server'
            /\ window' \in {"none", "open", "closed"}
            /\ launch' \in {"begin", "window", "name", "send", "ended"}
        BY <1>2, <2>1 DEF ServerDies
      <4>5. TruthInv'
        BY <1>2, <2>1 DEF ServerDies
      <4> QED
        BY <4>1, <4>2, <4>3, <4>4, <4>5
    <3>2. CodeInv'
      BY <1>2, <2>1 DEF ServerDies
    <3>3. NameInv' /\ KillInv'
      BY <1>2, <2>1 DEF ServerDies
    <3>4. FailureIsReal' /\ KilledIsAsked'
      BY <1>2, <2>1 DEF ServerDies
    <3> QED
      BY <3>1, <3>2, <3>3, <3>4
  <2>2. CASE window # "open"
    <3>1. JobTypeOK' /\ TruthInv'
      <4>1. server' \in BOOLEAN /\ old' \in BOOLEAN /\ killed' \in BOOLEAN
        BY <1>2, Zenon DEF ServerDies
      <4>2. failures' \in 0 .. MaxFailures
        BY <1>2 DEF ServerDies
      <4>3. UNCHANGED <<job, truth, exitfile, list, kill>>
        BY <1>2, Zenon DEF ServerDies
      <4>4. /\ script' \in {"none", "prompt", "command", "ended", "filed", "complete"}
            /\ script' # "none" => window' = "open" /\ server'
            /\ window' \in {"none", "open", "closed"}
            /\ launch' \in {"begin", "window", "name", "send", "ended"}
        BY <1>2, <2>2 DEF ServerDies
      <4>5. TruthInv'
        BY <1>2, <2>2 DEF ServerDies
      <4> QED
        BY <4>1, <4>2, <4>3, <4>4, <4>5
    <3>2. CodeInv'
      BY <1>2, <2>2 DEF ServerDies
    <3>3. NameInv' /\ KillInv'
      BY <1>2, <2>2 DEF ServerDies
    <3>4. FailureIsReal' /\ KilledIsAsked'
      BY <1>2, <2>2 DEF ServerDies
    <3> QED
      BY <3>1, <3>2, <3>3, <3>4
  <2> QED
    BY <2>1, <2>2
<1>3. CASE ServerReturns
  BY <1>3 DEF ServerReturns
<1>4. CASE Ages
  BY <1>4 DEF Ages
<1> QED
  BY <1>1, <1>2, <1>3, <1>4

-----------------------------------------------------------------------------
(* list_jobs *)

\* What a step of lister l does to the part of the state it is about.
ListStep(l, entry) ==
  /\ entry \in ListType
  /\ list' = [list EXCEPT ![l] = entry]
  /\ UNCHANGED <<launch, server, window, script, truth, old, kill, failures, killed>>

\* Such a step keeps the invariant if its new entry satisfies what the
\* invariant asks of every lister, and the job and its file what it asks of them.
LEMMA ListStepKeeps ==
  ASSUME JobInv, NEW l \in Listers, NEW entry, ListStep(l, entry),
         job' \in JobType,
         job'.code # NoCode => job'.status \in Final,
         exitfile' \in {exitfile, NoCode},
         job'.named = job.named,
         job'.status = "absent" <=> job.status = "absent",
         job'.status = "failed" => truth = 1,
         job'.status = "killed" => job.status = "killed" \/ (launch = "ended" /\ script # "command"),
         entry.at = "mark" => entry.code \in Codes,
         entry.code = 1 => truth = 1,
         entry.at = "windows" => entry.named = job.named,
         entry.at = "missing" => old /\ (script = "command" => job.status = "absent")
  PROVE  JobInv'
<1> USE JobAssumption DEF JobInv
<1>1. list' \in [Listers -> ListType]
  BY DEF ListStep, JobTypeOK, ListType
<1>2. list'[l] = entry /\ \A m \in Listers : m # l => list'[m] = list[m]
  BY DEF ListStep, JobTypeOK
<1>3. UNCHANGED <<launch, server, window, script, truth, old, kill, failures, killed>>
  BY DEF ListStep
<1> HIDE DEF JobInv
<1>4. JobTypeOK'
  BY <1>1, <1>3 DEF JobInv, JobTypeOK, JobType, ListType, NoCode, Codes
<1>5. TruthInv'
  BY <1>3 DEF JobInv, TruthInv
<1>6. CodeInv'
  <2>1. exitfile' = 1 => truth' = 1
    BY <1>3 DEF JobInv, CodeInv, NoCode
  <2>2. ASSUME NEW m \in Listers
        PROVE  (list'[m].at = "mark" => list'[m].code \in Codes) /\ (list'[m].code = 1 => truth' = 1)
    BY <1>2, <1>3 DEF JobInv, CodeInv
  <2> QED
    BY <2>1, <2>2 DEF CodeInv
<1>7. NameInv'
  <2>1. ASSUME NEW m \in Listers, list'[m].at = "windows", old'
        PROVE  job'.status = "absent" \/ list'[m].named = job'.named
    BY <1>2, <1>3, <2>1 DEF JobInv, NameInv
  <2> QED
    BY <1>3, <2>1 DEF JobInv, NameInv
<1>8. KillInv'
  <2>1. ASSUME NEW m \in Listers, list'[m].at = "missing"
        PROVE  old' /\ (script' = "command" => job'.status = "absent")
    BY <1>2, <1>3, <2>1 DEF JobInv, KillInv
  <2>2. job'.status = "killed" /\ launch' # "ended" => killed'
    BY <1>3 DEF JobInv, KillInv
  <2> QED
    BY <1>3, <2>1, <2>2 DEF JobInv, KillInv
<1>9. FailureIsReal' /\ KilledIsAsked'
  BY <1>3 DEF JobInv, FailureIsReal, KilledIsAsked
<1> QED
  BY <1>4, <1>5, <1>6, <1>7, <1>8, <1>9 DEF JobInv

\* The steps of a lister keep the invariant.
LEMMA ListKeeps == ASSUME JobInv, NEW l \in Listers, ListJobs(l) PROVE JobInv'
<1>1. job \in JobType /\ list[l] \in ListType /\ (job.code # NoCode => job.status \in Final)
  BY DEF JobInv, JobTypeOK, JobType, ListType
<1>2. /\ job.status = "failed" => truth = 1
      /\ list[l].at = "mark" => list[l].code \in Codes
      /\ list[l].code = 1 => truth = 1
      /\ exitfile = 1 => truth = 1
      /\ exitfile \in Codes \cup {NoCode}
  BY DEF JobInv, JobTypeOK, CodeInv, FailureIsReal
<1>3. list \in [Listers -> ListType]
  BY DEF JobInv, JobTypeOK, ListType
<1>4. CASE ListBegins(l)
  <2> DEFINE entry == [list[l] EXCEPT !.at = "windows", !.named = job.named]
  <2>1. entry \in ListType /\ entry.at = "windows" /\ entry.named = job.named /\ entry.code = list[l].code
    BY <1>1 DEF ListType, JobType
  <2>2. list' = [list EXCEPT ![l] = entry]
    BY <1>4, <1>3 DEF ListBegins
  <2> HIDE DEF entry
  <2>3. ListStep(l, entry)
    BY <1>4, <2>1, <2>2 DEF ListBegins, ListUnchanged, ListStep
  <2> QED
    BY <1>4, <1>1, <1>2, <2>1, <2>3, ListStepKeeps DEF ListBegins
<1>5. CASE ListWindows(l)
  <2>1. CASE ListReturns(l)
    <3>1. ListIdle \in ListType /\ ListIdle.at = "idle" /\ ListIdle.code = NoCode
      BY DEF ListIdle, ListType, Codes
    <3>2. ListStep(l, ListIdle)
      BY <1>5, <2>1, <3>1 DEF ListWindows, ListUnchanged, ListReturns, ListStep
    <3> QED
      BY <1>5, <1>1, <1>2, <3>1, <3>2, ListStepKeeps DEF ListWindows, NoCode
  <2>2. CASE ListGoto(l, "pane")
    <3> DEFINE entry == [list[l] EXCEPT !.at = "pane"]
    <3>1. entry \in ListType /\ entry.at = "pane" /\ entry.code = list[l].code
      BY <1>1 DEF ListType
    <3>2. list' = [list EXCEPT ![l] = entry]
      BY <2>2, <1>3 DEF ListGoto
    <3> HIDE DEF entry
    <3>3. ListStep(l, entry)
      BY <1>5, <3>1, <3>2 DEF ListWindows, ListUnchanged, ListStep
    <3> QED
      BY <1>5, <1>1, <1>2, <3>1, <3>3, ListStepKeeps DEF ListWindows
  <2>3. CASE ListGoto(l, "missing") /\ server /\ ~(list[l].named /\ window = "open") /\ old
    <3> DEFINE entry == [list[l] EXCEPT !.at = "missing"]
    <3>1. entry \in ListType /\ entry.at = "missing" /\ entry.code = list[l].code
      BY <1>1 DEF ListType
    <3>2. list' = [list EXCEPT ![l] = entry]
      BY <2>3, <1>3 DEF ListGoto
    <3>3. script = "command" => job.status = "absent"
      BY <1>5, <2>3 DEF ListWindows, JobInv, JobTypeOK, NameInv
    <3> HIDE DEF entry
    <3>4. ListStep(l, entry)
      BY <1>5, <3>1, <3>2 DEF ListWindows, ListUnchanged, ListStep
    <3> QED
      BY <1>5, <2>3, <1>1, <1>2, <3>1, <3>3, <3>4, ListStepKeeps DEF ListWindows
  <2> QED
    BY <1>5, <2>1, <2>2, <2>3 DEF ListWindows
<1>6. CASE ListKills(l)
  <2>1. ListIdle \in ListType /\ ListIdle.at = "idle" /\ ListIdle.code = NoCode
    BY DEF ListIdle, ListType, Codes
  <2>2. ListStep(l, ListIdle)
    BY <1>6, <2>1 DEF ListKills, ListUnchanged, ListReturns, ListStep
  <2>3. launch = "ended" /\ (script = "command" => job.status = "absent")
    BY <1>6 DEF ListKills, JobInv, KillInv, NameInv
  <2>4. /\ job' \in JobType
        /\ job'.named = job.named
        /\ job.status = "absent" => job' = job
        /\ job.status # "absent" => job'.status = "killed"
    BY <1>6, <1>1 DEF ListKills, Update, JobType, Final
  <2>5. /\ job'.code # NoCode => job'.status \in Final
        /\ job'.status = "absent" <=> job.status = "absent"
        /\ job'.status = "failed" => truth = 1
    BY <2>4, <1>1, <1>2 DEF Final
  <2>6. exitfile' = exitfile
    BY <1>6 DEF ListKills
  <2> QED
    BY <2>1, <2>2, <2>3, <2>4, <2>5, <2>6, ListStepKeeps DEF NoCode
<1>7. CASE ListPane(l)
  <2>1. CASE ListReturns(l)
    <3>1. ListIdle \in ListType /\ ListIdle.at = "idle" /\ ListIdle.code = NoCode
      BY DEF ListIdle, ListType, Codes
    <3>2. ListStep(l, ListIdle)
      BY <1>7, <2>1, <3>1 DEF ListPane, ListUnchanged, ListReturns, ListStep
    <3> QED
      BY <1>7, <1>1, <1>2, <3>1, <3>2, ListStepKeeps DEF ListPane, NoCode
  <2>2. CASE list' = [list EXCEPT ![l] = [@ EXCEPT !.at = "mark", !.code = ReadExitCode]]
    <3> DEFINE entry == [list[l] EXCEPT !.at = "mark", !.code = ReadExitCode]
    <3>1. ReadExitCode \in Codes /\ (ReadExitCode = 1 => truth = 1)
      BY <1>2 DEF ReadExitCode, Codes, NoCode
    <3>2. entry \in ListType /\ entry.at = "mark" /\ entry.code = ReadExitCode
      BY <1>1, <3>1 DEF ListType
    <3>3. list' = [list EXCEPT ![l] = entry]
      BY <2>2, <1>3
    <3> HIDE DEF entry
    <3>4. ListStep(l, entry)
      BY <1>7, <3>2, <3>3 DEF ListPane, ListUnchanged, ListStep
    <3> QED
      BY <1>7, <1>1, <1>2, <3>1, <3>2, <3>4, ListStepKeeps DEF ListPane
  <2> QED
    BY <1>7, <2>1, <2>2 DEF ListPane
<1>8. CASE ListMarks(l)
  <2> DEFINE entry == [list[l] EXCEPT !.at = "unlink"]
  <2>1. entry \in ListType /\ entry.at = "unlink" /\ entry.code = list[l].code
    BY <1>1 DEF ListType
  <2>2. list' = [list EXCEPT ![l] = entry]
    BY <1>8, <1>3 DEF ListMarks, ListGoto
  <2>3. ListStep(l, entry)
    BY <1>8, <2>1, <2>2 DEF ListMarks, ListUnchanged, ListStep
  <2> HIDE DEF entry
  <2>4. list[l].code \in Codes /\ (list[l].code = 1 => truth = 1)
    BY <1>8, <1>2 DEF ListMarks
  <2>5. /\ job' \in JobType
        /\ job'.named = job.named
        /\ job.status = "absent" => job' = job
        /\ job.status # "absent" /\ list[l].code = 0 => job'.status = "completed"
        /\ job.status # "absent" /\ list[l].code # 0 => job'.status = "failed"
    BY <1>8, <1>1, <2>4 DEF ListMarks, Update, Completed, JobType, Final
  <2>6. /\ job'.code # NoCode => job'.status \in Final
        /\ job'.status = "absent" <=> job.status = "absent"
        /\ job'.status = "failed" => truth = 1
        /\ job'.status = "killed" => job.status = "killed"
    BY <2>4, <2>5, <1>1, <1>2 DEF Final, Codes
  <2>7. exitfile' = exitfile
    BY <1>8 DEF ListMarks
  <2> QED
    BY <1>2, <2>1, <2>3, <2>5, <2>6, <2>7, ListStepKeeps
<1>9. CASE ListUnlinks(l)
  <2>1. ListIdle \in ListType /\ ListIdle.at = "idle" /\ ListIdle.code = NoCode
    BY DEF ListIdle, ListType, Codes
  <2>2. ListStep(l, ListIdle)
    BY <1>9, <2>1 DEF ListUnlinks, ListUnchanged, ListReturns, ListStep
  <2> QED
    BY <1>9, <1>1, <1>2, <2>1, <2>2, ListStepKeeps DEF ListUnlinks, NoCode
<1> QED
  BY <1>4, <1>5, <1>6, <1>7, <1>8, <1>9 DEF ListJobs

-----------------------------------------------------------------------------
(* kill_job and clear_completed *)

\* Killing and clearing keep the invariant.
LEMMA KillKeeps == JobInv /\ (KillBegins \/ KillWindow \/ KillUpdates \/ ClearCompleted) => JobInv'
<1> SUFFICES ASSUME JobInv, KillBegins \/ KillWindow \/ KillUpdates \/ ClearCompleted PROVE JobInv'
  OBVIOUS
<1> USE JobAssumption DEF JobInv, JobTypeOK, TruthInv, CodeInv, NameInv, KillInv, FailureIsReal, KilledIsAsked,
      Absent, ListIdle, NoCode, Codes, Final, Ran, Fail, Update, Completed, JobType, ListType, KillUnchanged, CloseWindow
<1>1. CASE KillBegins
  BY <1>1 DEF KillBegins
<1>2. CASE KillWindow
  BY <1>2 DEF KillWindow
<1>3. CASE KillUpdates
  BY <1>3 DEF KillUpdates
<1>4. CASE ClearCompleted
  BY <1>4 DEF ClearCompleted
<1> QED
  BY <1>1, <1>2, <1>3, <1>4

-----------------------------------------------------------------------------
(* The theorems *)

\* Every step keeps the invariant.
LEMMA JobKept == JobInv /\ [JobNext]_jobVars => JobInv'
<1> SUFFICES ASSUME JobInv, [JobNext]_jobVars PROVE JobInv'
  OBVIOUS
<1>1. CASE Launch \/ CreateWindowFails \/ LauncherDies
  BY <1>1, LaunchKeeps
<1>2. CASE (\E c \in Codes : CommandEnds(c)) \/ Wrapper
  BY <1>2, WrapperKeeps
<1>3. CASE WindowCloses \/ ServerDies \/ ServerReturns \/ Ages
  BY <1>3, WorldKeeps
<1>4. CASE \E l \in Listers : ListJobs(l)
  BY <1>4, ListKeeps
<1>5. CASE KillBegins \/ KillWindow \/ KillUpdates \/ ClearCompleted
  BY <1>5, KillKeeps
<1>6. CASE UNCHANGED jobVars
  BY <1>6 DEF jobVars, JobInv, JobTypeOK, TruthInv, CodeInv, NameInv, KillInv, FailureIsReal,
     KilledIsAsked
<1> QED
  BY <1>1, <1>2, <1>3, <1>4, <1>5, <1>6 DEF JobNext

\* The inductive invariant holds in every reachable state.
THEOREM JobAlways == JobSpec => []JobInv
  BY JobBegins, JobKept, PTL DEF JobSpec

\* Every variable has its type, only a finished job has an exit code, and no
\* script runs without its window.
THEOREM JobTypeCorrect == JobSpec => []JobTypeOK
<1>1. JobInv => JobTypeOK
  BY DEF JobInv
<1> QED
  BY <1>1, JobAlways, PTL

\* However many processes list the jobs while the wrapper, its `_complete' or
\* tmux die, a job recorded as failed did fail.
THEOREM NoInventedFailure == JobSpec => []FailureIsReal
<1>1. JobInv => FailureIsReal
  BY DEF JobInv
<1> QED
  BY <1>1, JobAlways, PTL

\* A job whose command runs is recorded as killed only after a kill_job.
THEOREM NoUnaskedKill == JobSpec => []KilledIsAsked
<1>1. JobInv => KilledIsAsked
  BY DEF JobInv
<1> QED
  BY <1>1, JobAlways, PTL

\* Both together: whatever processes read and write in between, the end that is
\* recorded for a job is not invented.
THEOREM TrueRecord == JobSpec => []RecordIsTrue
<1>1. FailureIsReal /\ KilledIsAsked => RecordIsTrue
  BY DEF RecordIsTrue
<1> QED
  BY <1>1, NoInventedFailure, NoUnaskedKill, PTL

-----------------------------------------------------------------------------
(* The hooks of an agent *)

\* A line of the event log, and what a hook-handler is.
LogLine == [runs : BOOLEAN, recent : BOOLEAN]
\* Every event that a hook stands for; what runs; what the file holds.
HookEvents == RunningEvents \cup RestEvents \cup {"none"}
HookType ==
  [at : {"idle", "read", "truncate", "write", "append", "rotate", "tmp", "replace", "budget"},
   event : HookEvents, skills : BOOLEAN, lines : Seq(LogLine)]
RecordType == [kind : {"missing", "empty", "json", "mixed"}, event : HookEvents, skills : BOOLEAN]

\* The types, without the bound on the log.
HookTyped ==
  /\ turn \in {"rest", "submitting", "turn", "ending"}
  /\ hook \in [Hooks -> HookType]
  /\ record \in RecordType
  /\ record.kind # "json" => record.event = "none" /\ ~record.skills
  /\ eventLog \in Seq(LogLine)
  /\ tmpLog \in [exists : BOOLEAN, lines : Seq(LogLine)]
  /\ pane \in {"prompt", "interrupted", "shell"}
  /\ shown \in {"waiting", "running", "busy_sleeping", "terminated", "error"}
  /\ hooksRun \in 0 .. MaxHooks

\* The hooks that run, and those of them that will shorten the log, or find
\* that another has.
Busy == {h \in Hooks : hook[h].at # "idle"}
Rotating == {h \in Hooks : hook[h].at \in {"rotate", "tmp"} \/ (hook[h].at = "replace" /\ tmpLog.exists)}

\* The log is longer than its limit only by lines whose hooks are about to
\* rotate it.
LogInv ==
  /\ IsFiniteSet(Busy) /\ Cardinality(Busy) <= hooksRun
  /\ Len(eventLog) <= RotateOver + Cardinality(Rotating)
  /\ \A h \in Hooks : Len(hook[h].lines) <= KeepLines
  /\ Len(tmpLog.lines) <= KeepLines

\* The events whose hooks Claude waits for, by what it does.
EventsOf ==
  [rest |-> {}, submitting |-> {"UserPromptSubmit", "UserPromptSubmitRejected"},
   turn |-> {"ToolUse", "Skill", "Sleep"}, ending |-> {"Stop", "StopFailure", "SessionEnd"}]

\* The hook of a prompt or of the end of a turn runs alone, so what it writes
\* to the record stays there; what the record says at rest is what the last
\* of them wrote, unless the turn was interrupted.
TurnInv ==
  /\ \A h \in Busy : hook[h].event \in EventsOf[turn]
  /\ turn # "turn" => \A h, g \in Busy : h = g
  /\ turn # "turn" => \A h \in Busy :
       /\ hook[h].at = "write" => record.kind = "empty"
       /\ hook[h].at \notin {"read", "truncate", "write"} =>
            record.kind = "json" /\ record.event = hook[h].event
  /\ turn = "rest" => \/ pane = "interrupted"
                      \/ record.kind # "json"
                      \/ record.event \in RestEvents

-----------------------------------------------------------------------------

\* The first state.
LEMMA HookInitInv == HookInit => HookTyped /\ LogInv /\ TurnInv
<1> SUFFICES ASSUME HookInit PROVE HookTyped /\ LogInv /\ TurnInv
  OBVIOUS
<1>1. IdleHook \in HookType
  BY DEF IdleHook, HookType, HookEvents
<1>2. HookTyped
  BY <1>1, HookAssumption DEF HookInit, HookTyped, RecordType, HookEvents, NoRecord, NoTmp
<1>3. Busy = {} /\ Rotating = {}
  BY DEF HookInit, Busy, Rotating, IdleHook
<1>4. LogInv
  BY <1>3, FS_EmptySet, HookAssumption DEF HookInit, LogInv, IdleHook, NoTmp
<1>5. TurnInv
  BY <1>3 DEF HookInit, TurnInv, NoRecord
<1> QED
  BY <1>2, <1>4, <1>5

\* Claude and the detector keep the types.
LEMMA ClaudeTyped ==
  ASSUME HookTyped, NEW h \in Hooks, NEW event \in HookEvents \ {"none"},
         NEW next \in {"submitting", "turn", "ending"}, RunHook(h, event, next),
         pane' \in {"prompt", "interrupted", "shell"}
  PROVE  HookTyped'
<1>1. [IdleHook EXCEPT !.at = "read", !.event = event] \in HookType
  <2>1. <<>> \in Seq(LogLine)
    OBVIOUS
  <2> QED
    BY <2>1 DEF IdleHook, HookType
<1>2. hook' \in [Hooks -> HookType]
  BY <1>1 DEF RunHook, HookTyped
<1>3. hooksRun' \in 0 .. MaxHooks
  BY HookAssumption DEF RunHook, HookTyped
<1> QED
  BY <1>2, <1>3 DEF RunHook, HookTyped

\* A step of a hook-handler keeps the types; what it reads of the log it keeps in part.
LEMMA StepTyped ==
  ASSUME HookTyped, NEW h \in Hooks, HookStep(h)
  PROVE  HookTyped'
<1> USE DEF ClaudeUnchanged
<1>0. hook[h] \in HookType /\ DOMAIN hook = Hooks
  BY DEF HookTyped
<1>1. CASE ReadSkills(h)
  <2>1. (record.skills \/ hook[h].event = "Skill") \in BOOLEAN
    BY Zenon
  <2>2. hook' \in [Hooks -> HookType]
    BY <1>0, <1>1, <2>1 DEF ReadSkills, HookTyped, HookType
  <2> QED
    BY <1>1, <2>2 DEF ReadSkills, HookTyped
<1>2. CASE TruncateRecord(h)
  <2>1. hook' \in [Hooks -> HookType]
    BY <1>0, <1>2 DEF TruncateRecord, HookGoto, HookTyped, HookType
  <2>2. record' \in RecordType /\ record'.event = "none" /\ ~record'.skills
    BY <1>2 DEF TruncateRecord, NoRecord, RecordType, HookEvents
  <2> QED
    BY <1>2, <2>1, <2>2 DEF TruncateRecord, HookTyped
<1>3. CASE WriteRecord(h)
  <2>1. hook' \in [Hooks -> HookType]
    BY <1>0, <1>3 DEF WriteRecord, HookGoto, HookTyped, HookType
  <2>2. [kind |-> "json", event |-> hook[h].event, skills |-> hook[h].skills] \in RecordType
    BY <1>0 DEF HookType, RecordType
  <2>3. [NoRecord EXCEPT !.kind = "mixed"] \in RecordType
    BY DEF NoRecord, RecordType, HookEvents
  <2>4. record' \in RecordType /\ (record'.kind # "json" => record'.event = "none" /\ ~record'.skills)
    BY <1>3, <2>2, <2>3 DEF WriteRecord, NoRecord
  <2> QED
    BY <1>3, <2>1, <2>4 DEF WriteRecord, HookTyped
<1>4. CASE AppendEvent(h)
  <2>1. hook' \in [Hooks -> HookType]
    BY <1>0, <1>4 DEF AppendEvent, HookGoto, HookTyped, HookType
  <2>2. [runs |-> hook[h].event \in RunningEvents, recent |-> TRUE] \in LogLine
    BY DEF LogLine
  <2>3. eventLog' \in Seq(LogLine)
    BY <1>4, <2>2 DEF AppendEvent, HookTyped
  <2> QED
    BY <1>4, <2>1, <2>3 DEF AppendEvent, HookTyped
<1>5. CASE RotateReads(h)
  <2>1. Len(eventLog) > KeepLines =>
          SubSeq(eventLog, Len(eventLog) - KeepLines + 1, Len(eventLog)) \in Seq(LogLine)
    BY HookAssumption, SubSeqProperties DEF HookTyped
  <2> DEFINE tail == SubSeq(eventLog, Len(eventLog) - KeepLines + 1, Len(eventLog))
  <2>2. Len(eventLog) > KeepLines => [hook[h] EXCEPT !.at = "tmp", !.lines = tail] \in HookType
    <3> HIDE DEF tail
    <3> QED
      BY <1>0, <2>1 DEF HookType, tail
  <2>3. [hook[h] EXCEPT !.at = "budget"] \in HookType
    BY <1>0 DEF HookType
  <2>4. Len(eventLog) \in Nat /\ KeepLines \in Nat
    BY HookAssumption DEF HookTyped
  <2>5. hook' \in [Hooks -> HookType]
    BY <1>5, <2>2, <2>3, <2>4 DEF RotateReads, HookTyped
  <2> QED
    BY <1>5, <2>5 DEF RotateReads, HookTyped
<1>6. CASE RotateWrites(h)
  <2>1. hook' \in [Hooks -> HookType]
    BY <1>0, <1>6 DEF RotateWrites, HookGoto, HookTyped, HookType
  <2>2. tmpLog' \in [exists : BOOLEAN, lines : Seq(LogLine)]
    BY <1>0, <1>6 DEF RotateWrites, HookType
  <2> QED
    BY <1>6, <2>1, <2>2 DEF RotateWrites, HookTyped
<1>7. CASE RotateReplaces(h)
  <2>0. <<>> \in Seq(LogLine)
    OBVIOUS
  <2>1. hook' \in [Hooks -> HookType]
    <3>1. [hook[h] EXCEPT !.at = "budget", !.lines = <<>>] \in HookType
      BY <1>0, <2>0 DEF HookType
    <3> QED
      BY <1>7, <3>1 DEF RotateReplaces, HookTyped
  <2>2. tmpLog' \in [exists : BOOLEAN, lines : Seq(LogLine)]
    BY <1>7 DEF RotateReplaces, NoTmp
  <2>3. eventLog' \in Seq(LogLine)
    BY <1>7 DEF RotateReplaces, HookTyped
  <2> QED
    BY <1>7, <2>1, <2>2, <2>3 DEF RotateReplaces, HookTyped
<1>8. CASE CheckBudget(h)
  <2>0. <<>> \in Seq(LogLine)
    OBVIOUS
  <2>1. /\ IdleHook \in HookType
        /\ [IdleHook EXCEPT !.at = "read", !.event = "UserPromptSubmitRejected"] \in HookType
    BY <2>0 DEF IdleHook, HookType, HookEvents, RestEvents
  <2>2. hook' \in [Hooks -> HookType]
    BY <1>8, <2>1 DEF CheckBudget, HookEnds, HookTyped
  <2>3. turn' \in {"rest", "submitting", "turn", "ending"}
    BY <1>8 DEF CheckBudget, HookEnds, HookTyped
  <2> QED
    BY <1>8, <2>2, <2>3 DEF CheckBudget, HookTyped
<1> QED
  BY <1>1, <1>2, <1>3, <1>4, <1>5, <1>6, <1>7, <1>8 DEF HookStep

\* So does what happens besides: lines grow old, the detector looks, a turn is interrupted.
LEMMA DetectorTyped ==
  ASSUME HookTyped, LogAges \/ DetectHook \/ Interrupt \/ BudgetChanges \/ UNCHANGED hookVars
  PROVE  HookTyped'
<1>1. CASE LogAges
  <2>1. eventLog' \in Seq(LogLine)
    <3>1. \A i \in 1 .. Len(eventLog) : [eventLog[i] EXCEPT !.recent = FALSE] \in LogLine
      <4> SUFFICES ASSUME NEW i \in 1 .. Len(eventLog) PROVE [eventLog[i] EXCEPT !.recent = FALSE] \in LogLine
        OBVIOUS
      <4>1. eventLog[i] \in LogLine
        BY DEF HookTyped
      <4> QED
        BY <4>1 DEF LogLine
    <3>2. Len(eventLog) \in Nat /\ eventLog' = [i \in 1 .. Len(eventLog) |-> [eventLog[i] EXCEPT !.recent = FALSE]]
      BY <1>1 DEF LogAges, HookTyped
    <3> QED
      BY <3>1, <3>2
  <2> QED
    BY <1>1, <2>1 DEF LogAges, HookTyped
<1>2. CASE DetectHook
  <2>1. shown' \in {"waiting", "running", "busy_sleeping", "terminated", "error"}
    BY <1>2 DEF DetectHook, StatusOfRecord
  <2> QED
    BY <1>2, <2>1 DEF DetectHook, HookTyped
<1>3. CASE Interrupt \/ BudgetChanges
  BY <1>3 DEF Interrupt, BudgetChanges, HookTyped
<1>4. CASE UNCHANGED hookVars
  BY <1>4 DEF hookVars, HookTyped
<1> QED
  BY <1>1, <1>2, <1>3, <1>4

\* Every step keeps the types.
LEMMA HookTypes == HookTyped /\ [HookNext]_hookVars => HookTyped'
<1> SUFFICES ASSUME HookTyped, [HookNext]_hookVars PROVE HookTyped'
  OBVIOUS
<1>1. ASSUME NEW h \in Hooks, SubmitPrompt(h) PROVE HookTyped'
  BY <1>1, ClaudeTyped DEF SubmitPrompt, HookEvents, RunningEvents
<1>2. ASSUME NEW h \in Hooks, NEW event \in {"ToolUse", "Skill", "Sleep"}, UseTool(h, event) PROVE HookTyped'
  BY <1>2, ClaudeTyped DEF UseTool, HookTyped, HookEvents, RunningEvents
<1>3. ASSUME NEW h \in Hooks, NEW event \in {"Stop", "StopFailure", "SessionEnd"}, EndTurn(h, event) PROVE HookTyped'
  BY <1>3, ClaudeTyped DEF EndTurn, HookEvents, RestEvents
<1> QED
  BY <1>1, <1>2, <1>3, StepTyped, DetectorTyped DEF HookNext

\* What a step of one hook leaves of those that run.
LEMMA BusyNow ==
  ASSUME HookTyped, LogInv, NEW h \in Hooks, HookStep(h)
  PROVE  Busy' \subseteq Busy /\ h \in Busy /\ IsFiniteSet(Busy') /\ Cardinality(Busy') <= hooksRun'
<1>1. h \in Busy
  BY DEF Busy, HookStep, ReadSkills, TruncateRecord, WriteRecord, HookGoto, AppendEvent, RotateReads,
         RotateWrites, RotateReplaces, CheckBudget
<1>2. \A g \in Hooks \ {h} : hook'[g] = hook[g]
  BY DEF HookTyped, HookStep, ReadSkills, TruncateRecord, WriteRecord, HookGoto, AppendEvent, RotateReads,
         RotateWrites, RotateReplaces, CheckBudget, HookEnds
<1>3. Busy' \subseteq Busy
  BY <1>1, <1>2 DEF Busy
<1>4. hooksRun' = hooksRun
  BY DEF HookStep, ReadSkills, TruncateRecord, WriteRecord, AppendEvent, RotateReads,
         RotateWrites, RotateReplaces, CheckBudget, ClaudeUnchanged
<1>5. IsFiniteSet(Busy') /\ Cardinality(Busy') <= Cardinality(Busy)
  BY <1>3, FS_Subset DEF LogInv
<1>6. Cardinality(Busy) \in Nat /\ Cardinality(Busy') \in Nat /\ hooksRun \in Nat
  BY <1>5, FS_CardinalityType, HookAssumption DEF LogInv, HookTyped
<1> QED
  BY <1>1, <1>3, <1>4, <1>5, <1>6 DEF LogInv

\* Fewer hooks are about to rotate than run.
LEMMA RotatingFinite ==
  ASSUME HookTyped, LogInv
  PROVE  IsFiniteSet(Rotating) /\ Cardinality(Rotating) \in 0 .. MaxHooks
<1>1. Rotating \subseteq Busy
  BY DEF Rotating, Busy
<1>2. IsFiniteSet(Rotating) /\ Cardinality(Rotating) <= Cardinality(Busy)
  BY <1>1, FS_Subset DEF LogInv
<1>3. Cardinality(Rotating) \in Nat /\ Cardinality(Busy) \in Nat
  BY <1>2, FS_CardinalityType DEF LogInv
<1>4. Cardinality(Busy) <= MaxHooks
  BY <1>3, HookAssumption DEF LogInv, HookTyped
<1> QED
  BY <1>2, <1>3, <1>4, HookAssumption

\* A step of a hook keeps the bound on the log: it adds a line as it joins
\* those that will rotate, and leaves them when the log is short again.
LEMMA LogStep ==
  ASSUME HookTyped, LogInv, HookTyped', NEW h \in Hooks, HookStep(h)
  PROVE  LogInv'
<1> DEFINE others == \A g \in Hooks \ {h} : hook'[g] = hook[g]
           short == /\ \A g \in Hooks : Len(hook'[g].lines) <= KeepLines
                    /\ Len(tmpLog'.lines) <= KeepLines
<1>0. /\ IsFiniteSet(Busy') /\ Cardinality(Busy') <= hooksRun' /\ Busy' \subseteq Busy
      /\ IsFiniteSet(Rotating) /\ Cardinality(Rotating) \in Nat
      /\ Len(eventLog) \in Nat /\ KeepLines \in Nat /\ RotateOver \in Nat /\ KeepLines <= RotateOver
      /\ DOMAIN hook = Hooks /\ Len(eventLog) <= RotateOver + Cardinality(Rotating)
  BY BusyNow, RotatingFinite, HookAssumption DEF HookTyped, LogInv
<1>1. IsFiniteSet(Rotating') /\ Cardinality(Rotating') \in Nat
  <2>1. Rotating' \subseteq Busy'
    BY DEF Rotating, Busy
  <2> QED
    BY <1>0, <2>1, FS_Subset, FS_CardinalityType
<1>2. ASSUME Rotating \subseteq Rotating' PROVE Cardinality(Rotating) <= Cardinality(Rotating')
  BY <1>1, <1>2, FS_Subset
<1>3. SUFFICES short /\ Len(eventLog') <= RotateOver + Cardinality(Rotating')
  BY <1>0 DEF LogInv
<1>4. \A g \in Hooks : Len(hook[g].lines) <= KeepLines
  BY DEF LogInv
<1>5. Len(tmpLog.lines) <= KeepLines
  BY DEF LogInv
<1>6. CASE ReadSkills(h) \/ TruncateRecord(h) \/ WriteRecord(h)
  <2>1. /\ UNCHANGED <<eventLog, tmpLog>> /\ others
        /\ hook'[h].at \in {"truncate", "write", "append"} /\ hook'[h].lines = hook[h].lines
        /\ hook[h].at \in {"read", "truncate", "write"}
    <3>1. CASE ReadSkills(h)
      BY <1>0, <3>1 DEF ReadSkills, HookTyped, HookType
    <3>2. CASE TruncateRecord(h)
      BY <1>0, <3>2 DEF TruncateRecord, HookGoto, HookTyped, HookType
    <3>3. CASE WriteRecord(h)
      BY <1>0, <3>3 DEF WriteRecord, HookGoto, HookTyped, HookType
    <3> QED
      BY <1>6, <3>1, <3>2, <3>3
  <2>2. Rotating' = Rotating
    BY <2>1 DEF Rotating
  <2> QED
    BY <1>0, <1>4, <1>5, <2>1, <2>2
<1>7. CASE AppendEvent(h)
  <2>1. /\ UNCHANGED tmpLog /\ others /\ hook'[h].lines = hook[h].lines
        /\ Len(eventLog') = Len(eventLog) + 1 /\ hook[h].at = "append"
        /\ hook'[h].at = IF Len(eventLog') > RotateOver THEN "rotate" ELSE "budget"
    BY <1>0, <1>7 DEF AppendEvent, HookGoto, HookTyped, HookType
  <2>2. short
    BY <1>4, <1>5, <2>1
  <2>3. CASE Len(eventLog') > RotateOver
    <3>1. Rotating' = Rotating \cup {h} /\ h \notin Rotating
      BY <2>1, <2>3 DEF Rotating
    <3>2. Cardinality(Rotating') = Cardinality(Rotating) + 1
      BY <1>0, <3>1, FS_AddElement
    <3> QED
      BY <1>0, <2>1, <2>2, <3>2
  <2>4. CASE Len(eventLog') <= RotateOver
    BY <1>0, <1>1, <2>1, <2>2, <2>4
  <2> QED
    BY <1>0, <2>1, <2>3, <2>4
<1>8. CASE RotateReads(h)
  <2> DEFINE tail == SubSeq(eventLog, Len(eventLog) - KeepLines + 1, Len(eventLog))
  <2>1. /\ UNCHANGED <<eventLog, tmpLog>> /\ others /\ hook[h].at = "rotate"
        /\ hook' = [hook EXCEPT ![h] = IF Len(eventLog) <= KeepLines THEN [hook[h] EXCEPT !.at = "budget"]
                                       ELSE [hook[h] EXCEPT !.at = "tmp", !.lines = tail]]
    BY <1>0, <1>8 DEF RotateReads, HookTyped
  <2>2. CASE Len(eventLog) <= KeepLines
    <3>1. hook'[h].lines = hook[h].lines
      BY <1>0, <2>1, <2>2 DEF HookTyped, HookType
    <3> QED
      BY <1>0, <1>1, <1>4, <1>5, <2>1, <2>2, <3>1
  <2>3. CASE Len(eventLog) > KeepLines
    <3>1. Len(tail) = KeepLines
      BY <1>0, <2>3 DEF HookTyped
    <3>2. hook'[h].lines = tail /\ hook'[h].at = "tmp"
      <4> HIDE DEF tail
      <4> QED
        BY <1>0, <2>1, <2>3 DEF HookTyped, HookType
    <3>3. Rotating' = Rotating
      BY <2>1, <3>2 DEF Rotating
    <3> HIDE DEF tail
    <3> QED
      BY <1>0, <1>4, <1>5, <2>1, <3>1, <3>2, <3>3
  <2> QED
    BY <1>0, <2>2, <2>3
<1>9. CASE RotateWrites(h)
  <2>1. /\ UNCHANGED eventLog /\ others /\ hook[h].at = "tmp" /\ hook'[h].at = "replace"
        /\ hook'[h].lines = hook[h].lines /\ tmpLog' = [exists |-> TRUE, lines |-> hook[h].lines]
    BY <1>0, <1>9 DEF RotateWrites, HookGoto, HookTyped, HookType
  <2>2. Rotating \subseteq Rotating'
    BY <2>1 DEF Rotating
  <2> QED
    BY <1>0, <1>1, <1>2, <1>4, <2>1, <2>2
<1>10. CASE RotateReplaces(h)
  <2>1. /\ others /\ hook[h].at = "replace" /\ hook'[h].at = "budget" /\ hook'[h].lines = <<>>
        /\ eventLog' = IF tmpLog.exists THEN tmpLog.lines ELSE eventLog
        /\ tmpLog' = NoTmp
    BY <1>0, <1>10 DEF RotateReplaces, HookTyped, HookType
  <2>2. short
    BY <1>0, <1>4, <2>1 DEF NoTmp
  <2>3. CASE tmpLog.exists
    BY <1>0, <1>1, <1>5, <2>1, <2>2, <2>3
  <2>4. CASE ~tmpLog.exists
    <3>1. Rotating' = Rotating
      BY <2>1, <2>4 DEF Rotating, NoTmp
    <3> QED
      BY <1>0, <2>1, <2>2, <2>4, <3>1
  <2> QED
    BY <2>3, <2>4
<1>11. CASE CheckBudget(h)
  <2>1. /\ UNCHANGED <<eventLog, tmpLog>> /\ others
        /\ hook'[h].at \in {"read", "idle"} /\ hook'[h].lines = <<>> /\ hook[h].at = "budget"
    <3>1. PICK new \in {IdleHook, [IdleHook EXCEPT !.at = "read", !.event = "UserPromptSubmitRejected"]} :
            hook' = [hook EXCEPT ![h] = new]
      BY <1>11 DEF CheckBudget, HookEnds
    <3>2. new.at \in {"read", "idle"} /\ new.lines = <<>>
      <4>1. CASE new = IdleHook
        BY <4>1 DEF IdleHook
      <4>2. CASE new = [IdleHook EXCEPT !.at = "read", !.event = "UserPromptSubmitRejected"]
        BY <4>2 DEF IdleHook
      <4> QED
        BY <3>1, <4>1, <4>2
    <3> QED
      BY <1>0, <1>11, <3>1, <3>2 DEF CheckBudget
  <2>2. Rotating' = Rotating
    BY <2>1 DEF Rotating
  <2> QED
    BY <1>0, <1>4, <1>5, <2>1, <2>2
<1> QED
  BY <1>6, <1>7, <1>8, <1>9, <1>10, <1>11 DEF HookStep

\* A hook that begins is one more that runs.
LEMMA LogBegins ==
  ASSUME HookTyped, LogInv, NEW h \in Hooks, NEW event, NEW next, RunHook(h, event, next)
  PROVE  LogInv'
<1>1. /\ hook[h].at = "idle" /\ hook'[h].at = "read" /\ hook'[h].lines = <<>>
      /\ \A g \in Hooks \ {h} : hook'[g] = hook[g]
      /\ hooksRun' = hooksRun + 1 /\ UNCHANGED <<eventLog, tmpLog>>
  BY DEF RunHook, HookTyped, HookType, IdleHook
<1>2. Busy' = Busy \cup {h} /\ h \notin Busy /\ Rotating' = Rotating
  BY <1>1 DEF Busy, Rotating
<1>3. IsFiniteSet(Busy') /\ Cardinality(Busy') = Cardinality(Busy) + 1
  BY <1>2, FS_AddElement DEF LogInv
<1>4. Cardinality(Busy) \in Nat /\ hooksRun \in Nat
  BY FS_CardinalityType, HookAssumption DEF LogInv, HookTyped
<1>5. Cardinality(Busy') <= hooksRun'
  BY <1>1, <1>3, <1>4 DEF LogInv
<1>6. Len(eventLog') <= RotateOver + Cardinality(Rotating')
  BY <1>1, <1>2 DEF LogInv
<1>7. \A g \in Hooks : Len(hook'[g].lines) <= KeepLines
  BY <1>1, HookAssumption DEF LogInv
<1> QED
  BY <1>1, <1>3, <1>5, <1>6, <1>7 DEF LogInv

\* A bound on the log holds, however many hooks rotate it at once.
LEMMA LogKept == HookTyped /\ LogInv /\ HookTyped' /\ [HookNext]_hookVars => LogInv'
<1> SUFFICES ASSUME HookTyped, LogInv, HookTyped', [HookNext]_hookVars PROVE LogInv'
  OBVIOUS
<1>1. ASSUME NEW h \in Hooks, SubmitPrompt(h) PROVE LogInv'
  BY <1>1, LogBegins DEF SubmitPrompt
<1>2. ASSUME NEW h \in Hooks, NEW event \in {"ToolUse", "Skill", "Sleep"}, UseTool(h, event) PROVE LogInv'
  BY <1>2, LogBegins DEF UseTool
<1>3. ASSUME NEW h \in Hooks, NEW event \in {"Stop", "StopFailure", "SessionEnd"}, EndTurn(h, event) PROVE LogInv'
  BY <1>3, LogBegins DEF EndTurn
<1>4. CASE LogAges
  <2>1. Busy' = Busy /\ Rotating' = Rotating /\ UNCHANGED <<hook, tmpLog, hooksRun>>
    BY <1>4 DEF LogAges, Busy, Rotating
  <2>2. Len(eventLog') = Len(eventLog)
    BY <1>4 DEF LogAges, HookTyped
  <2> QED
    BY <2>1, <2>2 DEF LogInv
<1>5. CASE DetectHook \/ Interrupt \/ BudgetChanges \/ UNCHANGED hookVars
  BY <1>5 DEF DetectHook, Interrupt, BudgetChanges, hookVars, LogInv, Busy, Rotating
<1> QED
  BY <1>1, <1>2, <1>3, <1>4, <1>5, LogStep DEF HookNext

\* Alone, a hook finds the record as it left it.
LEMMA TurnStep ==
  ASSUME HookTyped, TurnInv, NEW h \in Hooks, HookStep(h)
  PROVE  TurnInv'
<1> DEFINE others == \A g \in Hooks \ {h} : hook'[g] = hook[g]
           later == {"append", "rotate", "tmp", "replace", "budget"}
<1>0. /\ DOMAIN hook = Hooks /\ hook[h] \in HookType /\ h \in Busy
      /\ hook[h].event \in EventsOf[turn] /\ turn \in {"submitting", "turn", "ending"}
      /\ UNCHANGED pane
  <2>1. h \in Busy
    BY DEF Busy, HookStep, ReadSkills, TruncateRecord, WriteRecord, HookGoto, AppendEvent, RotateReads,
           RotateWrites, RotateReplaces, CheckBudget
  <2>2. UNCHANGED pane
    BY DEF HookStep, ReadSkills, TruncateRecord, WriteRecord, HookGoto, AppendEvent, RotateReads,
           RotateWrites, RotateReplaces, CheckBudget, ClaudeUnchanged
  <2>3. hook[h].event \in EventsOf[turn]
    BY <2>1 DEF TurnInv
  <2> QED
    BY <2>1, <2>2, <2>3 DEF HookTyped, EventsOf
<1>1. ASSUME UNCHANGED turn, others, hook'[h].at # "idle", hook'[h].event = hook[h].event,
             turn # "turn" /\ hook'[h].at = "write" => record'.kind = "empty",
             turn # "turn" /\ hook'[h].at \notin {"read", "truncate", "write"} =>
               record'.kind = "json" /\ record'.event = hook[h].event
      PROVE  TurnInv'
  <2>1. Busy' = Busy
    BY <1>0, <1>1 DEF Busy
  <2>2. \A g \in Busy : hook'[g].event \in EventsOf[turn]
    BY <1>0, <1>1 DEF TurnInv, Busy
  <2>3. turn # "turn" => \A g \in Busy : g = h
    BY <1>0 DEF TurnInv
  <2>4. turn # "turn" => \A g \in Busy :
          /\ hook'[g].at = "write" => record'.kind = "empty"
          /\ hook'[g].at \notin {"read", "truncate", "write"} =>
               record'.kind = "json" /\ record'.event = hook'[g].event
    BY <1>1, <2>3
  <2> QED
    BY <1>0, <1>1, <2>1, <2>2, <2>3, <2>4 DEF TurnInv
<1>2. turn # "turn" =>
        /\ hook[h].at = "write" => record.kind = "empty"
        /\ hook[h].at \notin {"read", "truncate", "write"} =>
             record.kind = "json" /\ record.event = hook[h].event
  BY <1>0 DEF TurnInv
<1>3. CASE ReadSkills(h) \/ RotateReads(h) \/ RotateReplaces(h)
  <2>1. ReadSkills(h) => hook'[h].at = "truncate" /\ hook'[h].event = hook[h].event
    BY <1>0 DEF ReadSkills, HookType
  <2>2. RotateReads(h) => /\ hook[h].at = "rotate" /\ hook'[h].event = hook[h].event
                          /\ hook'[h].at \in later
    <3> DEFINE tail == SubSeq(eventLog, Len(eventLog) - KeepLines + 1, Len(eventLog))
    <3>1. RotateReads(h) =>
            hook' = [hook EXCEPT ![h] = IF Len(eventLog) <= KeepLines THEN [hook[h] EXCEPT !.at = "budget"]
                                        ELSE [hook[h] EXCEPT !.at = "tmp", !.lines = tail]]
      BY DEF RotateReads
    <3> HIDE DEF tail
    <3>2. \A new \in {[hook[h] EXCEPT !.at = "budget"], [hook[h] EXCEPT !.at = "tmp", !.lines = tail]} :
            new.event = hook[h].event /\ new.at \in later
      BY <1>0 DEF HookType
    <3>3. RotateReads(h) => hook[h].at = "rotate"
      BY DEF RotateReads
    <3> QED
      BY <1>0, <3>1, <3>2, <3>3
  <2>3. RotateReplaces(h) => /\ hook[h].at = "replace" /\ hook'[h].event = hook[h].event
                             /\ hook'[h].at = "budget"
    BY <1>0 DEF RotateReplaces, HookType
  <2>4. UNCHANGED <<turn, record>> /\ others
    BY <1>0, <1>3 DEF ReadSkills, RotateReads, RotateReplaces
  <2> QED
    BY <1>0, <1>1, <1>2, <1>3, <2>1, <2>2, <2>3, <2>4
<1>4. CASE TruncateRecord(h)
  <2>1. /\ hook'[h].at = "write" /\ hook'[h].event = hook[h].event /\ others
        /\ UNCHANGED turn /\ record'.kind = "empty"
    BY <1>0, <1>4 DEF TruncateRecord, HookGoto, HookType, NoRecord
  <2> QED
    BY <1>0, <1>1, <2>1
<1>5. CASE WriteRecord(h)
  <2>1. /\ hook[h].at = "write" /\ hook'[h].at = "append" /\ hook'[h].event = hook[h].event /\ others
        /\ UNCHANGED turn
    BY <1>0, <1>5 DEF WriteRecord, HookGoto, HookType
  <2>2. turn # "turn" => record'.kind = "json" /\ record'.event = hook[h].event
    BY <1>2, <1>5, <2>1 DEF WriteRecord
  <2> QED
    BY <1>0, <1>1, <2>1, <2>2
<1>6. CASE AppendEvent(h) \/ RotateWrites(h)
  <2>1. \E to \in later : HookGoto(h, hook[h].at, to) /\ hook[h].at \in {"append", "tmp"}
    BY <1>6 DEF AppendEvent, RotateWrites, HookGoto
  <2>2. /\ hook[h].at \in later /\ hook'[h].at \in later /\ hook'[h].event = hook[h].event /\ others
    BY <1>0, <2>1 DEF HookGoto, HookType
  <2>3. UNCHANGED <<turn, record>>
    BY <1>6 DEF AppendEvent, RotateWrites
  <2> QED
    BY <1>0, <1>1, <1>2, <2>2, <2>3
<1>7. CASE CheckBudget(h)
  <2>1. UNCHANGED record /\ hook[h].at = "budget" /\ others
    BY <1>0, <1>7 DEF CheckBudget, HookEnds
  <2>2. CASE hook[h].event = "UserPromptSubmit" /\ exceeded
    <3>1. /\ UNCHANGED turn /\ hook'[h].at = "read" /\ hook'[h].event = "UserPromptSubmitRejected"
      BY <1>0, <1>7, <2>2 DEF CheckBudget, IdleHook
    <3>2. turn = "submitting"
      BY <1>0, <2>2 DEF EventsOf
    <3>3. Busy' = Busy
      BY <1>0, <2>1, <3>1 DEF Busy
    <3>4. \A g \in Busy : g = h
      BY <1>0, <3>2 DEF TurnInv
    <3> QED
      BY <3>1, <3>2, <3>3, <3>4 DEF TurnInv, EventsOf
  <2>3. CASE ~(hook[h].event = "UserPromptSubmit" /\ exceeded)
    <3>1. HookEnds(h, hook[h].event = "UserPromptSubmitRejected")
      BY <1>7, <2>3 DEF CheckBudget
    <3>2. hook'[h].at = "idle"
      BY <1>0, <3>1 DEF HookEnds, IdleHook
    <3>3. Busy' = Busy \ {h}
      BY <1>0, <2>1, <3>2 DEF Busy
    <3>4. CASE turn = "turn"
      <4>1. turn' = "turn"
        BY <3>1, <3>4 DEF HookEnds
      <4> QED
        BY <1>0, <2>1, <3>3, <3>4, <4>1 DEF TurnInv, Busy
    <3>5. CASE turn # "turn"
      <4>1. Busy' = {}
        BY <1>0, <3>3, <3>5 DEF TurnInv
      <4>2. record.kind = "json" /\ record.event = hook[h].event
        BY <1>2, <2>1, <3>5
      <4>3. turn' = "rest" => hook[h].event \in RestEvents
        BY <1>0, <3>1, <3>5 DEF HookEnds, EventsOf, RestEvents
      <4> QED
        BY <2>1, <4>1, <4>2, <4>3 DEF TurnInv
    <3> QED
      BY <3>4, <3>5
  <2> QED
    BY <2>2, <2>3
<1> QED
  BY <1>3, <1>4, <1>5, <1>6, <1>7 DEF HookStep

\* A hook that begins is one of those Claude waits for, and alone unless it is
\* of a tool.
LEMMA TurnBegins ==
  ASSUME HookTyped, TurnInv, NEW h \in Hooks, NEW next \in {"submitting", "turn", "ending"},
         NEW event \in EventsOf[next], RunHook(h, event, next),
         QuietHooks \/ (next = "turn" /\ turn = "turn")
  PROVE  TurnInv'
<1>1. /\ hook[h].at = "idle" /\ hook'[h].at = "read" /\ hook'[h].event = event
      /\ \A g \in Hooks \ {h} : hook'[g] = hook[g]
      /\ turn' = next
  BY DEF RunHook, HookTyped, HookType, IdleHook
<1>2. Busy' = Busy \cup {h}
  BY <1>1 DEF Busy
<1>3. CASE QuietHooks
  <2>1. Busy' = {h}
    BY <1>2, <1>3 DEF QuietHooks, Busy
  <2> QED
    BY <1>1, <2>1 DEF TurnInv
<1>4. CASE next = "turn" /\ turn = "turn"
  BY <1>1, <1>2, <1>4 DEF TurnInv, Busy
<1> QED
  BY <1>3, <1>4

\* Every step keeps what a hook that runs alone wrote.
LEMMA TurnKept == HookTyped /\ TurnInv /\ [HookNext]_hookVars => TurnInv'
<1> SUFFICES ASSUME HookTyped, TurnInv, [HookNext]_hookVars PROVE TurnInv'
  OBVIOUS
<1>1. ASSUME NEW h \in Hooks, SubmitPrompt(h) PROVE TurnInv'
  <2>1. "UserPromptSubmit" \in EventsOf["submitting"]
    BY DEF EventsOf
  <2> QED
    BY <1>1, <2>1, TurnBegins DEF SubmitPrompt
<1>2. ASSUME NEW h \in Hooks, NEW event \in {"ToolUse", "Skill", "Sleep"}, UseTool(h, event) PROVE TurnInv'
  <2>1. event \in EventsOf["turn"]
    BY DEF EventsOf
  <2> QED
    BY <1>2, <2>1, TurnBegins DEF UseTool
<1>3. ASSUME NEW h \in Hooks, NEW event \in {"Stop", "StopFailure", "SessionEnd"}, EndTurn(h, event) PROVE TurnInv'
  <2>1. event \in EventsOf["ending"]
    BY DEF EventsOf
  <2> QED
    BY <1>3, <2>1, TurnBegins DEF EndTurn
<1>4. CASE Interrupt
  <2>1. Busy' = {}
    BY <1>4 DEF Interrupt, QuietHooks, Busy
  <2> QED
    BY <1>4, <2>1 DEF Interrupt, TurnInv
<1>5. CASE DetectHook \/ LogAges \/ BudgetChanges \/ UNCHANGED hookVars
  <2>1. UNCHANGED <<turn, hook, record, pane>>
    BY <1>5 DEF DetectHook, LogAges, BudgetChanges, hookVars
  <2>2. Busy' = Busy
    BY <2>1 DEF Busy
  <2> QED
    BY <2>1, <2>2 DEF TurnInv
<1> QED
  BY <1>1, <1>2, <1>3, <1>4, <1>5, TurnStep DEF HookNext

\* Every state.
LEMMA HookInvariance == HookSpec => [](HookTyped /\ LogInv /\ TurnInv)
<1>1. HookTyped /\ LogInv /\ TurnInv /\ [HookNext]_hookVars => (HookTyped /\ LogInv /\ TurnInv)'
  BY HookTypes, LogKept, TurnKept
<1> QED
  BY <1>1, HookInitInv, PTL DEF HookSpec

\* Every variable of the hooks keeps its type, for any number of hooks and any limits of
\* the log: the log stays within its limit but for the hooks that are about to rotate it.
THEOREM HookTypeCorrect == HookSpec => []HookTypeOK
<1>1. HookTyped /\ LogInv => HookTypeOK
  <2> SUFFICES ASSUME HookTyped, LogInv PROVE HookTypeOK
    OBVIOUS
  <2>1. Cardinality(Rotating) \in 0 .. MaxHooks
    BY RotatingFinite
  <2>2. Len(eventLog) <= RotateOver + MaxHooks
    BY <2>1, HookAssumption DEF LogInv, HookTyped
  <2>3. \A h \in Hooks : hook[h].event \in RunningEvents \cup RestEvents \cup {"none"}
    BY DEF HookTyped, HookType, HookEvents
  <2> QED
    BY <2>2, <2>3 DEF HookTyped, HookTypeOK, RecordType
<1> QED
  BY <1>1, HookInvariance, PTL

\* When Claude rests, what the hooks left in the state file reads as "running" only for a
\* Stop that came a moment ago, in whatever order the hooks of a turn's tools wrote and
\* rotated, for any number of hooks (hook_handler and HookStatusDetector.detect_status).
THEOREM RestRecorded == HookSpec => []RestIsRecorded
<1>1. HookTyped /\ TurnInv => RestIsRecorded
  BY DEF HookTyped, TurnInv, RestIsRecorded, StatusOfRecord, RunningEvents, RestEvents
<1> QED
  BY <1>1, HookInvariance, PTL

-----------------------------------------------------------------------------
(* All parts together *)

\* In the behaviours that TLC runs each part behaves as its own specification has it.
LEMMA PartsAreSpecified ==
  MCSpec => Spec /\ JobSpec /\ HookSpec /\ TuiSpec /\ ViewSpec /\ StallSpec /\ BottomSpec
<1> DEFINE all == <<part, vars, jobVars, hookVars, tuiVars, viewVars, stallVars, bottomVars>>
<1>1. MCInit => Init /\ JobInit /\ HookInit /\ TuiInit /\ ViewInit /\ StallInit /\ BottomInit
  BY DEF MCInit
<1>2. [MCNext]_all =>
        /\ [Next]_vars /\ [JobNext]_jobVars /\ [HookNext]_hookVars /\ [TuiNext]_tuiVars
        /\ [ViewNext]_viewVars /\ [StallNext]_stallVars /\ [BottomNext]_bottomVars
  BY DEF MCNext
<1> QED
  BY <1>1, <1>2, PTL DEF MCSpec, Spec, JobSpec, HookSpec, TuiSpec, ViewSpec, StallSpec, BottomSpec

\* Every variable of every part keeps its type, for any sets of processes, hooks, agents
\* and workers and any bounds.
THEOREM TypesCorrect == MCSpec => []TypesOK
  BY PartsAreSpecified, FileTypeCorrect, JobTypeCorrect, HookTypeCorrect, TuiTypeCorrect,
     ViewTypeCorrect, StallTypeCorrect, PTL DEF TypesOK

\* What a run shows of jobs, dialogs and panes, of keys and notifications, on small sets
\* holds in all of them.
THEOREM FrontIsSafe ==
  MCSpec => /\ [](RecordIsTrue /\ DialogsLeaveNoTrace /\ FocusIsShown /\ RestIsRecorded)
            /\ KilledOnSecondPress /\ NoNagging
  BY PartsAreSpecified, TrueRecord, NoTraceLeft, FocusKept, RestRecorded, KilledOnlyAsked, NobodyNags, PTL
=============================================================================
