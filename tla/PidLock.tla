------------------------------- MODULE PidLock -------------------------------
(***************************************************************************)
(* The singleton protocol of the monitor and the supervisor daemon: a lock *)
(* file that is flocked for the daemon's life, a .pid file beside it, the  *)
(* probes and `stop' commands of other processes.  A process is named by   *)
(* its pid; a pid whose process died may be taken by a stranger.           *)
(***************************************************************************)
EXTENDS Integers, FiniteSets

CONSTANTS
  Pids,       \* pids of daemons, reused by strangers
  Probers,    \* processes that call is_daemon_lock_held
  Stoppers,   \* processes that call stop_process
  Nobody,     \* the lock is free
  NoFile,     \* there is no .pid file
  Blank,      \* the .pid file is truncated and not yet written
  MaxStrangers \* bound on the pids that are reused

ASSUME PidLockAssumption ==
  /\ Nobody \notin Pids \cup Probers
  /\ NoFile \notin Pids
  /\ Blank \notin Pids
  /\ NoFile # Blank
  /\ Pids \cap Probers = {}
  /\ MaxStrangers \in Nat

VARIABLES
  pc,        \* pc[p]: what the process with pid p is doing
  lock,      \* who has the flock on the .lock file
  pidfile,   \* content of the .pid file
  stop,      \* stop[s]: where stop_process is
  target,    \* target[s]: the pid it read
  swept,     \* history: stop_process has removed the file since it was written
  strangers  \* how many pids were reused

vars == <<pc, lock, pidfile, stop, target, swept, strangers>>

Alive(p) == pc[p] # "free"

\* The daemons that acquire_daemon_lock let through.
Running == {p \in Pids : pc[p] \in {"running", "exit"}}

Init ==
  /\ pc = [p \in Pids |-> "free"]
  /\ lock = Nobody
  /\ pidfile = NoFile
  /\ stop = [s \in Stoppers |-> "idle"]
  /\ target = [s \in Stoppers |-> Blank]
  /\ swept = FALSE
  /\ strangers = 0

-----------------------------------------------------------------------------
(* acquire_daemon_lock, run and exit of a daemon *)

Goto(p, to) == pc' = [pc EXCEPT ![p] = to]

\* The process with pid p ends; the system drops its flock.
Ends(p) ==
  /\ pc' = [pc EXCEPT ![p] = "free"]
  /\ lock' = IF lock = p THEN Nobody ELSE lock

\* spawn_daemon
Start(p) ==
  /\ pc[p] = "free"
  /\ Goto(p, "open")
  /\ UNCHANGED <<lock, pidfile, stop, target, swept, strangers>>

\* Mutant: the lock is taken in shared mode.
TryLockShared(p) ==
  /\ pc[p] = "open"
  /\ lock' = p
  /\ Goto(p, "check")
  /\ UNCHANGED <<pidfile, stop, target, swept, strangers>>

\* flock(LOCK_EX | LOCK_NB)
TryLock(p) ==
  /\ pc[p] = "open"
  /\ lock = Nobody
  /\ lock' = p
  /\ Goto(p, "check")
  /\ UNCHANGED <<pidfile, stop, target, swept, strangers>>

\* Mutant: a refused start removes the .pid file on its way out.
LockBusyCleans(p) ==
  /\ pc[p] = "open"
  /\ lock # Nobody
  /\ pidfile' = NoFile
  /\ Ends(p)
  /\ UNCHANGED <<stop, target, swept, strangers>>

\* The lock is taken: report the pid in the file, which is not looked at twice.
LockBusy(p) ==
  /\ pc[p] = "open"
  /\ lock # Nobody
  /\ Ends(p)
  /\ UNCHANGED <<pidfile, stop, target, swept, strangers>>

\* The lock is ours but the .pid file names a live process.
PidAlive(p) ==
  /\ pc[p] = "check"
  /\ pidfile \in Pids /\ Alive(pidfile)
  /\ Ends(p)
  /\ UNCHANGED <<pidfile, stop, target, swept, strangers>>

\* write_text truncates ...
TruncatePid(p) ==
  /\ pc[p] = "check"
  /\ pidfile \in Pids => ~Alive(pidfile)
  /\ pidfile' = Blank
  /\ swept' = FALSE
  /\ Goto(p, "write")
  /\ UNCHANGED <<lock, stop, target, strangers>>

\* ... and writes, into nowhere if the file was removed in between.
WritePid(p) ==
  /\ pc[p] = "write"
  /\ pidfile' = IF pidfile = Blank THEN p ELSE pidfile
  /\ Goto(p, "running")
  /\ UNCHANGED <<lock, stop, target, swept, strangers>>

\* The finally of run(): a SIGTERM or an error ends the loop, the file goes.
Shutdown(p) ==
  /\ pc[p] = "running"
  /\ pidfile' = NoFile
  /\ Goto(p, "exit")
  /\ UNCHANGED <<lock, stop, target, swept, strangers>>

\* The daemon exits, or dies anywhere: the system closes the lock file.
Exit(p) ==
  /\ pc[p] \notin {"free", "stranger"}
  /\ Ends(p)
  /\ UNCHANGED <<pidfile, stop, target, swept, strangers>>

-----------------------------------------------------------------------------
(* The other processes *)

\* The pid is taken by another program, which ends at some time.
Reuse(p) ==
  /\ pc[p] = "free"
  /\ strangers < MaxStrangers
  /\ strangers' = strangers + 1
  /\ Goto(p, "stranger")
  /\ UNCHANGED <<lock, pidfile, stop, target, swept>>

StrangerEnds(p) ==
  /\ pc[p] = "stranger"
  /\ Ends(p)
  /\ UNCHANGED <<pidfile, stop, target, swept, strangers>>

\* is_daemon_lock_held takes the lock itself for a moment.
ProbeTakes(u) ==
  /\ lock = Nobody
  /\ lock' = u
  /\ UNCHANGED <<pc, pidfile, stop, target, swept, strangers>>

ProbeReleases(u) ==
  /\ lock = u
  /\ lock' = Nobody
  /\ UNCHANGED <<pc, pidfile, stop, target, swept, strangers>>

\* stop_process reads the .pid file; a blank one is removed.
StopRead(s) ==
  /\ stop[s] = "idle"
  /\ pidfile # NoFile
  /\ stop' = [stop EXCEPT ![s] = IF pidfile = Blank THEN "remove" ELSE "signal"]
  /\ target' = [target EXCEPT ![s] = pidfile]
  /\ UNCHANGED <<pc, lock, pidfile, swept, strangers>>

\* SIGTERM: a daemon in its loop may end it, a starting one dies, a stranger
\* does as it likes.
StopSignal(s) ==
  /\ stop[s] = "signal"
  /\ LET p == target[s] IN
     /\ stop' = [stop EXCEPT ![s] = IF Alive(p) THEN "poll" ELSE "remove"]
     /\ \/ pc[p] \in {"free", "stranger", "running", "exit"} /\ UNCHANGED <<pc, lock>>
        \/ pc[p] \in {"stranger", "open", "check", "write"} /\ Ends(p)
  /\ UNCHANGED <<pidfile, target, swept, strangers>>

StopSeesGone(s) ==
  /\ stop[s] = "poll"
  /\ ~Alive(target[s])
  /\ stop' = [stop EXCEPT ![s] = "remove"]
  /\ UNCHANGED <<pc, lock, pidfile, target, swept, strangers>>

\* The timeout: SIGKILL.
StopKill(s) ==
  /\ stop[s] = "poll"
  /\ Alive(target[s])
  /\ Ends(target[s])
  /\ stop' = [stop EXCEPT ![s] = "remove"]
  /\ UNCHANGED <<pidfile, target, swept, strangers>>

\* remove_pid_file, whatever the file names by now.
StopRemove(s) ==
  /\ stop[s] = "remove"
  /\ pidfile' = NoFile
  /\ swept' = TRUE
  /\ stop' = [stop EXCEPT ![s] = "idle"]
  /\ target' = [target EXCEPT ![s] = Blank]
  /\ UNCHANGED <<pc, lock, strangers>>

StopStep(s) ==
  StopSignal(s) \/ StopSeesGone(s) \/ StopKill(s) \/ StopRemove(s)

Daemon(p) ==
  \/ Start(p) \/ TryLock(p) \/ LockBusy(p) \/ PidAlive(p) \/ TruncatePid(p)
  \/ WritePid(p) \/ Shutdown(p) \/ Exit(p)

Next ==
  \/ \E p \in Pids : Daemon(p) \/ Reuse(p) \/ StrangerEnds(p)
  \/ \E u \in Probers : ProbeTakes(u) \/ ProbeReleases(u)
  \/ \E s \in Stoppers : StopRead(s) \/ StopStep(s)

Spec == Init /\ [][Next]_vars

FairSpec == Spec /\ \A s \in Stoppers : WF_vars(StopStep(s))

-----------------------------------------------------------------------------

States == {"free", "stranger", "open", "check", "write", "running", "exit"}

\* Every variable keeps its type.
TypeOK ==
  /\ pc \in [Pids -> States]
  /\ lock \in Pids \cup Probers \cup {Nobody}
  /\ pidfile \in Pids \cup {NoFile, Blank}
  /\ stop \in [Stoppers -> {"idle", "signal", "poll", "remove"}]
  /\ target \in [Stoppers -> Pids \cup {Blank}]
  /\ \A s \in Stoppers : stop[s] \in {"signal", "poll"} => target[s] \in Pids
  /\ swept \in BOOLEAN
  /\ strangers \in 0 .. MaxStrangers

\* Two daemons never run at once, whatever is stopped, probed, killed or
\* reused, and whoever deletes the .pid file.
OneDaemon == \A p, q \in Running : p = q

\* Whoever is past flock has the lock: what OneDaemon rests on.
HolderInside ==
  \A p \in Pids : pc[p] \in {"check", "write", "running", "exit"} => lock = p

\* The .pid file names the daemon from the moment it runs to its shutdown,
\* through crashes, refused starts and reused pids, unless stop_process has
\* removed the file since the daemon started to write it.
RunningIsSeen == \A p \in Pids : pc[p] = "running" /\ ~swept => pidfile = p

\* One daemon at most, and who looks for it in the .pid file finds it.
OneDaemonIsSeen == OneDaemon /\ RunningIsSeen

=============================================================================
