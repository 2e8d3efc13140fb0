---------------------------- MODULE DaemonProofs ----------------------------
(***************************************************************************)
(* Proofs about the processes behind the agents, for any number of daemons *)
(* and probes, of web servers and ports, of followers and listers, of runs *)
(* of `overcode tmux': at most one daemon runs and its .pid file names it, *)
(* the web server can be found and stopped, the supervisor runs one Claude *)
(* and counts it once, a child is called done for a reason, the split      *)
(* window is set up once.                                                  *)
(*                                                                         *)
(* The modules share no variable: each is proved of its own specification, *)
(* and the last theorems bring them together for the behaviours that TLC   *)
(* runs.                                                                   *)
(***************************************************************************)
EXTENDS MCDaemons, SumTheorems

-----------------------------------------------------------------------------
(* The lock of a daemon *)

\* The inductive invariant: types, and that whoever is past flock holds it.
PidInv == TypeOK /\ HolderInside

\* No process runs at first.
LEMMA PidInitInv == Init => PidInv
<1> SUFFICES ASSUME Init PROVE PidInv
  OBVIOUS
<1>1. swept \in BOOLEAN
  BY Zenon DEF Init
<1>2. strangers \in 0 .. MaxStrangers
  BY PidLockAssumption DEF Init
<1> QED
  BY <1>1, <1>2 DEF Init, PidInv, TypeOK, HolderInside, States

\* An end of p gives p's lock back and no one else's.
LEMMA PidEndsInv ==
  ASSUME PidInv, NEW p \in Pids, Ends(p)
  PROVE  /\ pc' \in [Pids -> States]
         /\ lock' \in Pids \cup Probers \cup {Nobody}
         /\ HolderInside'
  BY PidLockAssumption DEF PidInv, TypeOK, HolderInside, Ends, States

\* Every step keeps it.
LEMMA PidNextInv == PidInv /\ [Next]_vars => PidInv'
<1> SUFFICES ASSUME PidInv, [Next]_vars PROVE PidInv'
  OBVIOUS
<1> USE PidLockAssumption DEF PidInv
<1>1. ASSUME NEW p \in Pids, Start(p) PROVE PidInv'
  BY <1>1 DEF Start, Goto, TypeOK, HolderInside, States
<1>2. ASSUME NEW p \in Pids, TryLock(p) PROVE PidInv'
  BY <1>2 DEF TryLock, Goto, TypeOK, HolderInside, States
<1>3. ASSUME NEW p \in Pids, LockBusy(p) PROVE PidInv'
  BY <1>3, PidEndsInv DEF LockBusy, TypeOK
<1>4. ASSUME NEW p \in Pids, PidAlive(p) PROVE PidInv'
  BY <1>4, PidEndsInv DEF PidAlive, TypeOK
<1>5. ASSUME NEW p \in Pids, TruncatePid(p) PROVE PidInv'
  BY <1>5 DEF TruncatePid, Goto, TypeOK, HolderInside, States
<1>6. ASSUME NEW p \in Pids, WritePid(p) PROVE PidInv'
  BY <1>6 DEF WritePid, Goto, TypeOK, HolderInside, States
<1>7. ASSUME NEW p \in Pids, Shutdown(p) PROVE PidInv'
  BY <1>7 DEF Shutdown, Goto, TypeOK, HolderInside, States
<1>8. ASSUME NEW p \in Pids, Exit(p) PROVE PidInv'
  BY <1>8, PidEndsInv DEF Exit, TypeOK
<1>9. ASSUME NEW p \in Pids, Reuse(p) PROVE PidInv'
  BY <1>9 DEF Reuse, Goto, TypeOK, HolderInside, States
<1>10. ASSUME NEW p \in Pids, StrangerEnds(p) PROVE PidInv'
  BY <1>10, PidEndsInv DEF StrangerEnds, TypeOK
<1>11. ASSUME NEW u \in Probers, ProbeTakes(u) PROVE PidInv'
  BY <1>11 DEF ProbeTakes, TypeOK, HolderInside
<1>12. ASSUME NEW u \in Probers, ProbeReleases(u) PROVE PidInv'
  BY <1>12 DEF ProbeReleases, TypeOK, HolderInside
<1>14. ASSUME NEW s \in Stoppers, StopRead(s) PROVE PidInv'
  BY <1>14 DEF StopRead, TypeOK, HolderInside
<1>15. ASSUME NEW s \in Stoppers, StopSignal(s) PROVE PidInv'
  <2> DEFINE p == target[s]
  <2>1. p \in Pids
    BY <1>15 DEF StopSignal, TypeOK
  <2>2. /\ stop' \in [Stoppers -> {"idle", "signal", "poll", "remove"}]
        /\ \A r \in Stoppers : stop'[r] \in {"signal", "poll"} => target'[r] \in Pids
    BY <1>15, <2>1 DEF StopSignal, TypeOK
  <2>3. CASE Ends(p)
    BY <1>15, <2>1, <2>2, <2>3, PidEndsInv DEF StopSignal, TypeOK
  <2>4. CASE UNCHANGED <<pc, lock>>
    BY <1>15, <2>2, <2>4 DEF StopSignal, TypeOK, HolderInside
  <2> QED
    BY <1>15, <2>3, <2>4 DEF StopSignal
<1>16. ASSUME NEW s \in Stoppers, StopSeesGone(s) PROVE PidInv'
  BY <1>16 DEF StopSeesGone, TypeOK, HolderInside
<1>17. ASSUME NEW s \in Stoppers, StopKill(s) PROVE PidInv'
  <2>1. target[s] \in Pids
    BY <1>17 DEF StopKill, TypeOK
  <2>2. Ends(target[s])
    BY <1>17 DEF StopKill
  <2> QED
    BY <1>17, <2>1, <2>2, PidEndsInv DEF StopKill, TypeOK
<1>18. ASSUME NEW s \in Stoppers, StopRemove(s) PROVE PidInv'
  BY <1>18 DEF StopRemove, TypeOK, HolderInside
<1>19. CASE UNCHANGED vars
  BY <1>19 DEF vars, TypeOK, HolderInside
<1> QED
  BY <1>1, <1>2, <1>3, <1>4, <1>5, <1>6, <1>7, <1>8, <1>9, <1>10, <1>11, <1>12,
     <1>14, <1>15, <1>16, <1>17, <1>18, <1>19 DEF Next, Daemon, StopStep

\* Every state.
LEMMA PidAlways == Spec => []PidInv
  BY PidInitInv, PidNextInv, PTL DEF Spec

\* Types are kept by every step of every process.
THEOREM PidTypeCorrect == Spec => []TypeOK
  BY PidAlways, PTL DEF PidInv

\* Mutual exclusion of daemons under crashes, pid reuse, probes and stops.
THEOREM Singleton == Spec => []OneDaemon
<1>1. PidInv => OneDaemon
  BY DEF PidInv, HolderInside, OneDaemon, Running
<1> QED
  BY <1>1, PidAlways, PTL

\* Between truncate and write the file is blank unless it was removed.
Written == \A p \in Pids : pc[p] = "write" /\ ~swept => pidfile = Blank

Seen == RunningIsSeen /\ Written

\* A running daemon is visible in its .pid file until a stop removes the file.
THEOREM SeenUntilSwept == Spec => []RunningIsSeen
<1>2. PidInv /\ Seen /\ [Next]_vars => Seen'
  <2> SUFFICES ASSUME PidInv, Seen, [Next]_vars PROVE Seen'
    OBVIOUS
  <2> USE PidLockAssumption DEF PidInv, TypeOK, HolderInside, Seen, RunningIsSeen, Written
  <2>1. ASSUME NEW p \in Pids, Daemon(p) PROVE Seen'
    <3>1. CASE Start(p)
      BY <3>1 DEF Start, Goto
    <3>2. CASE TryLock(p)
      BY <3>2 DEF TryLock, Goto
    <3>3. CASE LockBusy(p) \/ PidAlive(p) \/ Exit(p)
      BY <3>3 DEF LockBusy, PidAlive, Exit, Ends
    <3>4. CASE TruncatePid(p)
      BY <3>4 DEF TruncatePid, Goto
    <3>5. CASE WritePid(p)
      BY <3>5 DEF WritePid, Goto
    <3>6. CASE Shutdown(p)
      BY <3>6 DEF Shutdown, Goto
    <3> QED
      BY <2>1, <3>1, <3>2, <3>3, <3>4, <3>5, <3>6 DEF Daemon
  <2>2. ASSUME NEW p \in Pids, Reuse(p) \/ StrangerEnds(p) PROVE Seen'
    BY <2>2 DEF Reuse, StrangerEnds, Goto, Ends
  <2>3. ASSUME NEW u \in Probers, ProbeTakes(u) \/ ProbeReleases(u) PROVE Seen'
    BY <2>3 DEF ProbeTakes, ProbeReleases
  <2>4. ASSUME NEW s \in Stoppers, StopRead(s) \/ StopSeesGone(s) PROVE Seen'
    BY <2>4 DEF StopRead, StopSeesGone
  <2>5. ASSUME NEW s \in Stoppers, StopSignal(s) \/ StopKill(s) PROVE Seen'
    <3>1. target[s] \in Pids
      BY <2>5 DEF StopSignal, StopKill
    <3>2. CASE Ends(target[s])
      BY <2>5, <3>1, <3>2 DEF StopSignal, StopKill, Ends
    <3>3. CASE UNCHANGED <<pc, lock>>
      BY <2>5, <3>3 DEF StopSignal, StopKill
    <3> QED
      BY <2>5, <3>2, <3>3 DEF StopSignal, StopKill
  <2>6. ASSUME NEW s \in Stoppers, StopRemove(s) PROVE Seen'
    BY <2>6 DEF StopRemove
  <2>7. CASE UNCHANGED vars
    BY <2>7 DEF vars
  <2> QED
    BY <2>1, <2>2, <2>3, <2>4, <2>5, <2>6, <2>7 DEF Next, StopStep
<1>3. Init => Seen
  BY DEF Init, Seen, RunningIsSeen, Written
<1>4. Seen => RunningIsSeen
  BY DEF Seen
<1> QED
  BY <1>2, <1>3, <1>4, PidAlways, PTL DEF Spec

\* At most one daemon runs, and its .pid file names it until a stop removes it.
THEOREM DaemonIsSeen == Spec => []OneDaemonIsSeen
BY Singleton, SeenUntilSwept, PTL DEF OneDaemonIsSeen

-----------------------------------------------------------------------------
(* The web server *)

\* What a web server goes through, and what a call of start or stop holds.
ServerStages == {"unborn", "starting", "named", "bare", "armed", "serving", "failing", "told", "dead"}
WebTyped ==
  /\ server \in [Servers -> ServerStages]
  /\ pidFile \in Servers \cup {NoServer}
  /\ call \in [at : {"idle", "find", "watch", "clean", "stop", "await", "remove", "unport"},
               whom : Servers \cup {NoServer}]

\* One process at most lives, and the files name it as soon as it has written them;
\* a stop finds it there, and it is gone when the stop removes the files.
WebNamed ==
  /\ \A q, r \in Servers : Lives(q) /\ Lives(r) => q = r
  /\ pidFile \in Servers => server[pidFile] \notin {"unborn", "starting"}
  /\ \A r \in Servers :
       /\ Lives(r) /\ server[r] # "starting" => pidFile = r
       /\ server[r] \in {"bare", "armed", "serving", "failing", "told"} => portFile = port[r]
       /\ server[r] = "told" => call.at = "await" /\ call.whom = r
       /\ server[r] = "starting" => call.at \notin {"stop", "await", "remove", "unport"}
       /\ call.at \in {"remove", "unport"} => ~Lives(r)
  /\ call.at = "await" => call.whom \in Servers /\ \A r \in Servers \ {call.whom} : ~Lives(r)

WebInv == WebTyped /\ (~lost => WebNamed)

\* Every step of a server, of a start, a stop or a crash keeps the types.
LEMMA WebTypes ==
  ASSUME WebTyped, WebNext
  PROVE  WebTyped'
<1> USE WebAssumption DEF WebTyped, fileVars
<1>1. ASSUME NEW r \in Servers, NEW s \in ServerStages, Becomes(r, s)
      PROVE  server' \in [Servers -> ServerStages]
  BY <1>1 DEF Becomes
<1>2. CASE Asks
  BY <1>2 DEF Asks, Idle
<1>3. CASE Spawns
  BY <1>1, <1>3 DEF Spawns, Idle, At, ServerStages
<1>4. CASE Watches \/ CleansStale \/ RemovesPid \/ RemovesPort
  BY <1>4 DEF Watches, CleansStale, RemovesPid, RemovesPort, Idle, At
<1>5. CASE SendsTerm
  BY <1>1, <1>5 DEF SendsTerm, WebServerRunning, Signalled, At, ServerStages
<1>6. CASE AwaitsEnd
  BY <1>6 DEF AwaitsEnd, At, ServerStages
<1>7. CASE OtherTakesPort
  BY <1>7 DEF OtherTakesPort, fileVars
<1>8. ASSUME NEW r \in Servers, ServerStep(r) \/ ServerCrashes(r) PROVE WebTyped'
  BY <1>1, <1>8 DEF ServerStep, ServerCrashes, WritesName, WritesPort, InstallsHandlers, Binds,
     RemovesBoth,
     fileVars, ServerStages
<1> QED
  BY <1>2, <1>3, <1>4, <1>5, <1>6, <1>7, <1>8 DEF WebNext, CallStep

\* As long as no start was given up on a server that was still to write its pid
\* (lost), every step leaves at most one server alive, named by the files.
LEMMA WebStep ==
  ASSUME WebTyped, WebNamed, WebNext, ~lost'
  PROVE  WebNamed'
<1> USE WebAssumption
<1>0. /\ server \in [Servers -> ServerStages] /\ pidFile \in Servers \cup {NoServer}
      /\ NoServer \notin Servers /\ call.whom \in Servers \cup {NoServer}
  BY DEF WebTyped
<1> DEFINE Calls == {"idle", "find", "watch", "clean"}
\* Steps of a call in which no process changes.
<1>1. ASSUME UNCHANGED <<server, port, fileVars>>, call'.at \in Calls, call.at \in Calls
      PROVE  WebNamed'
  BY <1>0, <1>1 DEF WebNamed, Lives, fileVars
<1>2. CASE Asks
  <2>1. CASE ~ WebServerRunning
    BY <1>1, <1>2, <2>1 DEF Asks, Idle
  <2>2. CASE WebServerRunning
    <3>1. /\ UNCHANGED <<server, port, pidFile, portFile>> /\ call'.at \in {"idle", "stop"} /\ call.at = "idle"
      BY <1>2, <2>2 DEF Asks, Idle, fileVars
    <3>2. \A r \in Servers : server[r] # "starting"
      BY <1>0, <2>2 DEF WebServerRunning, WebNamed, Lives
    <3> QED
      BY <1>0, <3>1, <3>2 DEF WebNamed, Lives
  <2> QED
    BY <2>1, <2>2
<1>3. CASE Spawns
  <2>1. CASE UNCHANGED <<server, port>> /\ call' = Idle
    BY <1>1, <1>3, <2>1 DEF Spawns, Idle
  <2>2. ASSUME NEW r \in Servers, server[r] = "unborn", Becomes(r, "starting"), At("watch"),
               \A q \in Servers : Lives(q) => server[q] = "told"
        PROVE  WebNamed'
    <3>1. call.at = "find" /\ UNCHANGED <<pidFile, portFile>>
      BY <1>3 DEF Spawns, fileVars
    <3>2. \A q \in Servers : ~ Lives(q)
      BY <2>2, <3>1 DEF WebNamed
    <3>3. call'.at = "watch"
      BY <2>2 DEF At, WebTyped
    <3>4. \A q \in Servers : server'[q] = (IF q = r THEN "starting" ELSE server[q])
      BY <1>0, <2>2 DEF Becomes
    <3> QED
      BY <1>0, <2>2, <3>1, <3>2, <3>3, <3>4 DEF WebNamed, Lives
  <2> QED
    BY <1>3, <2>1, <2>2 DEF Spawns
<1>4. CASE Watches
  BY <1>1, <1>4 DEF Watches, Idle
<1>5. CASE CleansStale
  <2>1. /\ ~WebServerRunning /\ UNCHANGED <<server, port>> /\ pidFile' = NoServer /\ call'.at = "idle"
        /\ call.at = "clean"
    BY <1>5 DEF CleansStale, Idle
  <2>2. \A r \in Servers : Lives(r) => server[r] = "starting"
    BY <1>0, <2>1 DEF WebServerRunning, WebNamed
  <2> QED
    BY <1>0, <2>1, <2>2 DEF WebNamed, Lives
<1>6. CASE SendsTerm
  <2>1. call.at = "stop" /\ UNCHANGED <<port, pidFile, portFile>> /\ \A r \in Servers : server[r] # "starting"
    BY <1>6 DEF SendsTerm, fileVars, WebNamed
  <2>2. CASE ~WebServerRunning
    <3>1. \A r \in Servers : ~ Lives(r)
      BY <1>0, <2>1, <2>2 DEF WebServerRunning, WebNamed
    <3>2. UNCHANGED server /\ call'.at = "remove"
      BY <1>6, <2>2 DEF SendsTerm, At, WebTyped
    <3> QED
      BY <1>0, <2>1, <3>1, <3>2 DEF WebNamed, Lives
  <2>3. CASE WebServerRunning
    <3>1. pidFile \in Servers /\ call'.at = "await" /\ call'.whom = pidFile
      BY <1>0, <1>6, <2>3 DEF SendsTerm, WebServerRunning
    <3>2. \A r \in Servers \ {pidFile} : ~ Lives(r) /\ server'[r] = server[r]
      BY <1>0, <1>6, <2>3, <3>1 DEF SendsTerm, Signalled, Becomes, WebServerRunning, WebNamed
    <3>3. server'[pidFile] \in {"told", "dead"}
          /\ (server'[pidFile] = "told" => server[pidFile] \in {"armed", "serving", "failing", "told"})
      BY <1>0, <1>6, <2>3, <3>1 DEF SendsTerm, Signalled, Becomes
    <3> QED
      BY <1>0, <2>1, <3>1, <3>2, <3>3 DEF WebNamed, Lives
  <2> QED
    BY <2>2, <2>3
<1>7. CASE AwaitsEnd
  <2>1. /\ call.at = "await" /\ call'.at = "remove" /\ call.whom \in Servers /\ UNCHANGED <<port, pidFile, portFile>>
        /\ server' = [server EXCEPT ![call.whom] = "dead"]
    BY <1>7 DEF AwaitsEnd, At, fileVars, WebNamed, WebTyped
  <2>2. \A r \in Servers \ {call.whom} : ~ Lives(r)
    BY <1>0, <2>1 DEF WebNamed
  <2>3. \A r \in Servers : server'[r] = (IF r = call.whom THEN "dead" ELSE server[r])
    BY <1>0, <2>1
  <2> QED
    BY <1>0, <2>1, <2>2, <2>3 DEF WebNamed, Lives
<1>8. CASE RemovesPid \/ RemovesPort
  <2>1. \A r \in Servers : ~ Lives(r)
    BY <1>8 DEF RemovesPid, RemovesPort, WebNamed
  <2>2. UNCHANGED <<server, port>> /\ pidFile' \in {pidFile, NoServer} /\ call'.at \in {"unport", "find", "idle"}
    BY <1>8 DEF RemovesPid, RemovesPort, At, Idle, WebTyped
  <2> QED
    BY <1>0, <2>1, <2>2 DEF WebNamed, Lives
<1>9. CASE OtherTakesPort
  BY <1>0, <1>9 DEF OtherTakesPort, fileVars, WebNamed, Lives
<1>10. ASSUME NEW r \in Servers, ServerStep(r) \/ ServerCrashes(r) PROVE WebNamed'
  <2>0. UNCHANGED <<port, call>> /\ Lives(r) /\ server[r] \in ServerStages
    BY <1>0, <1>10 DEF ServerStep, ServerCrashes, WritesName, WritesPort, InstallsHandlers, Binds,
       RemovesBoth, Lives
  <2>1. \A q \in Servers \ {r} : ~ Lives(q) /\ server'[q] = server[q]
    BY <1>0, <1>10, <2>0 DEF WebNamed, ServerStep, ServerCrashes, WritesName, WritesPort,
       InstallsHandlers, Binds,
       RemovesBoth, Becomes
  <2>2. CASE WritesName(r)
    <3>1. server[r] = "starting" /\ server'[r] = "named" /\ pidFile' = r
      BY <1>0, <2>2 DEF WritesName, Becomes
    <3> QED
      BY <1>0, <2>0, <2>1, <3>1 DEF WebNamed, Lives
  <2>3. CASE WritesPort(r)
    <3>1. server[r] = "named" /\ server'[r] = "bare" /\ portFile' = port[r] /\ pidFile' = pidFile
      BY <1>0, <2>3 DEF WritesPort, Becomes
    <3> QED
      BY <1>0, <2>0, <2>1, <3>1 DEF WebNamed, Lives
  <2>4. CASE InstallsHandlers(r) \/ Binds(r)
    <3>1. /\ server[r] \in {"bare", "armed"} /\ server'[r] \in {"armed", "failing", "serving"}
          /\ UNCHANGED <<pidFile, portFile>>
      BY <1>0, <2>4 DEF InstallsHandlers, Binds, Becomes, fileVars
    <3> QED
      BY <1>0, <2>0, <2>1, <3>1 DEF WebNamed, Lives
  <2>5. CASE RemovesBoth(r) \/ ServerCrashes(r)
    <3>1. server'[r] = "dead" /\ pidFile' \in {pidFile, NoServer}
      BY <1>0, <2>5 DEF RemovesBoth, ServerCrashes, Becomes, fileVars
    <3> QED
      BY <1>0, <2>0, <2>1, <3>1 DEF WebNamed, Lives
  <2> QED
    BY <1>10, <2>2, <2>3, <2>4, <2>5 DEF ServerStep
<1> QED
  BY <1>2, <1>3, <1>4, <1>5, <1>6, <1>7, <1>8, <1>9, <1>10 DEF WebNext, CallStep

\* Every state.
LEMMA WebKept == WebSpec => []WebInv
<1>1. WebInit => WebInv
  BY WebAssumption DEF WebInit, WebInv, WebTyped, WebNamed, Lives, Idle, ServerStages
<1>2. WebInv /\ [WebNext]_webVars => WebInv'
  <2>1. ASSUME WebInv, WebNext PROVE WebInv'
    <3>1. lost => lost'
      BY <2>1 DEF WebNext, CallStep, Asks, Spawns, Watches, CleansStale, SendsTerm, AwaitsEnd,
         RemovesPid,
         RemovesPort, OtherTakesPort, ServerStep, ServerCrashes, WritesName, WritesPort,
         InstallsHandlers, Binds,
         RemovesBoth
    <3> QED
      BY <2>1, <3>1, WebTypes, WebStep DEF WebInv
  <2>2. ASSUME WebInv, UNCHANGED webVars PROVE WebInv'
    BY <2>2 DEF WebInv, webVars, fileVars, WebTyped, WebNamed, Lives
  <2> QED
    BY <2>1, <2>2
<1> QED
  BY <1>1, <1>2, PTL DEF WebSpec

\* For any number of servers and ports: a web server that runs is the one that
\* web_server.pid names, and web_server.port names the port it has, whatever crashed,
\* was stopped half way through its start, or found its port taken.
THEOREM ServerFound == WebSpec => []ServerIsNamed
<1>1. WebInv => ServerIsNamed
  BY DEF WebInv, WebTyped, WebNamed, ServerIsNamed, Lives
<1> QED
  BY <1>1, WebKept, PTL

-----------------------------------------------------------------------------
(* The supervisor and its Claude *)

\* A daemon claude that has not finished may still use tokens.
Busy == claude \in {"booting", "prompt", "working"}

\* There is one window at most.  The loop launches only when none is left, and reads transcripts only
\* when no Claude works on.
SupLoop ==
  /\ windows \in {0, 1} /\ (windows = 0 => claude = "none")
  /\ phase = "read" /\ windows > 0 => mine
  /\ phase = "launch" => windows = 0
  /\ phase \in {"mark", "kill", "count", "sync"} => ~Busy

\* What statistics say of the first n runs, given the tokens of each.
Counts(st, tk, n) ==
  st \in [tokens : Nat, ids : SUBSET (1 .. n)] /\ st.tokens = SumOf(tk, st.ids)

\* A run that may still use tokens is in no statistics.
SupBooks ==
  /\ runs \in 0 .. MaxRuns /\ tokens \in [Runs -> Nat]
  /\ Counts(mem, tokens, runs) /\ (Busy => runs \notin mem.ids)
  /\ disk # Torn => Counts(disk, tokens, runs) /\ (Busy => runs \notin disk.ids)

\* Statistics that hold no run count no tokens.
LEMMA NothingCounted == \A tk, n : n \in Nat => Counts(NoStats, tk, n)
<1>1. \A tk : SumOf(tk, {}) = 0
  BY SumUnfolds, FS_EmptySet
<1> QED
  BY <1>1 DEF Counts, NoStats

\* Every step of the supervisor, of the monitor daemon, of the daemon Claude and of
\* its window keeps one window at most, the supervisor's own while it watches.
LEMMA SupLoopStep ==
  ASSUME SupLoop, SupNext
  PROVE  SupLoop'
<1> USE DEF SupLoop, Busy, NoWindow, windowVars, IsDaemonClaudeRunning
<1>1. CASE World
  BY <1>1 DEF World, NeedChanges, MonitorChanges, ClaudeBoots, ClaudeActs, ClaudeFinishes, WindowGoes,
     loopVars
<1>2. CASE SupStarts \/ SupShutdown
  BY <1>2 DEF SupStarts, SupShutdown, Quits
<1>3. CASE Connects \/ CleanupStale \/ Decides
  <2>1. CASE Connects
    BY <2>1 DEF Connects
  <2>2. CASE CleanupStale
    BY <2>2 DEF CleanupStale
  <2>3. CASE Decides
    BY <2>3 DEF Decides
  <2> QED
    BY <1>3, <2>1, <2>2, <2>3
<1>4. CASE CreatesWindow \/ PromptSeen \/ SendsPrompt \/ RecordsLaunch
  <2>1. CASE CreatesWindow
    BY <2>1 DEF CreatesWindow
  <2>2. CASE PromptSeen \/ SendsPrompt
    BY <2>2 DEF PromptSeen, SendsPrompt
  <2>3. CASE RecordsLaunch
    BY <2>3 DEF RecordsLaunch
  <2> QED
    BY <1>4, <2>1, <2>2, <2>3
<1>5. CASE Polls \/ Marks
  BY <1>5 DEF Polls, Marks, IsDaemonClaudeDone
<1>6. CASE KillsDaemonClaude
  BY <1>6 DEF KillsDaemonClaude
<1>7. CASE UpdatesCounts \/ SyncsTokens \/ GoesOnLate
  BY <1>7 DEF UpdatesCounts, SyncsTokens, GoesOnLate
<1>8. CASE SupFailures
  BY <1>8 DEF SupFailures, SupCrash, LaunchRefused, TypingFails, StartupTimesOut, SendFailsOrGone,
     WaitTimesOut, Quits
<1> QED
  BY <1>1, <1>2, <1>3, <1>4, <1>5, <1>6, <1>7, <1>8 DEF SupNext, SupSteps

\* Every step keeps both counts, in memory and on disk, equal to what the transcripts
\* read so far add up to: those it reads are of runs that are over.
LEMMA SupBooksStep ==
  ASSUME SupLoop, SupBooks, SupNext
  PROVE  SupBooks'
<1> USE SupervisorAssumption
<1>0. runs \in Nat /\ MaxRuns \in Nat /\ 1 .. runs \subseteq Runs
  BY DEF SupBooks, Runs
\* Steps that read no transcript, and leave the runs to do what they did.
<1>1. ASSUME UNCHANGED <<runs, tokens>>, Busy' => Busy,
             mem' = mem \/ (mem' = NoStats /\ ~Busy') \/ mem' = NoStats \/ (mem' = disk /\ disk # Torn),
             disk' \in {disk, mem, Torn}
      PROVE  SupBooks'
  <2>1. Counts(NoStats, tokens, runs) /\ NoStats.ids = {}
    BY <1>0, NothingCounted DEF NoStats
  <2>2. Counts(mem', tokens, runs) /\ (Busy => runs \notin mem'.ids)
    BY <1>1, <2>1 DEF SupBooks
  <2>3. disk' # Torn => Counts(disk', tokens, runs) /\ (Busy => runs \notin disk'.ids)
    BY <1>1 DEF SupBooks
  <2>4. Torn' = Torn
    BY DEF Torn
  <2> QED
    BY <1>1, <2>2, <2>3, <2>4 DEF SupBooks
<1>2. CASE ClaudeActs
  <2>1. /\ claude = "working" /\ tokens' = [tokens EXCEPT ![runs] = @ + 1]
        /\ UNCHANGED <<mem, disk, claude, runs>>
    BY <1>2 DEF ClaudeActs, statVars
  <2>2. tokens' \in [Runs -> Nat] /\ \A r \in 1 .. runs : r # runs => tokens'[r] = tokens[r]
    <3>1. tokens \in [Runs -> Nat]
      BY DEF SupBooks
    <3>2. CASE runs \in Runs
      <4>1. tokens[runs] + 1 \in Nat
        BY <3>1, <3>2
      <4> QED
        BY <1>0, <2>1, <3>1, <4>1
    <3>3. CASE runs \notin Runs
      BY <1>0, <2>1, <3>1, <3>3
    <3> QED
      BY <3>2, <3>3
  <2>3. ASSUME NEW st, Counts(st, tokens, runs), runs \notin st.ids PROVE Counts(st, tokens', runs)
    <3>1. st.ids \subseteq 1 .. runs
      BY <2>3 DEF Counts
    <3>2. IsFiniteSet(st.ids)
      BY <1>0, <3>1, FS_Interval, FS_Subset
    <3>3. \A r \in st.ids : tokens[r] \in Int /\ tokens[r] = tokens'[r]
      BY <1>0, <2>2, <2>3, <3>1 DEF SupBooks
    <3>4. SumOf(tokens, st.ids) = SumOf(tokens', st.ids)
      BY <3>2, <3>3, SumAgrees
    <3> QED
      BY <2>3, <3>4 DEF Counts
  <2>4. Torn' = Torn /\ Busy /\ Busy'
    BY <2>1 DEF Torn, Busy
  <2>5. Counts(mem, tokens', runs) /\ runs \notin mem.ids
    BY <2>3, <2>4 DEF SupBooks
  <2>6. disk # Torn => Counts(disk, tokens', runs) /\ runs \notin disk.ids
    BY <2>3, <2>4 DEF SupBooks
  <2> QED
    BY <2>1, <2>2, <2>4, <2>5, <2>6 DEF SupBooks
<1>3. CASE CreatesWindow
  <2>1. runs' = runs + 1 /\ runs < MaxRuns /\ UNCHANGED <<mem, disk, tokens>>
    BY <1>3 DEF CreatesWindow
  <2>2. ASSUME NEW st, Counts(st, tokens, runs) PROVE Counts(st, tokens, runs + 1) /\ runs + 1 \notin st.ids
    <3>1. 1 .. runs \subseteq 1 .. runs + 1 /\ runs + 1 \notin 1 .. runs
      BY <1>0
    <3> QED
      BY <2>2, <3>1 DEF Counts
  <2>3. Torn' = Torn
    BY DEF Torn
  <2>4. Counts(mem, tokens, runs + 1) /\ runs + 1 \notin mem.ids
    BY <2>2 DEF SupBooks
  <2>5. disk # Torn => Counts(disk, tokens, runs + 1) /\ runs + 1 \notin disk.ids
    BY <2>2 DEF SupBooks
  <2>6. runs + 1 \in 0 .. MaxRuns
    BY <1>0, <2>1
  <2> QED
    BY <2>1, <2>3, <2>4, <2>5, <2>6 DEF SupBooks
<1>4. CASE SyncsTokens
  <2> DEFINE new == SumOf(tokens, NewRuns)
  <2>1. /\ phase = "sync" /\ UNCHANGED <<claude, runs, tokens>>
        /\ mem' = IF new > 0 THEN [tokens |-> mem.tokens + new, ids |-> mem.ids \cup NewRuns] ELSE mem
        /\ disk' \in {disk, mem'}
    BY <1>4 DEF SyncsTokens, Synced, SumOf, windowVars
  <2>2. ~Busy /\ ~Busy'
    BY <2>1 DEF SupLoop, Busy
  <2>3. /\ mem.ids \subseteq 1 .. runs /\ NewRuns \subseteq 1 .. runs /\ mem.ids \cap NewRuns = {}
        /\ IsFiniteSet(1 .. runs)
    <3>1. mem.ids \in SUBSET (1 .. runs)
      BY DEF SupBooks, Counts
    <3>2. IsFiniteSet(1 .. runs)
      BY <1>0, FS_Interval
    <3> QED
      BY <3>1, <3>2 DEF NewRuns
  <2>4. IsFiniteSet(mem.ids) /\ IsFiniteSet(NewRuns)
    BY <2>3, FS_Subset
  <2>5. \A r \in mem.ids \cup NewRuns : tokens[r] \in Nat
    BY <1>0, <2>3 DEF SupBooks
  <2>6. SumOf(tokens, mem.ids \cup NewRuns) = SumOf(tokens, mem.ids) + new
    BY <2>3, <2>4, <2>5, SumUnion
  <2>7. new \in Nat
    BY <2>4, <2>5, SumType
  <2> HIDE DEF new
  <2>8. Counts(mem', tokens, runs)
    <3>1. Counts(mem, tokens, runs)
      BY DEF SupBooks
    <3>2. mem.ids \cup NewRuns \subseteq 1 .. runs
      BY <2>3
    <3> QED
      BY <2>1, <2>6, <2>7, <3>1, <3>2 DEF Counts
  <2>9. Torn' = Torn
    BY DEF Torn
  <2> QED
    BY <2>1, <2>2, <2>8, <2>9 DEF SupBooks
<1>5. CASE NeedChanges \/ MonitorChanges \/ ClaudeBoots \/ ClaudeFinishes \/ WindowGoes
  BY <1>1, <1>5 DEF NeedChanges, MonitorChanges, ClaudeBoots, ClaudeFinishes, WindowGoes, windowVars,
     statVars,
     NoWindow, Busy
<1>6. CASE SupStarts
  BY <1>1, <1>6 DEF SupStarts, windowVars, Busy
<1>7. CASE SupShutdown \/ Connects \/ CleanupStale \/ Decides \/ PromptSeen \/ SendsPrompt \/ RecordsLaunch
  BY <1>1, <1>7 DEF SupShutdown, Quits, Connects, CleanupStale, Decides, PromptSeen, SendsPrompt,
     RecordsLaunch,
     windowVars, statVars, NoWindow, Busy
<1>8. CASE Polls \/ Marks \/ KillsDaemonClaude \/ UpdatesCounts \/ GoesOnLate
  BY <1>1, <1>8 DEF Polls, Marks, KillsDaemonClaude, UpdatesCounts, GoesOnLate, windowVars, statVars,
     NoWindow, Busy
<1>9. CASE SupFailures
  BY <1>1, <1>9 DEF SupFailures, SupCrash, LaunchRefused, TypingFails, StartupTimesOut, SendFailsOrGone,
     WaitTimesOut, Quits, windowVars, statVars, NoWindow, Busy
<1> QED
  BY <1>2, <1>3, <1>4, <1>5, <1>6, <1>7, <1>8, <1>9 DEF SupNext, SupSteps, World

\* Every state.
LEMMA BooksKept == SupSpec => [](SupLoop /\ SupBooks)
<1>1. SupInit => SupLoop /\ SupBooks
  <2>1. SUFFICES ASSUME SupInit PROVE SupLoop /\ SupBooks
    OBVIOUS
  <2>2. Counts(NoStats, tokens, runs)
    BY <2>1, NothingCounted DEF SupInit
  <2>3. runs \in 0 .. MaxRuns /\ tokens \in [Runs -> Nat]
    BY <2>1, SupervisorAssumption DEF SupInit
  <2> QED
    BY <2>1, <2>2, <2>3 DEF SupInit, SupLoop, SupBooks, Busy
<1>2. SupLoop /\ SupBooks /\ [SupNext]_supVars => SupLoop' /\ SupBooks'
  <2>1. ASSUME SupLoop, SupBooks, UNCHANGED supVars PROVE SupLoop' /\ SupBooks'
    BY <2>1 DEF SupLoop, SupBooks, Busy, Torn, supVars, loopVars, windowVars, statVars
  <2> QED
    BY <2>1, SupLoopStep, SupBooksStep
<1> QED
  BY <1>1, <1>2, PTL DEF SupSpec

\* For any number of runs and any tokens: there is never a second daemon Claude, and
\* no token is counted twice or lost from a count, through timeouts, deaths of the
\* process, torn files and restarts.
THEOREM ClaudeCounted == SupSpec => []OneClaudeCountedOnce
<1>1. SupLoop /\ SupBooks => OneClaudeCountedOnce
  BY DEF SupLoop, SupBooks, Counts, OneClaudeCountedOnce, Adds, SumOf
<1> QED
  BY <1>1, BooksKept, PTL

-----------------------------------------------------------------------------
(* The end of a child's work *)

\* What a follower keeps is true of the child, if ex says that a deadline has passed.
FollowerTrue(v, ex) ==
  /\ v \in FollowStep
  /\ v.report \in Reported \cup {"none"}
  /\ v.at = "handle" => v.report # "none"
  /\ v.at = "refund" => v.report = "success"
  /\ v.at = "fail" => policy = "fail"
  /\ v.at = "mark2" => policy = "timeout"
  /\ v.deadline # "none" => policy = "timeout"
  /\ v.deadline = "past" => ex
  /\ v.at = "expire" => v.deadline = "past"
  /\ v.code = 0 => "success" \in Reported
  /\ v.code = 2 => policy = "timeout" /\ ex

\* A lister calls a child done, and refunds it, only after a report.
ListerTrue(v) == v \in ListStep /\ (v.next = "done" \/ v.done => Reported # {})

\* The daemon calls a child done only at a deadline that has passed.
DaemonTrue(v, ex) ==
  /\ v \in DaemonStep /\ v.next # "done"
  /\ v.at \in {"enforce", "due"} => policy = "timeout"
  /\ v.deadline = "past" => ex
  /\ v.at = "due" => v.deadline = "past"

\* A report that can be read was made under the child's name, and nothing is given back without one.
RecordTrue ==
  /\ status \in Statuses /\ deadline \in Deadlines /\ (deadline = "past" => expired)
  /\ file \in Reported \cup {"none", "torn"} /\ filed \subseteq Reports
  /\ inherited \in Reports \cup {"none"}
  /\ reporter \in [at : {"idle", "write"}, report : Reports \cup {"none"}]
  /\ reporter.at = "write" => reporter.report \in Reports
  /\ refunded => Reported # {}

\* Nobody is about to call a child done without a cause.
Causes ==
  /\ RecordTrue
  /\ DOMAIN follow = Followers /\ follow = [f \in Followers |-> follow[f]]
  /\ DOMAIN list = Listers /\ list = [l \in Listers |-> list[l]]
  /\ \A f \in Followers : FollowerTrue(follow[f], expired)
  /\ \A l \in Listers : ListerTrue(list[l])
  /\ DaemonTrue(daemon, expired)

\* The causes, and the event, of DoneHasACause.
HasCause == Reported # {} \/ (policy = "timeout" /\ expired) \/ policy = "fail"
BecomesDone == status # "done" /\ status' = "done"

\* Whatever one follower does, what it keeps stays true of the child; it says done
\* only with a cause, and gives budget back only for a report.
LEMMA FollowerStep ==
  ASSUME Causes, NEW f \in Followers, Follow(f) \/ FollowInterrupted(f) \/ OwnDeadlinePasses(f)
  PROVE  /\ \E v : follow' = [follow EXCEPT ![f] = v] /\ FollowerTrue(v, expired')
         /\ BecomesDone => HasCause
         /\ refunded' => refunded \/ Reported # {}
<1> DEFINE old == follow[f]
           Steps == {"idle", "watch", "stopped", "fail", "mark", "mark2", "poll", "handle", "refund", "expire", "ended"}
           Proved == /\ \E v : follow' = [follow EXCEPT ![f] = v] /\ FollowerTrue(v, expired')
                     /\ BecomesDone => HasCause
                     /\ refunded' => refunded \/ Reported # {}
<1>0. /\ FollowerTrue(old, expired) /\ old \in FollowStep /\ (expired => expired')
      /\ Report \in Reported \cup {"none"} /\ Reported \subseteq Reports
  <2>1. FollowerTrue(old, expired)
    BY DEF Causes
  <2>2. old \in FollowStep
    BY <2>1 DEF FollowerTrue
  <2>3. expired' = expired \/ expired' = TRUE
    BY DEF Follow, FollowInterrupted, OwnDeadlinePasses, FollowStart, FollowWatch, FollowStopped,
       FollowFails,
       FollowMarks, FollowMarksAgain, PollForReport, HandleReport, FollowRefunds, FollowExpires,
       FollowUnchanged
  <2>4. Report \in Reported \cup {"none"} /\ Reported \subseteq Reports
    BY DEF Causes, RecordTrue, Report, Reported, Reports
  <2> HIDE DEF old
  <2> QED
    BY <2>1, <2>2, <2>3, <2>4
<1>1. ASSUME NEW to \in Steps, FollowGoto(f, to),
             to = "handle" => old.report # "none", to = "refund" => old.report = "success",
             to = "fail" => policy = "fail", to = "mark2" => policy = "timeout", to = "expire" => old.deadline = "past"
      PROVE  \E v : follow' = [follow EXCEPT ![f] = v] /\ FollowerTrue(v, expired')
  <2> DEFINE v == [old EXCEPT !.at = to]
  <2>1. FollowerTrue(v, expired')
    BY <1>0, <1>1 DEF FollowerTrue, FollowStep
  <2>2. follow' = [follow EXCEPT ![f] = v]
    BY <1>1 DEF FollowGoto
  <2> HIDE DEF v
  <2> QED
    BY <2>1, <2>2
<1>2. ASSUME NEW code \in {-1, 0, 1, 2, 130}, FollowExits(f, code),
             code = 0 => "success" \in Reported, code = 2 => policy = "timeout" /\ expired
      PROVE  \E v : follow' = [follow EXCEPT ![f] = v] /\ FollowerTrue(v, expired')
  <2> DEFINE v == [at |-> "ended", report |-> "none", deadline |-> "none", code |-> code]
  <2>1. FollowerTrue(v, expired')
    BY <1>0, <1>2 DEF FollowerTrue, FollowStep, Deadlines
  <2>2. follow' = [follow EXCEPT ![f] = v]
    BY <1>2 DEF FollowExits
  <2> HIDE DEF v
  <2> QED
    BY <2>1, <2>2
<1>3. ASSUME NEW r \in {old.report, Report}, NEW d \in {old.deadline, "ahead", "past"}, NEW to \in Steps,
             to = "handle" => r # "none", to = "refund" => r = "success",
             to = "fail" => policy = "fail", to = "mark2" => policy = "timeout", to = "expire" => d = "past",
             d # old.deadline => policy = "timeout", d = "past" => expired',
             follow' = [follow EXCEPT ![f] = [old EXCEPT !.at = to, !.report = r, !.deadline = d]]
      PROVE  \E v : follow' = [follow EXCEPT ![f] = v] /\ FollowerTrue(v, expired')
  <2> DEFINE v == [old EXCEPT !.at = to, !.report = r, !.deadline = d]
  <2>1. FollowerTrue(v, expired')
    <3> HIDE DEF old
    <3>1. old.report \in Reported \cup {"none"} /\ r \in Reported \cup {"none"} /\ r \in Reports \cup {"none"} /\ d \in Deadlines
      BY <1>0, <1>3 DEF FollowerTrue, FollowStep, Deadlines
    <3>2. v \in FollowStep /\ v.at = to /\ v.report = r /\ v.deadline = d /\ v.code = old.code
      <4>1. old \in FollowStep /\ to \in Steps
        BY <1>0, <1>3
      <4>2. v \in FollowStep
        BY <3>1, <4>1 DEF FollowStep
      <4>3. v.at = to /\ v.report = r /\ v.deadline = d /\ v.code = old.code
        BY <4>1 DEF FollowStep
      <4> QED
        BY <4>2, <4>3
    <3>3. d # "none" => policy = "timeout"
      BY <1>0, <1>3 DEF FollowerTrue
    <3>4. (old.code = 0 => "success" \in Reported) /\ (old.code = 2 => policy = "timeout" /\ expired')
      BY <1>0 DEF FollowerTrue
    <3> HIDE DEF v
    <3> QED
      BY <1>3, <3>1, <3>2, <3>3, <3>4 DEF FollowerTrue
  <2> HIDE DEF v
  <2> QED
    BY <1>3, <2>1 DEF v
<1> HIDE DEF old
<1>4. CASE FollowStart(f) \/ FollowWatch(f) \/ FollowInterrupted(f)
  BY <1>1, <1>2, <1>4 DEF FollowStart, FollowWatch, FollowInterrupted, recordVars, BecomesDone
<1>5. CASE FollowStopped(f)
  <2> DEFINE to == IF Report # "none" THEN "handle" ELSE IF policy = "fail" THEN "fail" ELSE "mark"
  <2>1. [old EXCEPT !.report = Report, !.at = to] = [old EXCEPT !.at = to, !.report = Report, !.deadline = old.deadline]
    BY <1>0 DEF FollowStep
  <2>2. follow' = [follow EXCEPT ![f] = [old EXCEPT !.report = Report, !.at = to]] /\ UNCHANGED <<status, refunded>>
    BY <1>5 DEF FollowStopped, old, recordVars
  <2>3. /\ to \in Steps /\ (to = "handle" => Report # "none") /\ to # "refund" /\ (to = "fail" => policy = "fail")
        /\ to # "expire" /\ to # "mark2"
    OBVIOUS
  <2>4. old.deadline = "past" => expired'
    BY <1>0 DEF FollowerTrue
  <2> HIDE DEF to
  <2>5. follow' = [follow EXCEPT ![f] = [old EXCEPT !.at = to, !.report = Report, !.deadline = old.deadline]]
    BY <2>1, <2>2
  <2>6. \E v : follow' = [follow EXCEPT ![f] = v] /\ FollowerTrue(v, expired')
    BY <1>3, <2>3, <2>4, <2>5
  <2> QED
    BY <2>2, <2>6 DEF BecomesDone
<1>6. CASE FollowFails(f)
  BY <1>0, <1>2, <1>6 DEF FollowFails, BecomesDone, HasCause, FollowerTrue, old
<1>7. CASE FollowMarks(f)
  <2>1. ~ BecomesDone /\ UNCHANGED refunded
    BY <1>7 DEF FollowMarks, BecomesDone, SetStatus
  <2>2. CASE policy = "timeout" /\ FollowGoto(f, "mark2")
    BY <1>1, <2>1, <2>2
  <2>3. CASE follow' = [follow EXCEPT ![f] = [old EXCEPT !.at = "poll",
                                                        !.deadline = IF policy = "timeout" THEN "ahead" ELSE "none"]]
    <3> DEFINE d == IF policy = "timeout" THEN "ahead" ELSE "none"
    <3>1. d \in {old.deadline, "ahead"} /\ (d # old.deadline => policy = "timeout")
      BY <1>0 DEF FollowerTrue
    <3>2. [old EXCEPT !.at = "poll", !.deadline = d] = [old EXCEPT !.at = "poll", !.report = old.report, !.deadline = d]
      BY <1>0 DEF FollowStep
    <3>3. follow' = [follow EXCEPT ![f] = [old EXCEPT !.at = "poll", !.deadline = d]]
      BY <2>3
    <3>4. d # "past"
      OBVIOUS
    <3>5. d \in {old.deadline, "ahead", "past"}
      BY <3>1
    <3>6. follow' = [follow EXCEPT ![f] = [old EXCEPT !.at = "poll", !.report = old.report, !.deadline = d]]
      BY <3>2, <3>3
    <3> HIDE DEF d
    <3> QED
      BY <1>3, <2>1, <3>1, <3>4, <3>5, <3>6
  <2> QED
    BY <1>7, <2>2, <2>3 DEF FollowMarks, old
<1>8. CASE FollowMarksAgain(f)
  <2>1. ~ BecomesDone /\ UNCHANGED refunded
    BY <1>8 DEF FollowMarksAgain, BecomesDone, SetStatus
  <2>2. [old EXCEPT !.at = "poll", !.deadline = "ahead"] = [old EXCEPT !.at = "poll", !.report = old.report, !.deadline = "ahead"]
    BY <1>0 DEF FollowStep
  <2>3. follow' = [follow EXCEPT ![f] = [old EXCEPT !.at = "poll", !.deadline = "ahead"]] /\ policy = "timeout"
    BY <1>0, <1>8 DEF FollowMarksAgain, old, FollowerTrue
  <2> QED
    BY <1>3, <2>1, <2>2, <2>3
<1>9. CASE PollForReport(f)
  <2>1. ~ BecomesDone /\ UNCHANGED refunded
    BY <1>9 DEF PollForReport, BecomesDone, recordVars
  <2>2. CASE Report # "none" /\ follow' = [follow EXCEPT ![f] = [old EXCEPT !.at = "handle", !.report = Report]]
    <3>1. [old EXCEPT !.at = "handle", !.report = Report] = [old EXCEPT !.at = "handle", !.report = Report, !.deadline = old.deadline]
      BY <1>0 DEF FollowStep
    <3>2. old.deadline = "past" => expired'
      BY <1>0 DEF FollowerTrue
    <3> QED
      BY <1>3, <2>1, <2>2, <3>1, <3>2
  <2> QED
    BY <1>1, <1>2, <1>9, <2>1, <2>2 DEF PollForReport, old
<1>10. CASE HandleReport(f)
  BY <1>0, <1>1, <1>2, <1>10 DEF HandleReport, BecomesDone, HasCause, FollowerTrue, old
<1>11. CASE FollowRefunds(f)
  BY <1>0, <1>2, <1>11 DEF FollowRefunds, BecomesDone, FollowerTrue, old, recordVars
<1>12. CASE FollowExpires(f)
  BY <1>0, <1>2, <1>12 DEF FollowExpires, BecomesDone, HasCause, FollowerTrue, old
<1>13. CASE OwnDeadlinePasses(f)
  <2>1. [old EXCEPT !.deadline = "past"] = [old EXCEPT !.at = old.at, !.report = old.report, !.deadline = "past"]
    BY <1>0 DEF FollowStep
  <2>2. follow' = [follow EXCEPT ![f] = [old EXCEPT !.deadline = "past"]] /\ expired' /\ UNCHANGED <<status, refunded>>
        /\ old.deadline = "ahead"
    BY <1>13 DEF OwnDeadlinePasses, old, recordVars
  <2>3. old.at \in Steps
    BY <1>0 DEF FollowStep
  <2> QED
    BY <1>0, <1>3, <2>1, <2>2, <2>3 DEF FollowerTrue, BecomesDone
<1> QED
  BY <1>4, <1>5, <1>6, <1>7, <1>8, <1>9, <1>10, <1>11, <1>12, <1>13 DEF Follow

\* The same of one step of a call of list_sessions, which writes what it decided
\* from an older copy.
LEMMA ListerStep ==
  ASSUME Causes, NEW l \in Listers, ListSessions(l)
  PROVE  /\ \E v : list' = [list EXCEPT ![l] = v] /\ ListerTrue(v)
         /\ BecomesDone => HasCause
         /\ refunded' => refunded \/ Reported # {}
<1> DEFINE old == list[l]
           Places == {"idle", "first", "write", "second", "write2", "refund"}
<1>0. /\ ListerTrue(old) /\ old \in ListStep /\ status \in Statuses
      /\ Report # "none" => Reported # {}
  <2>1. ListerTrue(old)
    BY DEF Causes
  <2>2. Report # "none" => Reported # {}
    BY DEF Causes, RecordTrue, Report, Reported, Reports
  <2> HIDE DEF old
  <2> QED
    BY <2>1, <2>2 DEF ListerTrue, Causes, RecordTrue
<1>1. ASSUME NEW to \in Places, NEW s \in Statuses, NEW n \in Statuses, NEW d \in BOOLEAN,
             n = "done" \/ d => Reported # {},
             list' = [list EXCEPT ![l] = [old EXCEPT !.at = to, !.status = s, !.next = n, !.done = d]]
      PROVE  \E v : list' = [list EXCEPT ![l] = v] /\ ListerTrue(v)
  <2> DEFINE v == [old EXCEPT !.at = to, !.status = s, !.next = n, !.done = d]
  <2> HIDE DEF old
  <2>1. v \in ListStep
    BY <1>0 DEF ListStep
  <2>2. v.next = n /\ v.done = d
    BY <1>0 DEF ListStep
  <2> HIDE DEF v
  <2>3. ListerTrue(v)
    BY <1>1, <2>1, <2>2 DEF ListerTrue
  <2> QED
    BY <1>1, <2>3 DEF v
<1>2. ASSUME NEW to \in Places, ListGoto(l, to)
      PROVE  \E v : list' = [list EXCEPT ![l] = v] /\ ListerTrue(v)
  <2> DEFINE v == [old EXCEPT !.at = to]
  <2>1. ListerTrue(v)
    BY <1>0 DEF ListerTrue, ListStep
  <2>2. list' = [list EXCEPT ![l] = v]
    BY <1>2 DEF ListGoto
  <2> HIDE DEF v
  <2> QED
    BY <2>1, <2>2
<1>3. ASSUME NEW to \in Places, NEW s \in Statuses, s = "done" => Reported # {}, ListWill(l, to, s)
      PROVE  \E v : list' = [list EXCEPT ![l] = v] /\ ListerTrue(v)
  <2> DEFINE v == [old EXCEPT !.at = to, !.next = s]
  <2>1. ListerTrue(v)
    BY <1>0, <1>3 DEF ListerTrue, ListStep
  <2>2. list' = [list EXCEPT ![l] = v]
    BY <1>3 DEF ListWill
  <2> HIDE DEF v
  <2> QED
    BY <2>1, <2>2
<1>4. ASSUME NEW to \in Places, ListUpdates(l, to)
      PROVE  /\ \E v : list' = [list EXCEPT ![l] = v] /\ ListerTrue(v)
             /\ BecomesDone => HasCause
             /\ UNCHANGED refunded
  <2> DEFINE d == old.done \/ old.next = "done"
             v == [old EXCEPT !.at = to, !.status = old.next, !.next = "deleted", !.done = d]
  <2>1. list' = [list EXCEPT ![l] = v] /\ UNCHANGED refunded
    BY <1>4 DEF ListUpdates
  <2>2. BecomesDone => HasCause
    <3>1. status' = IF status = "deleted" THEN status ELSE old.next
      BY <1>4 DEF ListUpdates, SetStatus
    <3> QED
      BY <1>0, <3>1 DEF BecomesDone, HasCause, ListerTrue
  <2>3. d \in BOOLEAN
    BY Zenon
  <2>4. (d => Reported # {}) /\ old.next \in Statuses /\ "deleted" \in Statuses
    <3> HIDE DEF old
    <3> QED
      BY <1>0 DEF ListerTrue, ListStep, Statuses
  <2> HIDE DEF d, old
  <2>5. v \in ListStep /\ v.next = "deleted" /\ v.done = d
    BY <1>0, <2>3, <2>4 DEF ListStep
  <2> HIDE DEF v
  <2>6. ListerTrue(v)
    BY <2>4, <2>5 DEF ListerTrue
  <2> QED
    BY <2>1, <2>2, <2>6
<1>5. CASE ListBegins(l)
  <2> DEFINE v == [old EXCEPT !.at = "first", !.status = status]
  <2>1. ListerTrue(v)
    <3> HIDE DEF old
    <3> QED
      BY <1>0 DEF ListerTrue, ListStep
  <2>2. list' = [list EXCEPT ![l] = v] /\ UNCHANGED <<status, refunded>>
    BY <1>5 DEF ListBegins
  <2> HIDE DEF v
  <2> QED
    BY <2>1, <2>2 DEF BecomesDone
<1>6. CASE ListFirst(l)
  BY <1>0, <1>2, <1>3, <1>6 DEF ListFirst, BecomesDone, Statuses
<1>7. CASE ListSecond(l)
  BY <1>0, <1>2, <1>3, <1>7 DEF ListSecond, BecomesDone, Statuses
<1>8. CASE ListWrites(l)
  BY <1>4, <1>8 DEF ListWrites
<1>9. CASE ListWritesAgain(l)
  BY <1>4, <1>9 DEF ListWritesAgain
<1>10. CASE ListRefunds(l)
  <2>1. list' = [list EXCEPT ![l] = ListIdle] /\ UNCHANGED status
    BY <1>10 DEF ListRefunds
  <2>2. ListerTrue(ListIdle)
    BY DEF ListerTrue, ListStep, ListIdle, Statuses
  <2>3. refunded' => refunded \/ Reported # {}
    BY <1>0, <1>10 DEF ListRefunds, ListerTrue
  <2> QED
    BY <2>1, <2>2, <2>3 DEF BecomesDone
<1> QED
  BY <1>5, <1>6, <1>7, <1>8, <1>9, <1>10 DEF ListSessions

\* The same of one step of the monitor daemon's tick, which decides from a snapshot.
LEMMA TickStep ==
  ASSUME Causes, Tick \/ AutoArchiveDone
  PROVE  /\ DaemonTrue(daemon', expired)
         /\ status' \in Statuses /\ (reporter' = reporter \/ reporter' = ReporterIdle)
         /\ BecomesDone => HasCause
<1>0. /\ DaemonTrue(daemon, expired) /\ daemon \in DaemonStep /\ status \in Statuses
      /\ deadline \in Deadlines /\ (deadline = "past" => expired)
  BY DEF Causes, RecordTrue, DaemonTrue
<1>1. DaemonTrue(DaemonIdle, expired)
  BY DEF DaemonTrue, DaemonStep, DaemonIdle, Statuses, Deadlines
<1>2. FinishTick => DaemonTrue(daemon', expired)
  BY <1>0, <1>1 DEF FinishTick, DaemonTrue, DaemonStep, Statuses
<1>3. ASSUME NEW s \in Statuses, SetStatus(s), s = "done" => HasCause
      PROVE  status' \in Statuses /\ (BecomesDone => HasCause)
  BY <1>0, <1>3 DEF SetStatus, BecomesDone
<1>4. ~ BecomesDone \/ status' # status
  BY DEF BecomesDone
<1>5. CASE TickBegins
  BY <1>0, <1>4, <1>5 DEF TickBegins, DaemonTrue, DaemonStep, Statuses
<1>6. CASE TickDetects
  <2>1. UNCHANGED <<status, reporter>>
    BY <1>6 DEF TickDetects
  <2>2. DaemonTrue(daemon', expired)
    BY <1>0, <1>2, <1>6 DEF TickDetects, DaemonTrue, DaemonStep, Statuses
  <2> QED
    BY <1>0, <2>1, <2>2 DEF BecomesDone
<1>7. CASE TickWrites
  BY <1>0, <1>2, <1>3, <1>7 DEF TickWrites, DaemonTrue, DaemonStep
<1>8. CASE EnforceOversightTimeouts
  BY <1>0, <1>1, <1>8 DEF EnforceOversightTimeouts, DaemonGoto, DaemonTrue, DaemonStep, BecomesDone
<1>9. CASE EnforceDone
  BY <1>0, <1>1, <1>3, <1>9 DEF EnforceDone, DaemonTrue, HasCause, Statuses
<1>10. CASE AutoArchiveDone
  BY <1>0, <1>1, <1>3, <1>10 DEF AutoArchiveDone, Statuses
<1>11. CASE TickWithoutArchive
  BY <1>0, <1>1, <1>11 DEF TickWithoutArchive, BecomesDone
<1> QED
  BY <1>5, <1>6, <1>7, <1>8, <1>9, <1>10, <1>11 DEF Tick

\* What is filed, asked for or expired stays so: what a process keeps remains true.
Grows ==
  /\ Reported \subseteq Reported' /\ Reported' \subseteq Reports
  /\ policy' = policy
  /\ expired => expired'

\* What the followers keep stays true when one of them steps or the world goes on:
\* reports are never taken back and a policy never changes.
LEMMA FollowersStay ==
  ASSUME Causes, Grows,
         follow' = follow \/ \E f \in Followers : \E v : follow' = [follow EXCEPT ![f] = v] /\ FollowerTrue(v, expired')
  PROVE  /\ DOMAIN follow' = Followers /\ follow' = [f \in Followers |-> follow'[f]]
         /\ (\A f \in Followers : FollowerTrue(follow[f], expired))'
<1>0. /\ DOMAIN follow = Followers /\ follow = [f \in Followers |-> follow[f]]
      /\ \A f \in Followers : FollowerTrue(follow[f], expired)
  BY DEF Causes
<1>1. ASSUME NEW v, FollowerTrue(v, expired) \/ FollowerTrue(v, expired')
      PROVE  FollowerTrue(v, expired)'
  BY <1>1 DEF FollowerTrue, Grows
<1>2. CASE follow' = follow
  BY <1>0, <1>1, <1>2
<1>3. ASSUME NEW f \in Followers, NEW v, follow' = [follow EXCEPT ![f] = v], FollowerTrue(v, expired')
      PROVE  /\ DOMAIN follow' = Followers /\ follow' = [g \in Followers |-> follow'[g]]
             /\ (\A g \in Followers : FollowerTrue(follow[g], expired))'
  <2>1. DOMAIN follow' = Followers /\ follow' = [g \in Followers |-> follow'[g]]
    BY <1>0, <1>3
  <2>2. ASSUME NEW g \in Followers
        PROVE  FollowerTrue(follow[g], expired)'
    <3>1. follow'[g] = v \/ follow'[g] = follow[g]
      BY <1>0, <1>3
    <3>2. FollowerTrue(follow[g], expired)
      BY <1>0
    <3> QED
      BY <1>3, <3>1, <3>2 DEF FollowerTrue, Grows
  <2> QED
    BY <2>1, <2>2
<1> QED
  BY <1>2, <1>3

\* The same of the calls of list_sessions.
LEMMA ListersStay ==
  ASSUME Causes, Grows,
         list' = list \/ \E l \in Listers : \E v : list' = [list EXCEPT ![l] = v] /\ ListerTrue(v)
  PROVE  /\ DOMAIN list' = Listers /\ list' = [l \in Listers |-> list'[l]]
         /\ (\A l \in Listers : ListerTrue(list[l]))'
<1>0. /\ DOMAIN list = Listers /\ list = [l \in Listers |-> list[l]]
      /\ \A l \in Listers : ListerTrue(list[l])
  BY DEF Causes
<1>1. CASE list' = list
  BY <1>0, <1>1 DEF ListerTrue, Grows
<1>2. ASSUME NEW l \in Listers, NEW v, list' = [list EXCEPT ![l] = v], ListerTrue(v)
      PROVE  /\ DOMAIN list' = Listers /\ list' = [k \in Listers |-> list'[k]]
             /\ (\A k \in Listers : ListerTrue(list[k]))'
  <2>1. DOMAIN list' = Listers /\ list' = [k \in Listers |-> list'[k]]
    BY <1>0, <1>2
  <2>2. ASSUME NEW k \in Listers
        PROVE  ListerTrue(list[k])'
    <3>1. list'[k] = v \/ list'[k] = list[k]
      BY <1>0, <1>2
    <3>2. ListerTrue(list[k])
      BY <1>0
    <3> QED
      BY <1>2, <3>1, <3>2 DEF ListerTrue, Grows
  <2> QED
    BY <2>1, <2>2
<1> QED
  BY <1>1, <1>2

\* No step breaks Causes, or makes the child done without a cause.
LEMMA CausesStep ==
  ASSUME Causes, [OversightNext]_oversightVars
  PROVE  Causes' /\ (BecomesDone => HasCause)
<1> USE DEF recordVars, reportVars, procVars, agentVars
<1>0. RecordTrue /\ DaemonTrue(daemon, expired)
  BY DEF Causes
<1>1. ASSUME Grows, RecordTrue', DaemonTrue(daemon', expired'),
             follow' = follow \/ \E f \in Followers : \E v : follow' = [follow EXCEPT ![f] = v] /\ FollowerTrue(v, expired'),
             list' = list \/ \E l \in Listers : \E v : list' = [list EXCEPT ![l] = v] /\ ListerTrue(v)
      PROVE  Causes'
  <2>1. DaemonTrue(daemon, expired)'
    BY <1>1 DEF DaemonTrue, Grows
  <2> QED
    BY <1>1, <2>1, FollowersStay, ListersStay DEF Causes
<1>2. ASSUME UNCHANGED <<policy, file, inherited, filed, expired, refunded, deadline, procVars>>,
             status' \in Statuses, reporter' \in {reporter, ReporterIdle}
      PROVE  Causes'
  <2>1. Grows /\ RecordTrue'
    BY <1>0, <1>2 DEF Reported, RecordTrue, Grows, ReporterIdle
  <2> QED
    BY <1>0, <1>1, <1>2, <2>1
<1>3. CASE UNCHANGED oversightVars
  BY <1>0, <1>2, <1>3 DEF oversightVars, RecordTrue, BecomesDone
<1>4. CASE Prompt \/ TurnEnds \/ WindowCloses
  BY <1>0, <1>2, <1>4 DEF Prompt, TurnEnds, WindowCloses, RecordTrue, BecomesDone
<1>5. CASE Revive \/ Kill
  BY <1>0, <1>2, <1>5 DEF Revive, Kill, Statuses, BecomesDone
<1>6. CASE \E r \in Reports : ReportBegins(r)
  <2>1. UNCHANGED <<policy, inherited, filed, expired, refunded, status, deadline, procVars>>
    BY <1>6 DEF ReportBegins
  <2>2. PICK r \in Reports : file' = "torn" /\ reporter' = [at |-> "write", report |-> r]
    BY <1>6 DEF ReportBegins
  <2>3. Grows /\ RecordTrue'
    BY <1>0, <2>1, <2>2 DEF Reported, RecordTrue, Grows
  <2> QED
    BY <1>0, <1>1, <2>1, <2>3 DEF BecomesDone
<1>7. CASE ReportWrites
  <2>1. UNCHANGED <<policy, expired, refunded, status, deadline, procVars>>
    BY <1>7 DEF ReportWrites
  <2>2. Grows /\ RecordTrue'
    BY <1>0, <1>7, <2>1 DEF Reported, ReportWrites, RecordTrue, Grows, ReporterIdle
  <2> QED
    BY <1>0, <1>1, <2>1, <2>2 DEF BecomesDone
<1>8. CASE DeadlinePasses
  <2>1. UNCHANGED <<policy, status, reporter, file, inherited, filed, refunded, follow, list>> /\ deadline' = "past" /\ expired'
    BY <1>8 DEF DeadlinePasses
  <2>2. Grows /\ RecordTrue'
    BY <1>0, <2>1 DEF Reported, RecordTrue, Grows, Deadlines
  <2>3. daemon' = [daemon EXCEPT !.deadline = IF daemon.deadline = "ahead" THEN "past" ELSE daemon.deadline]
    BY <1>8 DEF DeadlinePasses
  <2>4. DaemonTrue(daemon', expired')
    BY <1>0, <2>1, <2>3 DEF DaemonTrue, DaemonStep, Deadlines
  <2> QED
    BY <1>1, <2>1, <2>2, <2>4 DEF BecomesDone
<1>9. ASSUME NEW f \in Followers, OwnDeadlinePasses(f) \/ Follow(f) \/ FollowInterrupted(f)
      PROVE  Causes' /\ (BecomesDone => HasCause)
  <2> USE DEF Follow, FollowInterrupted, OwnDeadlinePasses, FollowStart, FollowWatch, FollowStopped, FollowFails,
       FollowMarks, FollowMarksAgain, PollForReport, HandleReport, FollowRefunds, FollowExpires, FollowUnchanged
  <2>1. UNCHANGED <<policy, file, inherited, filed, reporter, list, daemon>> /\ (expired => expired')
    BY <1>9
  <2>2. status' \in {status, "done", "waiting_oversight"} /\ deadline' \in {deadline, "ahead"}
    BY <1>9 DEF SetStatus
  <2>3. /\ \E v : follow' = [follow EXCEPT ![f] = v] /\ FollowerTrue(v, expired')
        /\ BecomesDone => HasCause
        /\ refunded' => refunded \/ Reported # {}
    BY <1>9, FollowerStep
  <2>4. Grows /\ RecordTrue'
    BY <1>0, <2>1, <2>2, <2>3 DEF Reported, RecordTrue, Grows, Statuses, Deadlines
  <2>5. DaemonTrue(daemon', expired')
    BY <1>0, <2>1 DEF DaemonTrue
  <2> QED
    BY <1>1, <2>1, <2>3, <2>4, <2>5
<1>10. ASSUME NEW l \in Listers, ListSessions(l)
       PROVE  Causes' /\ (BecomesDone => HasCause)
  <2>1. UNCHANGED <<policy, file, inherited, filed, reporter, deadline, follow, daemon, expired>>
    BY <1>10 DEF ListSessions, ListBegins, ListFirst, ListWrites, ListSecond, ListWritesAgain,
       ListRefunds,
                 ListUpdates, ListUnchanged
  <2>2. status' \in {status, list[l].next}
    BY <1>10 DEF ListSessions, ListBegins, ListFirst, ListWrites, ListSecond, ListWritesAgain,
       ListRefunds,
                 ListUpdates, SetStatus
  <2>3. list[l].next \in Statuses
    BY DEF Causes, ListerTrue, ListStep
  <2>4. /\ \E v : list' = [list EXCEPT ![l] = v] /\ ListerTrue(v)
        /\ BecomesDone => HasCause
        /\ refunded' => refunded \/ Reported # {}
    BY <1>10, ListerStep
  <2>5. Grows /\ RecordTrue'
    BY <1>0, <2>1, <2>2, <2>3, <2>4 DEF Reported, RecordTrue, Grows
  <2> QED
    BY <1>0, <1>1, <2>1, <2>4, <2>5
<1>11. CASE Tick \/ AutoArchiveDone
  <2>1. UNCHANGED <<policy, file, inherited, filed, deadline, follow, list, expired, refunded>>
    BY <1>11 DEF Tick, TickBegins, TickDetects, TickWrites, EnforceOversightTimeouts, EnforceDone,
                 AutoArchiveDone, TickWithoutArchive, DaemonUnchanged
  <2>2. /\ DaemonTrue(daemon', expired)
        /\ status' \in Statuses /\ (reporter' = reporter \/ reporter' = ReporterIdle)
        /\ BecomesDone => HasCause
    BY <1>11, TickStep
  <2>3. Grows /\ RecordTrue'
    BY <1>0, <2>1, <2>2 DEF Reported, RecordTrue, Grows, ReporterIdle
  <2> QED
    BY <1>1, <2>1, <2>2, <2>3
<1> QED
  BY <1>3, <1>4, <1>5, <1>6, <1>7, <1>8, <1>9, <1>10, <1>11 DEF OversightNext

\* At first nobody is.
LEMMA CausesBegin == OversightInit => Causes
<1> SUFFICES ASSUME OversightInit PROVE Causes
  OBVIOUS
<1>1. RecordTrue
  BY DEF OversightInit, RecordTrue, Reported, ReporterIdle, Statuses, Deadlines, Reports
<1>2. \A f \in Followers : FollowerTrue(follow[f], expired)
  BY DEF OversightInit, FollowerTrue, FollowStep, Deadlines, Reports
<1>3. \A l \in Listers : ListerTrue(list[l])
  BY DEF OversightInit, ListerTrue, ListStep, ListIdle, Statuses
<1>4. DaemonTrue(daemon, expired)
  BY DEF OversightInit, DaemonTrue, DaemonStep, DaemonIdle, Statuses, Deadlines
<1> QED
  BY <1>1, <1>2, <1>3, <1>4 DEF OversightInit, Causes

\* The inductive invariant: at no time is anybody about to call a child done, or to
\* exit with 0 or 2, without what justifies it.
THEOREM CausesKept == OversightSpec => []Causes
<1>1. OversightInit => Causes
  BY CausesBegin
<1>2. Causes /\ [OversightNext]_oversightVars => Causes'
  BY CausesStep
<1> QED
  BY <1>1, <1>2, PTL DEF OversightSpec

\* For any number of followers and listers, and whatever an earlier agent of the
\* child's name left: `overcode follow' exits with 0 only if success was reported under
\* that name (by the child itself, if the name is new), with 2 only if a timeout was
\* asked for and expired; and budget goes back to the parent only after a report.
THEOREM ExitCodesTrue == OversightSpec => []ExitCodeIsTrue
<1>1. Causes => ExitCodeIsTrue
  BY DEF Causes, RecordTrue, FollowerTrue, ExitCodeIsTrue
<1> QED
  BY <1>1, CausesKept, PTL

\* However followers, lists, the daemon and the child interleave, and whatever an
\* earlier agent of the name left, no step makes a child done unless there was a report
\* under its name, or it ran out of a time its policy sets, or the policy is to fail at
\* once.
THEOREM DoneOnlyWithCause == OversightSpec => DoneHasACause
<1>1. Causes /\ [OversightNext]_oversightVars
        => [status # "done" /\ status' = "done" =>
              \/ Reported # {}
              \/ policy = "timeout" /\ expired
              \/ policy = "fail"]_oversightVars
  BY CausesStep DEF BecomesDone, HasCause
<1> QED
  BY <1>1, CausesKept, PTL DEF OversightSpec, DoneHasACause

-----------------------------------------------------------------------------
(* The split window *)

BothPanes == {"monitor", "terminal"}
RunStages == SettingUp \cup {"unborn", "write", "probe", "stale", "retry", "refused", "attached", "ended"}

\* The types.
LayoutTyped ==
  /\ setupLock \in [by : Openers \cup {"none"}, written : BOOLEAN]
  /\ stage \in [Openers -> RunStages]
  /\ panes \in [SplitIds -> SUBSET BothPanes]
  /\ view \in BOOLEAN /\ raced \in BOOLEAN /\ disturbed \in BOOLEAN

\* The run that sets up is the one the lock file is of.
LockHeld == \A p \in Openers : stage[p] \in SettingUp \cup {"write"} => setupLock.by = p

\* There is one split window, and none when one is about to be created.
OneWindow ==
  /\ \A v, w \in SplitIds : panes[v] # {} /\ panes[w] # {} => v = w
  /\ (\E p \in Openers : stage[p] \in {"stray", "create"}) => \A w \in SplitIds : panes[w] = {}

\* What a run that nothing has disturbed has found or made is there.
LayoutStands ==
  \A p \in Openers :
    /\ stage[p] \in SettingUp \ {"link"} => view
    /\ stage[p] = "respawn" => \E w \in SplitIds : panes[w] = BothPanes
    /\ stage[p] = "split" => \E w \in SplitIds : panes[w] = {"monitor"}

LayoutInv == LayoutTyped /\ (~raced => LockHeld /\ OneWindow /\ (~disturbed => LayoutStands))

\* Every step of a run, and every upset, keeps the types.
LEMMA LayoutTypes ==
  ASSUME LayoutTyped, SplitNext
  PROVE  LayoutTyped'
<1> USE SplitAssumption DEF LayoutTyped, tmuxVars, Upset
<1>0. NoLockFile \in [by : Openers \cup {"none"}, written : BOOLEAN]
  BY DEF NoLockFile
<1>1. ASSUME NEW p \in Openers, NEW s \in RunStages, GoesTo(p, s)
      PROVE  stage' \in [Openers -> RunStages]
  BY <1>1 DEF GoesTo
<1>2. \A s \in SettingUp \cup {"unborn", "write", "probe", "stale", "retry", "refused", "attached", "ended"} : s \in RunStages
  BY DEF RunStages
<1>3. \A s \in {"link", "find", "respawn", "clear", "stray", "create", "split"} : s \in RunStages
  BY DEF RunStages, SettingUp
<1>4. ASSUME NEW p \in Openers, Creates(p)
      PROVE  stage' \in [Openers -> RunStages] /\ setupLock' \in [by : Openers \cup {"none"}, written : BOOLEAN]
  BY <1>1, <1>2, <1>4 DEF Creates
<1>5. ASSUME NEW p \in Openers, Finishes(p)
      PROVE  stage' \in [Openers -> RunStages] /\ setupLock' \in [by : Openers \cup {"none"}, written : BOOLEAN]
  BY <1>0, <1>1, <1>2, <1>5 DEF Finishes
<1>6. ASSUME NEW p \in Openers, RunBegins(p) PROVE LayoutTyped'
  BY <1>1, <1>2, <1>4, <1>6 DEF RunBegins
<1>7. ASSUME NEW p \in Openers, WritesPid(p) PROVE LayoutTyped'
  BY <1>1, <1>3, <1>7 DEF WritesPid
<1>8. ASSUME NEW p \in Openers, ProbesHolder(p) PROVE LayoutTyped'
  BY <1>1, <1>2, <1>8 DEF ProbesHolder
<1>9. ASSUME NEW p \in Openers, RemovesStale(p) PROVE LayoutTyped'
  BY <1>0, <1>1, <1>2, <1>9 DEF RemovesStale, StillRuns
<1>10. ASSUME NEW p \in Openers, RetriesLock(p) PROVE LayoutTyped'
  BY <1>1, <1>2, <1>4, <1>10 DEF RetriesLock
<1>11. ASSUME NEW p \in Openers, RefusedEnds(p) \/ Detaches(p) PROVE LayoutTyped'
  BY <1>1, <1>2, <1>11 DEF RefusedEnds, Detaches
<1>12. ASSUME NEW p \in Openers, Links(p) PROVE LayoutTyped'
  BY <1>1, <1>3, <1>12 DEF Links
<1>13. ASSUME NEW p \in Openers, FindsExisting(p) PROVE LayoutTyped'
  <2>1. \E s \in RunStages : GoesTo(p, s)
    BY <1>3, <1>13 DEF FindsExisting
  <2> QED
    BY <1>1, <1>13, <2>1 DEF FindsExisting
<1>14. ASSUME NEW p \in Openers, Respawns(p) PROVE LayoutTyped'
  <2>1. panes' \in [SplitIds -> SUBSET BothPanes]
    BY <1>14 DEF Respawns, BothPanes, SplitWindows
  <2> QED
    BY <1>5, <1>14, <2>1 DEF Respawns
<1>15. ASSUME NEW p \in Openers, Clears(p) PROVE LayoutTyped'
  BY <1>1, <1>3, <1>15 DEF Clears
<1>16. ASSUME NEW p \in Openers, KillsStray(p) PROVE LayoutTyped'
  BY <1>1, <1>3, <1>16 DEF KillsStray
<1>17. ASSUME NEW p \in Openers, CreatesSplit(p) PROVE LayoutTyped'
  BY <1>1, <1>3, <1>17 DEF CreatesSplit, BothPanes, SplitWindows
<1>18. ASSUME NEW p \in Openers, SplitsWindow(p) PROVE LayoutTyped'
  <2>1. panes' \in [SplitIds -> SUBSET BothPanes]
    BY <1>18 DEF SplitsWindow, BothPanes, SplitWindows
  <2> QED
    BY <1>5, <1>18, <2>1 DEF SplitsWindow
<1>19. ASSUME NEW p \in Openers, RunDies(p) PROVE LayoutTyped'
  BY <1>0, <1>1, <1>2, <1>19 DEF RunDies
<1>20. CASE PaneDies
  <2>1. panes' \in [SplitIds -> SUBSET BothPanes]
    BY <1>20 DEF PaneDies, SplitWindows
  <2> QED
    BY <1>20, <2>1 DEF PaneDies
<1>21. CASE UninstallsWindow
  BY <1>21 DEF UninstallsWindow, SplitWindows
<1>22. CASE UninstallsView
  <2>1. panes' \in [SplitIds -> SUBSET BothPanes]
    BY <1>22 DEF UninstallsView
  <2> QED
    BY <1>22, <2>1 DEF UninstallsView
<1>23. CASE UserOpensWindow
  BY <1>23 DEF UserOpensWindow
<1> QED
  BY <1>6, <1>7, <1>8, <1>9, <1>10, <1>11, <1>12, <1>13, <1>14, <1>15, <1>16, <1>17, <1>18, <1>19,
     <1>20, <1>21, <1>22, <1>23
     DEF SplitNext, SetupStep

\* That a lock was removed from a live run is not forgotten.
LEMMA RacedStays == SplitNext /\ ~raced' => ~raced
  BY DEF SplitNext, SetupStep, RunBegins, WritesPid, ProbesHolder, RemovesStale, RetriesLock,
     RefusedEnds, Links,
     FindsExisting, Respawns, Clears, KillsStray, CreatesSplit, SplitsWindow, Detaches, RunDies,
     PaneDies,
     UninstallsWindow, UninstallsView, UserOpensWindow, Creates

\* As long as no live run lost its lock, whoever sets up is the one the lock names: a
\* run begins only when there is no file, or when the one it names is gone.
LEMMA LockStep ==
  ASSUME LayoutTyped, LockHeld, SplitNext, ~raced'
  PROVE  LockHeld'
<1> USE DEF LayoutTyped, LockHeld, tmuxVars, Upset
<1>1. ASSUME NEW p \in Openers, Creates(p), setupLock = NoLockFile PROVE LockHeld'
  <2>1. \A q \in Openers : stage[q] \notin SettingUp \cup {"write"}
    BY <1>1, SplitAssumption DEF NoLockFile
  <2> QED
    BY <1>1, <2>1 DEF Creates, GoesTo
<1>2. ASSUME NEW p \in Openers, NEW s \in RunStages, GoesTo(p, s),
             \/ UNCHANGED setupLock
             \/ setupLock'.by = p /\ setupLock.by = p,
             s \in SettingUp => stage[p] \in SettingUp \cup {"write"}, s # "write"
      PROVE  LockHeld'
  BY <1>2 DEF GoesTo
<1>3. ASSUME NEW p \in Openers, NEW s \in RunStages, GoesTo(p, s), s \notin SettingUp \cup {"write"},
             stage[p] \in SettingUp \cup {"write"}
      PROVE  LockHeld'
  BY <1>3 DEF GoesTo
<1>4. ASSUME NEW p \in Openers, Finishes(p), stage[p] \in SettingUp PROVE LockHeld'
  <2>1. \E s \in {"ended", "attached"} : GoesTo(p, s)
    BY <1>4 DEF Finishes
  <2> QED
    BY <1>3, <1>4, <2>1 DEF RunStages, SettingUp
<1>5. ASSUME NEW p \in Openers, RunBegins(p) \/ RetriesLock(p) PROVE LockHeld'
  <2>1. \/ Creates(p) /\ setupLock = NoLockFile
        \/ UNCHANGED setupLock /\ \E s \in {"probe", "refused"} : GoesTo(p, s)
    BY <1>5 DEF RunBegins, RetriesLock
  <2> QED
    BY <1>1, <1>2, <2>1 DEF RunStages, SettingUp
<1>6. ASSUME NEW p \in Openers, RemovesStale(p) PROVE LockHeld'
  <2>1. setupLock # NoLockFile => ~StillRuns(setupLock.by)
    BY <1>6 DEF RemovesStale
  <2>2. \A q \in Openers : stage[q] \notin SettingUp \cup {"write"}
    BY <2>1, SplitAssumption DEF NoLockFile, StillRuns, SettingUp
  <2> QED
    BY <1>6, <2>2 DEF RemovesStale, GoesTo, SettingUp
<1>7. ASSUME NEW p \in Openers, WritesPid(p) PROVE LockHeld'
  <2>1. setupLock.by = p /\ setupLock'.by = p /\ GoesTo(p, "link") /\ stage[p] = "write"
    BY <1>7 DEF WritesPid
  <2> QED
    BY <1>2, <2>1 DEF RunStages, SettingUp
<1>8. ASSUME NEW p \in Openers, NEW s \in RunStages \ {"write"}, GoesTo(p, s), UNCHANGED setupLock,
             s \in SettingUp => stage[p] \in SettingUp \cup {"write"}
      PROVE  LockHeld'
  BY <1>2, <1>8
<1>9. ASSUME NEW p \in Openers, ProbesHolder(p) \/ RefusedEnds(p) \/ Detaches(p) PROVE LockHeld'
  <2>1. UNCHANGED setupLock /\ \E s \in {"refused", "stale", "ended"} : GoesTo(p, s)
    BY <1>9 DEF ProbesHolder, RefusedEnds, Detaches
  <2> QED
    BY <1>8, <2>1 DEF RunStages, SettingUp
<1>10. ASSUME NEW p \in Openers, Links(p) \/ FindsExisting(p) \/ Clears(p) \/ KillsStray(p) \/ CreatesSplit(p)
       PROVE  LockHeld'
  <2>1. UNCHANGED setupLock /\ stage[p] \in SettingUp
        /\ \E s \in {"find", "respawn", "clear", "stray", "create", "split"} : GoesTo(p, s)
    BY <1>10 DEF Links, FindsExisting, Clears, KillsStray, CreatesSplit, SettingUp
  <2> QED
    BY <1>8, <2>1 DEF RunStages, SettingUp
<1>11. ASSUME NEW p \in Openers, Respawns(p) \/ SplitsWindow(p) PROVE LockHeld'
  BY <1>4, <1>11 DEF Respawns, SplitsWindow, SettingUp
<1>12. ASSUME NEW p \in Openers, RunDies(p) PROVE LockHeld'
  <2>1. GoesTo(p, "ended") /\ stage[p] \in SettingUp \cup {"write"}
    BY <1>12 DEF RunDies
  <2> QED
    BY <1>3, <2>1 DEF RunStages, SettingUp
<1>13. CASE PaneDies \/ UninstallsWindow \/ UninstallsView \/ UserOpensWindow
  BY <1>13 DEF PaneDies, UninstallsWindow, UninstallsView, UserOpensWindow
<1> QED
  BY <1>5, <1>6, <1>7, <1>9, <1>10, <1>11, <1>12, <1>13 DEF SplitNext, SetupStep

\* So one run at most sets up.
LEMMA OneSetsUp ==
  ASSUME LockHeld, NEW p \in Openers, NEW q \in Openers,
         stage[p] \in SettingUp \cup {"write"}, stage[q] \in SettingUp \cup {"write"}
  PROVE  p = q
  BY DEF LockHeld

\* A window is created by the one run that sets up, after all others are gone.
LEMMA WindowStep ==
  ASSUME LayoutTyped, LockHeld, OneWindow, SplitNext, ~raced'
  PROVE  OneWindow'
<1> USE DEF LayoutTyped, tmuxVars, Upset
<1>1. ASSUME \A w \in SplitIds : panes'[w] # {} => panes[w] # {},
             \A p \in Openers : stage'[p] \in {"stray", "create"} =>
                stage[p] \in {"stray", "create"} \/ \A w \in SplitIds : panes'[w] = {}
      PROVE  OneWindow'
  BY <1>1 DEF OneWindow
<1>2. ASSUME NEW p \in Openers, RunBegins(p) \/ RetriesLock(p) \/ WritesPid(p) \/ ProbesHolder(p) \/ RemovesStale(p)
                                 \/ RefusedEnds(p) \/ Detaches(p) \/ Links(p)
      PROVE  OneWindow'
  <2>1. /\ UNCHANGED panes
        /\ \E s \in {"write", "link", "probe", "refused", "stale", "retry", "ended", "find"} : GoesTo(p, s)
    BY <1>2 DEF RunBegins, RetriesLock, WritesPid, ProbesHolder, RemovesStale, RefusedEnds, Detaches,
       Links, Creates
  <2> QED
    BY <1>1, <2>1 DEF GoesTo
<1>3. ASSUME NEW p \in Openers, FindsExisting(p) PROVE OneWindow'
  <2>1. /\ UNCHANGED panes
        /\ \/ SplitWindows = {} /\ GoesTo(p, "stray")
           \/ \E s \in {"respawn", "clear"} : GoesTo(p, s)
    BY <1>3 DEF FindsExisting
  <2>2. SplitWindows = {} => \A w \in SplitIds : panes'[w] = {}
    BY <2>1 DEF SplitWindows
  <2> QED
    BY <1>1, <2>1, <2>2 DEF GoesTo
<1>4. ASSUME NEW p \in Openers, Respawns(p) \/ SplitsWindow(p) PROVE OneWindow'
  <2>1. \A w \in SplitIds : panes'[w] # {} => panes[w] # {}
    BY <1>4 DEF Respawns, SplitsWindow, SplitWindows
  <2>2. \E s \in {"ended", "attached"} : GoesTo(p, s)
    BY <1>4 DEF Respawns, SplitsWindow, Finishes
  <2> QED
    BY <1>1, <2>1, <2>2 DEF GoesTo
<1>5. ASSUME NEW p \in Openers, Clears(p) PROVE OneWindow'
  BY <1>1, <1>5 DEF Clears
<1>6. ASSUME NEW p \in Openers, KillsStray(p) PROVE OneWindow'
  BY <1>1, <1>6 DEF KillsStray, GoesTo
<1>7. ASSUME NEW p \in Openers, CreatesSplit(p) PROVE OneWindow'
  <2>1. \A w \in SplitIds : panes[w] = {}
    BY <1>7 DEF CreatesSplit, OneWindow
  <2>2. PICK v \in SplitIds : panes' = [panes EXCEPT ![v] = {"monitor"}]
    BY <1>7 DEF CreatesSplit
  <2>3. \A q \in Openers : stage'[q] \notin {"stray", "create"}
    BY <1>7, OneSetsUp DEF CreatesSplit, GoesTo, SettingUp
  <2> QED
    BY <2>1, <2>2, <2>3 DEF OneWindow
<1>8. ASSUME NEW p \in Openers, RunDies(p) PROVE OneWindow'
  BY <1>1, <1>8 DEF RunDies, GoesTo
<1>9. CASE PaneDies
  BY <1>1, <1>9 DEF PaneDies, SplitWindows
<1>10. CASE UninstallsWindow
  BY <1>1, <1>10 DEF UninstallsWindow, SplitWindows
<1>11. CASE UninstallsView
  BY <1>1, <1>11 DEF UninstallsView
<1>12. CASE UserOpensWindow
  BY <1>1, <1>12 DEF UserOpensWindow
<1> QED
  BY <1>2, <1>3, <1>4, <1>5, <1>6, <1>7, <1>8, <1>9, <1>10, <1>11, <1>12 DEF SplitNext, SetupStep

\* What the run that sets up has found or made stays there until the next of its
\* steps, unless something from outside disturbs it.
LEMMA StandsStep ==
  ASSUME LayoutTyped, LockHeld, OneWindow, ~disturbed => LayoutStands, SplitNext, ~raced', ~disturbed'
  PROVE  LayoutStands'
<1> USE DEF LayoutTyped, tmuxVars
<1>1. ASSUME NEW p \in Openers, NEW s, GoesTo(p, s), stage[p] \in SettingUp \cup {"write"},
             /\ s \in SettingUp \ {"link"} => view'
             /\ s = "respawn" => \E w \in SplitIds : panes'[w] = BothPanes
             /\ s = "split" => \E w \in SplitIds : panes'[w] = {"monitor"}
      PROVE  LayoutStands'
  <2>1. \A q \in Openers \ {p} : stage'[q] \notin SettingUp
    BY <1>1, OneSetsUp DEF GoesTo
  <2>2. stage'[p] = s
    BY <1>1 DEF GoesTo
  <2> QED
    BY <1>1, <2>1, <2>2 DEF LayoutStands, SettingUp
<1>2. ASSUME NEW p \in Openers, NEW s \in RunStages \ SettingUp, GoesTo(p, s), UNCHANGED <<panes, view, disturbed>>
      PROVE  LayoutStands'
  BY <1>2 DEF LayoutStands, GoesTo, SettingUp
<1>3. ASSUME NEW p \in Openers, RunBegins(p) \/ RetriesLock(p) \/ ProbesHolder(p) \/ RemovesStale(p)
                                 \/ RefusedEnds(p) \/ Detaches(p)
      PROVE  LayoutStands'
  <2>1. /\ UNCHANGED <<panes, view, disturbed>>
        /\ \E s \in {"write", "probe", "refused", "stale", "retry", "ended"} : GoesTo(p, s)
    BY <1>3 DEF RunBegins, RetriesLock, ProbesHolder, RemovesStale, RefusedEnds, Detaches, Creates
  <2> QED
    BY <1>2, <2>1 DEF RunStages, SettingUp
<1>4. ASSUME NEW p \in Openers, WritesPid(p) PROVE LayoutStands'
  BY <1>1, <1>4 DEF WritesPid
<1>5. ASSUME NEW p \in Openers, Links(p) PROVE LayoutStands'
  BY <1>1, <1>5 DEF Links, SettingUp
<1>6. ASSUME NEW p \in Openers, FindsExisting(p) PROVE LayoutStands'
  <2>1. view' /\ stage[p] \in SettingUp
    BY <1>6 DEF FindsExisting, LayoutStands, SettingUp
  <2>2. \/ GoesTo(p, "stray") \/ GoesTo(p, "clear")
        \/ GoesTo(p, "respawn") /\ \E w \in SplitIds : panes'[w] = BothPanes
    BY <1>6 DEF FindsExisting, SplitWindows, Healthy, BothPanes
  <2> QED
    BY <1>1, <2>1, <2>2
<1>7. ASSUME NEW p \in Openers, Respawns(p) \/ SplitsWindow(p) PROVE LayoutStands'
  <2>1. stage[p] \in SettingUp /\ \E s \in {"ended", "attached"} : GoesTo(p, s)
    BY <1>7 DEF Respawns, SplitsWindow, Finishes, SettingUp
  <2> QED
    BY <1>1, <2>1 DEF SettingUp
<1>8. ASSUME NEW p \in Openers, Clears(p) \/ KillsStray(p) PROVE LayoutStands'
  <2>1. stage[p] \in SettingUp /\ view' /\ \E s \in {"stray", "create"} : GoesTo(p, s)
    BY <1>8 DEF Clears, KillsStray, LayoutStands, SettingUp
  <2> QED
    BY <1>1, <2>1
<1>9. ASSUME NEW p \in Openers, CreatesSplit(p) PROVE LayoutStands'
  <2>1. stage[p] \in SettingUp /\ view' /\ GoesTo(p, "split")
    BY <1>9 DEF CreatesSplit, LayoutStands, SettingUp
  <2>2. \E w \in SplitIds : panes'[w] = {"monitor"}
    BY <1>9 DEF CreatesSplit
  <2> QED
    BY <1>1, <2>1, <2>2
<1>10. ~Upset
  BY DEF Upset
<1> QED
  BY <1>3, <1>4, <1>5, <1>6, <1>7, <1>8, <1>9, <1>10
     DEF SplitNext, SetupStep, RunDies, PaneDies, UninstallsWindow, UninstallsView, UserOpensWindow

\* The last step of a run that was not disturbed leaves one window with both panes.
LEMMA EndIsRight ==
  ASSUME LayoutInv, SplitNext, ~raced', NEW p \in Openers,
         stage[p] \in {"respawn", "split"}, stage'[p] # stage[p], ~disturbed'
  PROVE  \E w \in SplitIds : SplitWindows' = {w} /\ panes'[w] = {"monitor", "terminal"}
<1> USE DEF LayoutTyped, LayoutInv, tmuxVars
<1>0. LockHeld /\ OneWindow /\ OneWindow' /\ LayoutTyped'
  BY RacedStays, WindowStep, LayoutTypes
<1>1. ASSUME NEW w \in SplitIds, panes'[w] = BothPanes
      PROVE  \E v \in SplitIds : SplitWindows' = {v} /\ panes'[v] = {"monitor", "terminal"}
  <2>1. \A v \in SplitIds : panes'[v] # {} <=> v = w
    BY <1>0, <1>1 DEF OneWindow, BothPanes
  <2> QED
    BY <1>1, <2>1 DEF SplitWindows, BothPanes
<1>2. CASE Respawns(p)
  <2>1. PICK w \in SplitIds : panes[w] = BothPanes
    BY <1>0, <1>2, RacedStays DEF Respawns, LayoutStands, SettingUp
  <2>2. \A v \in SplitWindows : v = w
    BY <1>0, <2>1 DEF OneWindow, SplitWindows, BothPanes
  <2>3. panes' = [panes EXCEPT ![w] = IF "monitor" \in @ THEN @ ELSE {"monitor"}] \/ panes' = panes
    BY <1>2, <2>2 DEF Respawns
  <2>4. panes'[w] = BothPanes
    BY <2>1, <2>3 DEF BothPanes
  <2> QED
    BY <1>1, <2>4
<1>3. CASE SplitsWindow(p)
  <2>1. view /\ \E w \in SplitIds : panes[w] = {"monitor"}
    BY <1>0, <1>3, RacedStays DEF SplitsWindow, LayoutStands, SettingUp
  <2>2. PICK w \in SplitIds : panes[w] = {"monitor"}
    BY <2>1
  <2>3. w \in SplitWindows /\ \A v \in SplitWindows : v = w
    BY <1>0, <2>2 DEF OneWindow, SplitWindows
  <2>4. panes' = [panes EXCEPT ![w] = @ \cup {"terminal"}]
    BY <1>3, <2>1, <2>3 DEF SplitsWindow
  <2>5. panes'[w] = BothPanes
    BY <2>2, <2>4 DEF BothPanes
  <2> QED
    BY <1>1, <2>5
<1>4. ASSUME NEW q \in Openers, SetupStep(q) \/ Detaches(q) PROVE Respawns(p) \/ SplitsWindow(p)
  <2>1. q = p
    BY <1>4 DEF SetupStep, Detaches, RunBegins, WritesPid, ProbesHolder, RemovesStale, RetriesLock,
       RefusedEnds, Links,
       FindsExisting, Respawns, Clears, KillsStray, CreatesSplit, SplitsWindow, Finishes, Creates,
       GoesTo
  <2> QED
    BY <1>4, <2>1 DEF SetupStep, Detaches, RunBegins, WritesPid, ProbesHolder, RemovesStale,
       RetriesLock, RefusedEnds,
       Links, FindsExisting, Clears, KillsStray, CreatesSplit
<1>5. ~Upset
  BY DEF Upset
<1> QED
  BY <1>2, <1>3, <1>4, <1>5 DEF SplitNext, RunDies, PaneDies, UninstallsWindow, UninstallsView,
     UserOpensWindow

\* Every state.
LEMMA LayoutKept == SplitSpec => []LayoutInv
<1>1. SplitInit => LayoutInv
  <2> SUFFICES ASSUME SplitInit PROVE LayoutInv
    OBVIOUS
  <2>1. LayoutTyped
    BY DEF SplitInit, LayoutTyped, NoLockFile, RunStages
  <2>2. \A p \in Openers : stage[p] \notin SettingUp \cup {"write"} /\ stage[p] \notin {"stray", "create"}
    BY DEF SplitInit, SettingUp
  <2>3. LockHeld /\ OneWindow
    BY <2>2 DEF SplitInit, LockHeld, OneWindow
  <2>4. LayoutStands
    BY <2>2 DEF LayoutStands, SettingUp
  <2> QED
    BY <2>1, <2>3, <2>4 DEF LayoutInv
<1>2. LayoutInv /\ [SplitNext]_splitVars => LayoutInv'
  <2>1. CASE UNCHANGED splitVars
    BY <2>1 DEF LayoutInv, LayoutTyped, LockHeld, OneWindow, LayoutStands, splitVars
  <2>2. ASSUME LayoutInv, SplitNext PROVE LayoutInv'
    BY <2>2, LayoutTypes, RacedStays, LockStep, WindowStep, StandsStep DEF LayoutInv
  <2> QED
    BY <2>1, <2>2
<1> QED
  BY <1>1, <1>2, PTL DEF SplitSpec

\* For any number of runs of `overcode tmux' and of windows, and however often panes,
\* runs and windows die or are uninstalled: unless a lock was removed whose owner was
\* alive, one run at most sets the layout up, and one that nothing disturbed leaves one
\* split window with the monitor and the terminal.
THEOREM LayoutIsOne == SplitSpec => OneLayout
<1>1. LayoutInv /\ [SplitNext]_splitVars =>
        [~raced' =>
           /\ Cardinality({p \in Openers : stage'[p] \in SettingUp}) <= 1
           /\ \A p \in Openers :
                stage[p] \in {"respawn", "split"} /\ stage'[p] # stage[p] /\ ~disturbed'
                  => \E w \in SplitIds : SplitWindows' = {w} /\ panes'[w] = {"monitor", "terminal"}]_splitVars
  <2> SUFFICES ASSUME LayoutInv, SplitNext, ~raced'
               PROVE  /\ Cardinality({p \in Openers : stage'[p] \in SettingUp}) <= 1
                      /\ \A p \in Openers :
                           stage[p] \in {"respawn", "split"} /\ stage'[p] # stage[p] /\ ~disturbed'
                             => \E w \in SplitIds : SplitWindows' = {w} /\ panes'[w] = {"monitor", "terminal"}
    OBVIOUS
  <2>1. LockHeld'
    BY RacedStays, LockStep DEF LayoutInv
  <2> DEFINE S == {p \in Openers : stage'[p] \in SettingUp}
  <2>2. S = {} \/ \E p : S = {p}
    BY <2>1 DEF LockHeld
  <2>3. Cardinality(S) <= 1
    <3> HIDE DEF S
    <3>1. CASE S = {}
      BY <3>1, FS_EmptySet
    <3>2. ASSUME NEW p, S = {p} PROVE Cardinality(S) <= 1
      <4>1. Cardinality({p}) = 1
        BY FS_Singleton
      <4> QED
        BY <3>2, <4>1
    <3> QED
      BY <2>2, <3>1, <3>2
  <2> QED
    BY <2>3, EndIsRight
<1> QED
  BY <1>1, LayoutKept, PTL DEF SplitSpec, OneLayout

-----------------------------------------------------------------------------
(* The types of all variables *)

\* What the supervisor and its Claude do keeps the types of all but the statistics and
\* the tokens of the runs.
SupPlain ==
  /\ phase \in Phases /\ mine \in BOOLEAN /\ windows \in Nat
  /\ claude \in {"none", "booting", "prompt", "working", "finished"} /\ (claude = "none" <=> windows = 0)
  /\ seen \in {"unpolled", "nothing", "tools"}
  /\ pane \in 0 .. 1 /\ log \in Nat /\ steers \in Nat
  /\ need \in {"nothing", "user", "attention"} /\ fresh \in BOOLEAN
  /\ faults \in 0 .. MaxFaults

\* A step of the supervisor, of its Claude or of the world keeps these types.
LEMMA SupPlainStep ==
  ASSUME SupPlain, [SupNext]_supVars
  PROVE  SupPlain'
<1> USE SupervisorAssumption DEF SupPlain, Phases, NoWindow, Fault, loopVars, windowVars, statVars, worldVars
<1>0. ASSUME NoWindow \/ UNCHANGED windowVars
      PROVE  /\ windows' \in Nat /\ pane' \in 0 .. 1
             /\ claude' \in {"none", "booting", "prompt", "working", "finished"}
             /\ claude' = "none" <=> windows' = 0
  BY <1>0
<1>1. CASE UNCHANGED supVars
  BY <1>1 DEF supVars
<1>2. CASE World
  <2>1. CASE NeedChanges \/ MonitorChanges
    <3>1. (~fresh) \in BOOLEAN
      BY Zenon
    <3> QED
      BY <2>1, <3>1 DEF NeedChanges, MonitorChanges
  <2>2. CASE ClaudeBoots \/ ClaudeFinishes
    BY <2>2 DEF ClaudeBoots, ClaudeFinishes
  <2>3. CASE ClaudeActs
    BY <2>3 DEF ClaudeActs
  <2>4. CASE WindowGoes
    BY <2>4 DEF WindowGoes
  <2> QED
    BY <1>2, <2>1, <2>2, <2>3, <2>4 DEF World
<1>3. CASE SupStarts \/ SupShutdown
  <2>1. CASE SupStarts
    BY <2>1 DEF SupStarts
  <2>2. CASE SupShutdown
    <3>1. NoWindow \/ UNCHANGED windowVars
      BY <2>2 DEF SupShutdown, Quits
    <3> QED
      BY <1>0, <2>2, <3>1 DEF SupShutdown, Quits
  <2> QED
    BY <1>3, <2>1, <2>2
<1>4. CASE Connects \/ CleanupStale \/ Decides
  <2>1. CASE Connects
    BY <2>1 DEF Connects
  <2>2. CASE CleanupStale
    <3>1. (mine /\ windows > 0) \in BOOLEAN
      BY Zenon
    <3> QED
      BY <2>2, <3>1 DEF CleanupStale
  <2>3. CASE Decides
    BY <2>3 DEF Decides
  <2> QED
    BY <1>4, <2>1, <2>2, <2>3
<1>5. CASE CreatesWindow \/ PromptSeen \/ SendsPrompt \/ RecordsLaunch
  <2>1. CASE CreatesWindow
    BY <2>1 DEF CreatesWindow
  <2>2. CASE PromptSeen \/ SendsPrompt
    BY <2>2 DEF PromptSeen, SendsPrompt
  <2>3. CASE RecordsLaunch
    BY <2>3 DEF RecordsLaunch
  <2> QED
    BY <1>5, <2>1, <2>2, <2>3
<1>6. CASE Polls \/ Marks \/ KillsDaemonClaude
  <2>1. CASE Polls
    BY <2>1 DEF Polls
  <2>2. CASE Marks
    BY <2>2 DEF Marks
  <2>3. CASE KillsDaemonClaude
    <3>1. NoWindow \/ UNCHANGED windowVars
      BY <2>3 DEF KillsDaemonClaude
    <3> QED
      BY <1>0, <2>3, <3>1 DEF KillsDaemonClaude
  <2> QED
    BY <1>6, <2>1, <2>2, <2>3
<1>7. CASE UpdatesCounts \/ SyncsTokens \/ GoesOnLate
  <2>1. CountInterventionsFromLog \in Nat
    BY DEF CountInterventionsFromLog
  <2> QED
    BY <1>7, <2>1 DEF UpdatesCounts, SyncsTokens, GoesOnLate
<1>8. CASE SupFailures
  <2>1. CASE SupCrash \/ LaunchRefused \/ TypingFails \/ WaitTimesOut
    <3>1. CASE SupCrash
      <4>1. UNCHANGED <<windowVars, worldVars, log, steers>> /\ phase' = "off" /\ mine' = FALSE /\ seen' = "unpolled"
        BY <3>1 DEF SupCrash
      <4>2. faults' \in 0 .. MaxFaults
        BY <3>1 DEF SupCrash
      <4> QED
        BY <4>1, <4>2
    <3>2. CASE LaunchRefused
      BY <3>2 DEF LaunchRefused
    <3>3. CASE TypingFails
      BY <3>3 DEF TypingFails
    <3>4. CASE WaitTimesOut
      BY <3>4 DEF WaitTimesOut
    <3> QED
      BY <2>1, <3>1, <3>2, <3>3, <3>4
  <2>2. CASE StartupTimesOut
    <3>1. NoWindow \/ UNCHANGED windowVars
      BY <2>2 DEF StartupTimesOut, Quits
    <3>2. faults' \in 0 .. MaxFaults
      BY <2>2 DEF StartupTimesOut
    <3> QED
      BY <1>0, <2>2, <3>1, <3>2 DEF StartupTimesOut, Quits
  <2>3. CASE SendFailsOrGone
    BY <2>3 DEF SendFailsOrGone
  <2> QED
    BY <1>8, <2>1, <2>2, <2>3 DEF SupFailures
<1> QED
  BY <1>1, <1>2, <1>3, <1>4, <1>5, <1>6, <1>7, <1>8 DEF SupNext, SupSteps

\* A run uses MaxTokens tokens at most, so all runs together use MaxRuns times as many.
LEMMA SumBelow ==
  ASSUME NEW f \in [Runs -> 0 .. MaxTokens], NEW S \in SUBSET Runs
  PROVE  SumOf(f, S) \in 0 .. MaxRuns * MaxTokens
<1> USE SupervisorAssumption
<1>1. IsFiniteSet(Runs) /\ Cardinality(Runs) = MaxRuns
  BY FS_Interval DEF Runs
<1>2. IsFiniteSet(S) /\ Cardinality(S) \in Nat /\ Cardinality(S) <= MaxRuns
  BY <1>1, FS_Subset, FS_CardinalityType
<1>3. \A x \in S : f[x] \in Nat /\ f[x] \in Int /\ f[x] <= MaxTokens
  OBVIOUS
<1>4. SumOf(f, S) \in Nat
  BY <1>2, <1>3, SumType
<1>5. SumOf(f, S) <= MaxTokens * Cardinality(S)
  BY <1>2, <1>3, SumAtMost
<1>6. MaxTokens * Cardinality(S) <= MaxRuns * MaxTokens
  <2>1. PICK n \in Nat : n = Cardinality(S) /\ n <= MaxRuns
    BY <1>2
  <2>2. \A a, b, c \in Nat : a <= b => c * a <= b * c
    OBVIOUS
  <2> QED
    BY <2>1, <2>2
<1>7. MaxTokens * Cardinality(S) \in Int /\ MaxRuns * MaxTokens \in Int
  BY <1>2
<1> QED
  BY <1>4, <1>5, <1>6, <1>7

\* No run uses more tokens than it may.
LEMMA TokensStep ==
  ASSUME SupBooks, tokens \in [Runs -> 0 .. MaxTokens], [SupNext]_supVars
  PROVE  (tokens \in [Runs -> 0 .. MaxTokens])'
<1> USE SupervisorAssumption DEF NoWindow, windowVars
<1>1. CASE ClaudeActs
  <2>1. CASE runs \in Runs
    <3>1. tokens[runs] + 1 \in 0 .. MaxTokens
      BY <1>1, <2>1 DEF ClaudeActs
    <3> QED
      BY <1>1, <2>1, <3>1 DEF ClaudeActs
  <2>2. CASE runs \notin Runs
    BY <1>1, <2>2 DEF ClaudeActs
  <2> QED
    BY <2>1, <2>2
<1>2. CASE UNCHANGED tokens
  BY <1>2
<1>3. ClaudeActs \/ UNCHANGED tokens
  BY DEF SupNext, SupStarts, SupShutdown, SupSteps, SupFailures, World, NeedChanges, MonitorChanges,
     ClaudeBoots, ClaudeFinishes, WindowGoes, Quits, Connects, CleanupStale, Decides, CreatesWindow,
     PromptSeen, SendsPrompt, RecordsLaunch, Polls, Marks, KillsDaemonClaude, UpdatesCounts, SyncsTokens,
     GoesOnLate, SupCrash, LaunchRefused, TypingFails, StartupTimesOut, SendFailsOrGone, WaitTimesOut, supVars
<1> QED
  BY <1>1, <1>2, <1>3

\* Every variable of the supervisor keeps its type; what it counts stays within what its
\* runs can use.
THEOREM SupTypeCorrect == SupSpec => []SupTypeOK
<1> USE SupervisorAssumption
<1>1. SupInit => SupPlain /\ tokens \in [Runs -> 0 .. MaxTokens]
  <2> SUFFICES ASSUME SupInit PROVE SupPlain /\ tokens \in [Runs -> 0 .. MaxTokens]
    OBVIOUS
  <2>1. tokens \in [Runs -> 0 .. MaxTokens]
    BY DEF SupInit
  <2>2. /\ phase = "off" /\ mine = FALSE /\ windows = 0 /\ claude = "none" /\ seen = "unpolled"
        /\ pane = 0 /\ log = 0 /\ steers = 0 /\ need = "nothing" /\ fresh = FALSE /\ faults = 0
    BY DEF SupInit
  <2>3. mine \in BOOLEAN /\ fresh \in BOOLEAN
    BY <2>2, Zenon
  <2>4. phase \in Phases /\ windows \in Nat /\ pane \in 0 .. 1 /\ log \in Nat /\ steers \in Nat
        /\ faults \in 0 .. MaxFaults
    BY <2>2 DEF Phases
  <2>5. SupPlain
    BY <2>2, <2>3, <2>4 DEF SupPlain
  <2> QED
    BY <2>1, <2>5
<1>2. SupPlain /\ [SupNext]_supVars => SupPlain'
  BY SupPlainStep
<1>3. SupBooks /\ tokens \in [Runs -> 0 .. MaxTokens] /\ [SupNext]_supVars
        => (tokens \in [Runs -> 0 .. MaxTokens])'
  BY TokensStep
<1>4. SupPlain /\ SupBooks /\ tokens \in [Runs -> 0 .. MaxTokens] => SupTypeOK
  <2> SUFFICES ASSUME SupPlain, SupBooks, tokens \in [Runs -> 0 .. MaxTokens] PROVE SupTypeOK
    OBVIOUS
  <2>1. ASSUME NEW st, Counts(st, tokens, runs) PROVE st \in Stats
    <3>1. st \in [tokens : Nat, ids : SUBSET (1 .. runs)] /\ st.tokens = SumOf(tokens, st.ids)
      BY <2>1 DEF Counts
    <3>2. runs \in 0 .. MaxRuns
      BY DEF SupBooks
    <3>3. st.ids \in SUBSET Runs
      BY <3>1, <3>2 DEF Runs
    <3>4. st.tokens \in 0 .. MaxRuns * MaxTokens
      BY <3>1, <3>3, SumBelow
    <3> QED
      BY <3>1, <3>3, <3>4 DEF Stats
  <2>2. mem \in Stats /\ (disk # Torn => disk \in Stats)
    BY <2>1 DEF SupBooks
  <2>3. runs \in 0 .. MaxRuns
    BY DEF SupBooks
  <2> QED
    BY <2>2, <2>3 DEF SupPlain, SupTypeOK
<1> QED
  BY <1>1, <1>2, <1>3, <1>4, BooksKept, PTL DEF SupSpec

\* What no step's reason speaks of keeps its type too: the agent's turns, its window, the refund.
LEMMA OversightPlainStep ==
  ASSUME OversightTypeOK, Causes', [OversightNext]_oversightVars
  PROVE  OversightTypeOK'
<1> USE DEF recordVars, reportVars, procVars, agentVars
<1> DEFINE Plain ==
  /\ policy \in Policies /\ mode \in Modes /\ window \in BOOLEAN
  /\ event \in {"none", "Busy", "Stop", "SessionEnd"}
  /\ turns \in 0 .. MaxTurns /\ revives \in 0 .. MaxRevives /\ filings \in 0 .. MaxReports
  /\ expired \in BOOLEAN /\ refunded \in BOOLEAN
<1>0. Plain
  BY DEF OversightTypeOK
<1>1. /\ status' \in Statuses /\ deadline' \in Deadlines
      /\ file' \in Reports \cup {"none", "torn"} /\ filed' \subseteq Reports
      /\ inherited' \in Reports \cup {"none"}
      /\ reporter' \in [at : {"idle", "write"}, report : Reports \cup {"none"}]
      /\ follow' \in [Followers -> FollowStep] /\ list' \in [Listers -> ListStep] /\ daemon' \in DaemonStep
  BY DEF Reported, Causes, RecordTrue, FollowerTrue, ListerTrue, DaemonTrue
<1>2. Plain'
  <2> USE OversightAssumption
  <2>1. CASE UNCHANGED oversightVars
    BY <1>0, <2>1 DEF oversightVars
  <2>2. CASE Prompt \/ TurnEnds \/ WindowCloses
    <3>1. CASE Prompt
      BY <1>0, <3>1 DEF Prompt
    <3>2. CASE TurnEnds
      BY <1>0, <3>2 DEF TurnEnds
    <3>3. CASE WindowCloses
      BY <1>0, <3>3 DEF WindowCloses
    <3> QED
      BY <2>2, <3>1, <3>2, <3>3
  <2>3. CASE Revive \/ Kill
    <3>1. CASE Revive
      BY <1>0, <3>1 DEF Revive
    <3>2. CASE Kill
      BY <1>0, <3>2 DEF Kill
    <3> QED
      BY <2>3, <3>1, <3>2
  <2>4. CASE (\E r \in Reports : ReportBegins(r)) \/ ReportWrites
    BY <1>0, <2>4 DEF ReportBegins, ReportWrites
  <2>5. CASE DeadlinePasses
    BY <1>0, <2>5 DEF DeadlinePasses
  <2>6. ASSUME NEW f \in Followers, OwnDeadlinePasses(f) \/ Follow(f) \/ FollowInterrupted(f)
        PROVE  Plain'
    <3>1. UNCHANGED <<policy, mode, window, event, turns, revives, filings>> /\ (expired' = expired \/ expired' = TRUE)
      BY <2>6 DEF Follow, FollowInterrupted, OwnDeadlinePasses, FollowStart, FollowWatch, FollowStopped,
         FollowFails, FollowMarks, FollowMarksAgain, PollForReport, HandleReport, FollowRefunds, FollowExpires,
         FollowUnchanged
    <3>2. refunded' = refunded \/ refunded' = (refunded \/ status # "deleted")
      BY <2>6 DEF Follow, FollowInterrupted, OwnDeadlinePasses, FollowStart, FollowWatch, FollowStopped,
         FollowFails, FollowMarks, FollowMarksAgain, PollForReport, HandleReport, FollowRefunds, FollowExpires
    <3>3. refunded' \in BOOLEAN /\ expired' \in BOOLEAN
      BY <1>0, <3>1, <3>2, Zenon
    <3> QED
      BY <1>0, <3>1, <3>3
  <2>7. ASSUME NEW l \in Listers, ListSessions(l) PROVE Plain'
    <3>1. UNCHANGED <<policy, mode, window, event, turns, revives, filings, expired>>
      BY <2>7 DEF ListSessions, ListBegins, ListFirst, ListWrites, ListSecond, ListWritesAgain, ListRefunds,
         ListUpdates, ListUnchanged
    <3>2. refunded' = refunded \/ refunded' = (refunded \/ (list[l].done /\ status # "deleted"))
      BY <2>7 DEF ListSessions, ListBegins, ListFirst, ListWrites, ListSecond, ListWritesAgain, ListRefunds,
         ListUpdates
    <3>3. refunded' \in BOOLEAN
      BY <1>0, <3>2, Zenon
    <3> QED
      BY <1>0, <3>1, <3>3
  <2>8. CASE Tick \/ AutoArchiveDone
    <3>1. /\ UNCHANGED <<policy, mode, event, turns, revives, filings, expired, refunded>>
          /\ window' = window \/ window' = FALSE
      BY <2>8 DEF Tick, TickBegins, TickDetects, TickWrites, EnforceOversightTimeouts, EnforceDone,
         AutoArchiveDone, TickWithoutArchive, DaemonUnchanged
    <3> QED
      BY <1>0, <3>1
  <2> QED
    BY <2>1, <2>2, <2>3, <2>4, <2>5, <2>6, <2>7, <2>8 DEF OversightNext
<1> QED
  BY <1>1, <1>2 DEF OversightTypeOK

\* Every variable of the end of a child's work keeps its type.
THEOREM OversightTypeCorrect == OversightSpec => []OversightTypeOK
<1>1. OversightInit => OversightTypeOK
  <2> SUFFICES ASSUME OversightInit PROVE OversightTypeOK
    OBVIOUS
  <2>1. Causes
    BY CausesBegin
  <2>2. /\ follow \in [Followers -> FollowStep] /\ list \in [Listers -> ListStep] /\ daemon \in DaemonStep
    BY <2>1 DEF Causes, FollowerTrue, ListerTrue, DaemonTrue
  <2>3. /\ status \in Statuses /\ file \in Reports \cup {"none", "torn"} /\ deadline \in Deadlines
        /\ filed \subseteq Reports /\ inherited \in Reports \cup {"none"} /\ reporter \in [at : {"idle", "write"}, report : Reports \cup {"none"}]
    BY <2>1 DEF Reported, Causes, RecordTrue
  <2>4. turns \in 0 .. MaxTurns /\ revives \in 0 .. MaxRevives /\ filings \in 0 .. MaxReports
    BY OversightAssumption DEF OversightInit
  <2>5. window \in BOOLEAN /\ expired \in BOOLEAN /\ refunded \in BOOLEAN
    BY Zenon DEF OversightInit
  <2> QED
    BY <2>2, <2>3, <2>4, <2>5 DEF OversightInit, OversightTypeOK
<1>2. Causes /\ OversightTypeOK /\ [OversightNext]_oversightVars => OversightTypeOK'
  BY CausesStep, OversightPlainStep
<1> QED
  BY <1>1, <1>2, CausesKept, PTL DEF OversightSpec

\* The lock of the split layout is nobody's, or a run's; the user has two windows at most.
LEMMA SplitPlainStep ==
  ASSUME SplitTypeOK, LayoutTyped', [SplitNext]_splitVars
  PROVE  SplitTypeOK'
<1> USE DEF tmuxVars, Upset
<1> DEFINE Locks == {NoLockFile} \cup [by : Openers, written : BOOLEAN]
<1>0. setupLock \in Locks /\ ownWindows \in 0 .. 2
  BY DEF SplitTypeOK
<1>1. stage' \in [Openers -> RunStages] /\ panes' \in [SplitIds -> SUBSET BothPanes]
  BY DEF LayoutTyped
<1>2. NoLockFile' = NoLockFile
  BY DEF NoLockFile
<1> DEFINE Moves ==
  /\ setupLock' \in {setupLock, NoLockFile} \cup [by : Openers, written : BOOLEAN]
  /\ ownWindows' \in {ownWindows, 0} \/ (ownWindows < 2 /\ ownWindows' = ownWindows + 1)
<1>3. Moves
  <2>1. CASE UNCHANGED splitVars
    BY <2>1 DEF splitVars
  <2>2. ASSUME NEW p \in Openers, RunBegins(p) \/ RetriesLock(p) PROVE Moves
    <3>1. Creates(p) => setupLock' \in [by : Openers, written : BOOLEAN]
      BY DEF Creates
    <3> QED
      BY <2>2, <3>1 DEF RunBegins, RetriesLock
  <2>3. ASSUME NEW p \in Openers, WritesPid(p) \/ ProbesHolder(p) \/ RemovesStale(p) \/ RefusedEnds(p) PROVE Moves
    <3>1. WritesPid(p) => setupLock' \in {setupLock} \cup [by : Openers, written : BOOLEAN]
      BY DEF WritesPid
    <3> QED
      BY <2>3, <3>1 DEF WritesPid, ProbesHolder, RemovesStale, RefusedEnds
  <2>4. ASSUME NEW p \in Openers, Links(p) \/ FindsExisting(p) \/ Clears(p) \/ KillsStray(p) \/ CreatesSplit(p)
        PROVE  Moves
    BY <2>4 DEF Links, FindsExisting, Clears, KillsStray, CreatesSplit
  <2>5. ASSUME NEW p \in Openers, Respawns(p) \/ SplitsWindow(p) PROVE Moves
    BY <2>5 DEF Respawns, SplitsWindow, Finishes
  <2>6. ASSUME NEW p \in Openers, Detaches(p) \/ RunDies(p) PROVE Moves
    BY <2>6 DEF Detaches, RunDies
  <2>7. CASE PaneDies \/ UninstallsWindow \/ UninstallsView \/ UserOpensWindow
    BY <2>7 DEF PaneDies, UninstallsWindow, UninstallsView, UserOpensWindow
  <2> QED
    BY <2>1, <2>2, <2>3, <2>4, <2>5, <2>6, <2>7 DEF SplitNext, SetupStep
<1>4. setupLock' \in Locks /\ ownWindows' \in 0 .. 2
  BY <1>0, <1>3
<1> QED
  BY <1>1, <1>2, <1>4 DEF SplitTypeOK, RunStages, BothPanes

\* Every variable of the split layout keeps its type.
THEOREM SplitTypeCorrect == SplitSpec => []SplitTypeOK
<1>1. SplitInit => SplitTypeOK
  BY DEF SplitInit, SplitTypeOK, SettingUp
<1>2. LayoutTyped' /\ SplitTypeOK /\ [SplitNext]_splitVars => SplitTypeOK'
  BY SplitPlainStep
<1> QED
  BY <1>1, <1>2, LayoutKept, PTL DEF SplitSpec, LayoutInv

\* Of the free ports one is the smallest (_find_available_port).
LEMMA SmallestPort ==
  ASSUME NEW S, S \subseteq Nat, S # {}
  PROVE  \E n \in S : \A m \in S : n <= m
<1>1. PICK k \in S : TRUE
  OBVIOUS
<1> DEFINE T == {m \in S : m <= k}
<1>2. IsFiniteSet(T) /\ T \subseteq Int /\ T # {}
  <2>1. k \in Nat /\ IsFiniteSet(0 .. k)
    BY <1>1, FS_Interval
  <2>2. ASSUME NEW m \in S, m <= k PROVE m \in 0 .. k
    BY <2>1, <2>2
  <2> QED
    <3>1. T \subseteq 0 .. k
      BY <2>2
    <3>2. IsFiniteSet(T)
      BY <2>1, <3>1, FS_Subset
    <3>3. k \in T
      BY <2>1
    <3> QED
      BY <3>1, <3>2, <3>3
<1>3. Min(T) \in T /\ \A x \in T : Min(T) <= x
  BY <1>2, MinIsIn
<1>4. \A m \in S : Min(T) <= m
  <2>1. Min(T) \in Int /\ Min(T) <= k
    BY <1>2, <1>3
  <2> QED
    BY <1>3, <2>1
<1> QED
  BY <1>3, <1>4

\* A process serves one of the ports, and the port file names one.
LEMMA WebPlainStep ==
  ASSUME WebTypeOK, WebTyped', [WebNext]_webVars
  PROVE  WebTypeOK'
<1> USE WebAssumption DEF fileVars
<1> DEFINE Plain == port \in [Servers -> WebPorts] /\ portFile \in WebPorts \cup {0} /\ taken \subseteq WebPorts
<1>0. Plain
  BY DEF WebTypeOK
<1>1. ASSUME UNCHANGED webVars PROVE Plain'
  BY <1>0, <1>1 DEF webVars
<1>2. ASSUME Spawns PROVE Plain'
  <2> DEFINE free == {n \in WebPorts \ taken : ~ServesOn(n)}
  <2>1. free # {} => (CHOOSE n \in free : \A m \in free : n <= m) \in WebPorts
    <3>1. SUFFICES ASSUME free # {} PROVE (CHOOSE n \in free : \A m \in free : n <= m) \in WebPorts
      OBVIOUS
    <3>2. free \subseteq WebPorts /\ free \subseteq Nat
      OBVIOUS
    <3> HIDE DEF free
    <3>3. \E n \in free : \A m \in free : n <= m
      BY <3>1, <3>2, SmallestPort
    <3> QED
      BY <3>2, <3>3
  <2>2. UNCHANGED <<portFile, taken>> /\ (port' = port \/ (free # {} /\ \E r \in Servers :
          port' = [port EXCEPT ![r] = CHOOSE n \in free : \A m \in free : n <= m]))
    BY <1>2 DEF Spawns
  <2> HIDE DEF free
  <2> DEFINE new == CHOOSE n \in free : \A m \in free : n <= m
  <2>3. port' = port \/ (new \in WebPorts /\ \E r \in Servers : port' = [port EXCEPT ![r] = new])
    BY <2>1, <2>2
  <2> HIDE DEF new
  <2> QED
    BY <1>0, <2>2, <2>3
<1>3. ASSUME Asks \/ Watches \/ CleansStale \/ SendsTerm \/ AwaitsEnd \/ RemovesPid \/ RemovesPort PROVE Plain'
  BY <1>0, <1>3 DEF Asks, Watches, CleansStale, SendsTerm, AwaitsEnd, RemovesPid, RemovesPort
<1>4. ASSUME OtherTakesPort PROVE Plain'
  BY <1>0, <1>4 DEF OtherTakesPort
<1>5. ASSUME NEW r \in Servers, ServerStep(r) \/ ServerCrashes(r) PROVE Plain'
  BY <1>0, <1>5 DEF ServerStep, ServerCrashes, WritesName, WritesPort, InstallsHandlers, Binds, RemovesBoth
<1>6. Plain'
  BY <1>1, <1>2, <1>3, <1>4, <1>5 DEF WebNext, CallStep
<1> QED
  BY <1>6 DEF WebTyped, WebTypeOK, ServerStages

\* Every variable of the web server keeps its type.
THEOREM WebTypeCorrect == WebSpec => []WebTypeOK
<1>1. WebInit => WebTypeOK
  BY WebAssumption DEF WebInit, WebTypeOK, Idle
<1>2. WebTyped' /\ WebTypeOK /\ [WebNext]_webVars => WebTypeOK'
  BY WebPlainStep
<1> QED
  BY <1>1, <1>2, WebKept, PTL DEF WebSpec, WebInv

-----------------------------------------------------------------------------
(* All parts together *)

\* In the behaviours that TLC runs each part behaves as its own specification has it.
LEMMA DaemonParts == MCSpec => Spec /\ SupSpec /\ OversightSpec /\ SplitSpec /\ WebSpec
<1> DEFINE all == <<part, vars, supVars, oversightVars, splitVars, webVars>>
<1>1. MCInit => Init /\ SupInit /\ OversightInit /\ SplitInit /\ WebInit
  BY DEF MCInit
<1>2. [MCNext]_all =>
        /\ [Next]_vars /\ [SupNext]_supVars /\ [OversightNext]_oversightVars
        /\ [SplitNext]_splitVars /\ [WebNext]_webVars
  BY DEF MCNext
<1> QED
  BY <1>1, <1>2, PTL DEF MCSpec, Spec, SupSpec, OversightSpec, SplitSpec, WebSpec

\* What a run shows of three daemons, of one follower and one lister, of two windows and
\* of three servers holds for any number of each.
THEOREM DaemonsAreSafe ==
  MCSpec => /\ [](OneDaemonIsSeen /\ OneClaudeCountedOnce /\ ExitCodeIsTrue /\ ServerIsNamed)
            /\ DoneHasACause /\ OneLayout
  BY DaemonParts, DaemonIsSeen, ClaudeCounted, ExitCodesTrue, ServerFound, DoneOnlyWithCause, LayoutIsOne, PTL

\* Whatever part a behaviour shows, every variable of every part keeps its type.
THEOREM DaemonTypesCorrect == MCSpec => []TypesOK
  BY DaemonParts, PidTypeCorrect, SupTypeCorrect, OversightTypeCorrect, SplitTypeCorrect, WebTypeCorrect, PTL
  DEF TypesOK

=============================================================================
