------------------------------ MODULE WebServer ------------------------------
(***************************************************************************)
(* The web server of a session: a process of its own, which the key w of   *)
(* the TUI, `overcode web' and `overcode monitor --restart' start and stop *)
(* by what its pid file and its port file say.  Unlike the daemons it      *)
(* takes no lock.                                                          *)
(*                                                                         *)
(* Calls are made one at a time.  A pid is not used again.                 *)
(***************************************************************************)
EXTENDS Naturals, FiniteSets

CONSTANTS
  Servers,      \* the processes of web_server_runner
  WebPorts,     \* the ports that a start tries, in order
  NoServer,     \* no pid file
  MaxMishaps    \* bound on crashes and on ports that other programs take

ASSUME WebAssumption ==
  /\ WebPorts \subseteq Nat \ {0} /\ WebPorts # {}
  /\ NoServer \notin Servers
  /\ MaxMishaps \in Nat

VARIABLES
  server,     \* where each process is
  port,       \* the port it was told to serve
  pidFile,    \* web_server.pid
  portFile,   \* web_server.port, 0 if there is none
  taken,      \* ports of other programs
  call,       \* where the caller is, and whom it stops
  wants,      \* what it does after a stop: "start" for --restart
  lost,       \* history: a start or a clean-up met a process it had not seen
  mishaps

webVars == <<server, port, pidFile, portFile, taken, call, wants, lost, mishaps>>
fileVars == <<pidFile, portFile>>

Idle == [at |-> "idle", whom |-> NoServer]
At(stage) == call' = [call EXCEPT !.at = stage]

Lives(r) == server[r] \notin {"unborn", "dead"}
ServesOn(n) == \E r \in Servers : server[r] = "serving" /\ port[r] = n

\* is_web_server_running
WebServerRunning == pidFile # NoServer /\ Lives(pidFile)

Becomes(r, stage) == server' = [server EXCEPT ![r] = stage]

-----------------------------------------------------------------------------
(* web_server_runner *)

WritesName(r) ==
  /\ server[r] = "starting" /\ Becomes(r, "named")
  /\ pidFile' = r
  /\ UNCHANGED <<port, portFile, taken, call, wants, lost, mishaps>>

WritesPort(r) ==
  /\ server[r] = "named" /\ Becomes(r, "bare")
  /\ portFile' = port[r]
  /\ UNCHANGED <<port, pidFile, taken, call, wants, lost, mishaps>>

InstallsHandlers(r) ==
  /\ server[r] = "bare" /\ Becomes(r, "armed")
  /\ UNCHANGED <<port, fileVars, taken, call, wants, lost, mishaps>>

Binds(r) ==
  /\ server[r] = "armed"
  /\ Becomes(r, IF port[r] \in taken \/ ServesOn(port[r]) THEN "failing" ELSE "serving")
  /\ UNCHANGED <<port, fileVars, taken, call, wants, lost, mishaps>>

\* The end after an error, and the handler of SIGTERM: whosever the files are.
RemovesBoth(r) ==
  /\ server[r] \in {"failing", "told"} /\ Becomes(r, "dead")
  /\ pidFile' = NoServer /\ portFile' = 0
  /\ UNCHANGED <<port, taken, call, wants, lost, mishaps>>

\* A process without handlers ends at once.
Signalled(r) ==
  Becomes(r, CASE server[r] \in {"armed", "serving", "failing", "told"} -> "told"
               [] OTHER -> "dead")

ServerStep(r) ==
  WritesName(r) \/ WritesPort(r) \/ InstallsHandlers(r) \/ Binds(r) \/ RemovesBoth(r)

ServerCrashes(r) ==
  /\ Lives(r) /\ Becomes(r, "dead")
  /\ mishaps < MaxMishaps /\ mishaps' = mishaps + 1
  /\ UNCHANGED <<port, fileVars, taken, call, wants, lost>>

OtherTakesPort ==
  /\ \E n \in WebPorts \ taken : ~ServesOn(n) /\ taken' = taken \cup {n}
  /\ mishaps < MaxMishaps /\ mishaps' = mishaps + 1
  /\ UNCHANGED <<server, port, fileVars, call, wants, lost>>

-----------------------------------------------------------------------------
(* start_web_server *)

Asks ==
  /\ call = Idle
  /\ wants' \in {"toggle", "start", "stop", "restart"}
  /\ call' = [Idle EXCEPT !.at =
       IF WebServerRunning
       THEN IF wants' = "start" THEN "idle" ELSE "stop"
       ELSE CASE wants' \in {"toggle", "start"} -> "find"
              [] wants' = "stop" -> "clean"
              [] OTHER -> "idle"]
  /\ UNCHANGED <<server, port, fileVars, taken, lost, mishaps>>

\* _find_available_port; the process is told the port that is free now.
Spawns ==
  /\ call.at = "find"
  /\ LET free == {n \in WebPorts \ taken : ~ServesOn(n)}
     IN IF free = {} THEN call' = Idle /\ UNCHANGED <<server, port, lost>>
        ELSE \E r \in Servers :
               /\ server[r] = "unborn" /\ Becomes(r, "starting")
               /\ port' = [port EXCEPT ![r] = CHOOSE n \in free : \A m \in free : n <= m]
               /\ lost' = (lost \/ \E q \in Servers : Lives(q) /\ server[q] # "told")
               /\ At("watch")
  /\ UNCHANGED <<fileVars, taken, wants, mishaps>>

\* It is watched for a second: the start succeeded when the process has written
\* its pid, bound or not, and failed when it has not yet.
Watches ==
  /\ call.at = "watch" /\ call' = Idle
  /\ UNCHANGED <<server, port, fileVars, taken, wants, lost, mishaps>>

-----------------------------------------------------------------------------
(* stop_web_server and stop_process *)

\* Files that name nobody are removed: perhaps no longer the same ones.
CleansStale ==
  /\ call.at = "clean" /\ call' = Idle
  /\ pidFile' = NoServer /\ portFile' = 0
  /\ lost' = (lost \/ WebServerRunning)
  /\ UNCHANGED <<server, port, taken, wants, mishaps>>

\* The file is read again.  It may be gone, or name a process that is.
SendsTerm ==
  /\ call.at = "stop"
  /\ IF WebServerRunning
     THEN Signalled(pidFile) /\ call' = [at |-> "await", whom |-> pidFile]
     ELSE At("remove") /\ UNCHANGED server
  /\ UNCHANGED <<port, fileVars, taken, wants, lost, mishaps>>

\* Mutant: the stop does not wait for the end of the process.
AwaitsNobody ==
  /\ call.at = "await" /\ At("remove")
  /\ UNCHANGED <<server, port, fileVars, taken, wants, lost, mishaps>>

\* After five seconds it is killed.
AwaitsEnd ==
  /\ call.at = "await"
  /\ server' = [server EXCEPT ![call.whom] = "dead"]
  /\ At("remove")
  /\ UNCHANGED <<port, fileVars, taken, wants, lost, mishaps>>

RemovesPid ==
  /\ call.at = "remove" /\ At("unport")
  /\ pidFile' = NoServer
  /\ UNCHANGED <<server, port, portFile, taken, wants, lost, mishaps>>

\* A restart goes on only if something was stopped.
RemovesPort ==
  /\ call.at = "unport"
  /\ portFile' = 0
  /\ call' = [Idle EXCEPT !.at =
       IF wants = "restart" /\ call.whom # NoServer /\ ~WebServerRunning THEN "find" ELSE "idle"]
  /\ UNCHANGED <<server, port, pidFile, taken, wants, lost, mishaps>>

CallStep ==
  \/ Asks \/ Spawns \/ Watches \/ CleansStale \/ SendsTerm \/ AwaitsEnd \/ RemovesPid \/ RemovesPort

WebInit ==
  /\ server = [r \in Servers |-> "unborn"]
  /\ port \in [Servers -> {CHOOSE n \in WebPorts : TRUE}]
  /\ pidFile = NoServer /\ portFile = 0
  /\ taken = {}
  /\ call = Idle /\ wants = "stop"
  /\ lost = FALSE /\ mishaps = 0

WebNext ==
  \/ CallStep \/ OtherTakesPort
  \/ \E r \in Servers : ServerStep(r) \/ ServerCrashes(r)

WebSpec == WebInit /\ [][WebNext]_webVars

-----------------------------------------------------------------------------
(* Properties *)

WebTypeOK ==
  /\ server \in [Servers -> {"unborn", "starting", "named", "bare", "armed", "serving", "failing",
                             "told", "dead"}]
  /\ port \in [Servers -> WebPorts]
  /\ pidFile \in Servers \cup {NoServer} /\ portFile \in WebPorts \cup {0}
  /\ taken \subseteq WebPorts
  /\ call.at \in {"idle", "find", "watch", "clean", "stop", "await", "remove", "unport"}

\* A server that runs can be found and stopped: the files name it and its port,
\* whatever crashed, was stopped at any step of its start, or found its port
\* taken before it.  Not so after a start, or the clean-up of a stop, that
\* another process met before it had written its pid: a start that takes longer
\* than a second is given up, and the next one finds nothing that runs.
ServerIsNamed ==
  ~lost =>
    \A r \in Servers :
      /\ server[r] \in {"named", "bare", "armed", "serving"} => pidFile = r
      /\ server[r] \in {"bare", "armed", "serving"} => portFile = port[r]
=============================================================================
