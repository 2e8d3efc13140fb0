------------------------------ MODULE MCDaemons ------------------------------
(***************************************************************************)
(* Processes that end each other, or wait for each other's end: the        *)
(* singleton protocol that both daemons use, the loop of the supervisor    *)
(* daemon, the end of a child agent's work (one follower, one lister, the  *)
(* daemon and one child), runs of `overcode tmux', the web server.  The    *)
(* modules share no variable, so a behaviour shows one of them.            *)
(***************************************************************************)
EXTENDS PidLock, SupervisorDaemon, Oversight, SplitLayout, WebServer

CONSTANTS d1, d2, d3, u1, u2, s1, s2, f1, l1, x1, x2, v1, v2, v3, Parts

VARIABLE part

MCPids == {d1, d2, d3}
MCProbers == {u1, u2}
MCStoppers == {s1, s2}
MCFollowers == {f1}
MCListers == {l1}
MCWindows == {x1, x2}
MCServers == {v1, v2, v3}
MCPorts == {1, 2}

\* A module that is not shown stays in one of its initial states.
MCInit ==
  /\ part \in Parts
  /\ Init /\ SupInit /\ SplitInit /\ WebInit
  /\ OversightInit
  /\ \/ event = "none" /\ file = "none" /\ (part # "oversight" => policy = "wait")
     \/ /\ part = "oversight" /\ policy = "wait" /\ mode = "hooks"
        /\ <<event, file>> \in {<<"Stop", "failure">>, <<"SessionEnd", "torn">>}

\* Bound: under the policy with the most states, Claude exits only during a turn.
LeavesAtWork ==
  policy = "timeout" /\ event' # event /\ event' = "SessionEnd" => event = "Busy"

\* What follows the removal of a live run's lock, or a server lost to its files,
\* is not asked about.
MCNext ==
  \/ part = "lock" /\ Next /\ UNCHANGED <<part, supVars, oversightVars, splitVars, webVars>>
  \/ part = "supervisor" /\ SupNext /\ UNCHANGED <<part, vars, oversightVars, splitVars, webVars>>
  \/ part = "oversight" /\ OversightNext /\ LeavesAtWork /\ UNCHANGED <<part, vars, supVars, splitVars, webVars>>
  \/ part = "split" /\ ~raced /\ SplitNext
     /\ UNCHANGED <<part, vars, supVars, oversightVars, webVars>>
  \/ part = "web" /\ ~lost /\ WebNext
     /\ UNCHANGED <<part, vars, supVars, oversightVars, splitVars>>

MCSpec == MCInit /\ [][MCNext]_<<part, vars, supVars, oversightVars, splitVars, webVars>>

\* The fairness of the modules, each in the behaviours that show it.
MCFairSpec ==
  /\ MCSpec
  /\ \A s \in Stoppers : WF_vars(part = "lock" /\ StopStep(s))
  /\ WF_supVars(part = "supervisor" /\ SupSteps)
  /\ WF_supVars(part = "supervisor" /\ WaitTimesOut)
  /\ WF_supVars(part = "supervisor" /\ windows = 0 /\ (StartupTimesOut \/ SendFailsOrGone))
  /\ WF_supVars(part = "supervisor" /\ ClaudeBoots)
  /\ WF_supVars(part = "supervisor" /\ ClaudeFinishes)
  /\ WF_oversightVars(part = "oversight" /\ DeadlinePasses)
  /\ WF_oversightVars(part = "oversight" /\ Tick)
  /\ \A f \in Followers :
       /\ WF_oversightVars(part = "oversight" /\ OwnDeadlinePasses(f))
       /\ WF_oversightVars(part = "oversight" /\ Follow(f))
  /\ \A l \in Listers : WF_oversightVars(part = "oversight" /\ ListSessions(l))

\* A follower polls twice a second: it even sees what lasts only for a while.
MCPollSpec == MCFairSpec /\ \A f \in Followers : SF_oversightVars(part = "oversight" /\ Follow(f))

-----------------------------------------------------------------------------
(* Properties *)

\* Every variable of every part keeps its type.
TypesOK == TypeOK /\ SupTypeOK /\ OversightTypeOK /\ SplitTypeOK /\ WebTypeOK
=============================================================================
