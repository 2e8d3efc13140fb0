------------------------------- MODULE MCReach -------------------------------
(***************************************************************************)
(* What reaches an agent or its record from elsewhere, and what is read    *)
(* off it: calls on the state file whose processes may die, the command    *)
(* bar, another machine, and the detector that looks at the pane.  The     *)
(* modules share no variable, so a behaviour shows one of them.            *)
(***************************************************************************)
EXTENDS StateFile, TuiCommands, Sisters, PollingDetector, TLC

CONSTANTS w1, w2, w3, r1, i1, i2, j1, n1, n2, h1, k1, k2

VARIABLE part

MCWriters == {w1, w2, w3}
MCReaders == {r1}
MCLegacy == {{w1}}
MCCmdAgents == {i1, i2, j1}
MCRemote == {j1}
MCNames == i1 :> n1 @@ i2 :> n1 @@ j1 :> n2
MCHosted == {h1}
MCPollers == {k1, k2}

\* A module that is not shown stays in one of its initial states.
MCInit ==
  /\ part \in {"file", "bar", "sisters", "pane"}
  /\ Init /\ (part # "file" => bak = Missing)
  /\ CmdInit /\ cursor = i1 /\ agents[i2] = NoSession /\ agents[j1] = Launched
  /\ SistersInit
  /\ PollingInit

MCNext ==
  \/ part = "file" /\ Next /\ UNCHANGED <<part, cmdVars, sisterVars, pollVars>>
  \/ part = "bar" /\ CmdNext /\ UNCHANGED <<part, vars, sisterVars, pollVars>>
  \/ part = "sisters" /\ SistersNext /\ UNCHANGED <<part, vars, cmdVars, pollVars>>
  \/ part = "pane" /\ PollingNext /\ UNCHANGED <<part, vars, cmdVars, sisterVars>>

MCSpec == MCInit /\ [][MCNext]_<<part, vars, cmdVars, sisterVars, pollVars>>

\* The fairness of the modules, each in the behaviours that show it.
MCFairSpec ==
  /\ MCSpec
  /\ \A w \in Writers : WF_vars(pc[w] # "idle" /\ WriterStep(w))
  /\ \A r \in Readers : WF_vars(pc[r] # "idle" /\ ReaderStep(r))
  /\ \A k \in Pollers : WF_sisterVars(part = "sisters" /\ PollerStep(k))
  /\ WF_sisterVars(part = "sisters" /\ Serves)
  /\ WF_sisterVars(part = "sisters" /\ CallEnds)
  /\ WF_sisterVars(part = "sisters" /\ Publishes)
  /\ WF_pollVars(part = "pane" /\ Detects)
  /\ WF_pollVars(part = "pane" /\ DetectTerminated)
  /\ WF_pollVars(part = "pane" /\ DetectsByHooks)

-----------------------------------------------------------------------------
(* Properties *)

\* Every variable of every part keeps its type.
TypesOK == TypeOK /\ CmdTypeOK /\ SistersTypeOK /\ PollingTypeOK
=============================================================================
