------------------------------- MODULE MCFront -------------------------------
(***************************************************************************)
(* What runs beside an agent or in front of the user: calls on the state   *)
(* file, a job, the hooks of an agent, the TUI.  The modules share no      *)
(* variable, so a behaviour shows one of them.                             *)
(***************************************************************************)
EXTENDS StateFile, JobLifecycle, HookState, TuiSessions, TuiView, TuiStalls, BottomPane, TLC

CONSTANTS w1, w2, w3, r1, l1, l2, h1, h2, a1, a2, a3, k1, k2, t1, t2, q1, r2

VARIABLE part

MCWriters == {w1, w2, w3}
MCReaders == {r1}
MCNoLegacy == {}
MCListers == {l1, l2}
MCHooks == {h1, h2}
MCAgents == {a1, a2, a3}
MCAlphabet == <<a1, a2, a3>>
MCParents == a1 :> NoAgent @@ a2 :> NoAgent @@ a3 :> a2
MCWorkers == {k1, k2}
MCTuis == {t1, t2}
MCOwnAgents == {q1}
MCSshAgents == {r2}

\* A module that is not shown stays in one of its initial states.
MCInit ==
  /\ part \in {"file", "job", "hooks", "list", "view", "stall", "bottom"}
  /\ Init /\ HookInit /\ ViewInit
  /\ JobInit /\ (part # "job" => server = TRUE)
  /\ TuiInit /\ (part # "list" => windows = {})
  /\ StallInit /\ (part # "stall" => paneClass = "running" /\ visited = FALSE)
  /\ BottomInit

\* Once two TUIs opened a window of one name at a time only the captures go on.
MCNext ==
  \/ /\ part = "file" /\ Next
     /\ UNCHANGED <<part, jobVars, hookVars, tuiVars, viewVars, stallVars, bottomVars>>
  \/ /\ part = "job" /\ JobNext
     /\ UNCHANGED <<part, vars, hookVars, tuiVars, viewVars, stallVars, bottomVars>>
  \/ /\ part = "hooks" /\ HookNext
     /\ UNCHANGED <<part, vars, jobVars, tuiVars, viewVars, stallVars, bottomVars>>
  \/ /\ part = "list" /\ TuiNext
     /\ UNCHANGED <<part, vars, jobVars, hookVars, viewVars, stallVars, bottomVars>>
  \/ /\ part = "view" /\ ViewNext
     /\ UNCHANGED <<part, vars, jobVars, hookVars, tuiVars, stallVars, bottomVars>>
  \/ /\ part = "stall" /\ StallNext
     /\ UNCHANGED <<part, vars, jobVars, hookVars, tuiVars, viewVars, bottomVars>>
  \/ /\ part = "bottom" /\ BottomNext /\ (crossed => UNCHANGED <<winName, alive, onAgent>>)
     /\ UNCHANGED <<part, vars, jobVars, hookVars, tuiVars, viewVars, stallVars>>

MCSpec ==
  MCInit /\ [][MCNext]_<<part, vars, jobVars, hookVars, tuiVars, viewVars, stallVars, bottomVars>>

\* The fairness of the modules, each in the behaviours that show it.
MCFairSpec ==
  /\ MCSpec
  /\ \A w \in Writers : WF_vars(pc[w] # "idle" /\ WriterStep(w))
  /\ \A r \in Readers : WF_vars(pc[r] # "idle" /\ ReaderStep(r))
  /\ WF_jobVars(part = "job" /\ Launch)
  /\ WF_jobVars(part = "job" /\ Wrapper)
  /\ WF_jobVars(part = "job" /\ Ages)
  /\ \A l \in Listers : WF_jobVars(part = "job" /\ ListJobs(l))
  /\ \A h \in Hooks : WF_hookVars(HookStep(h))
  /\ WF_hookVars(part = "hooks" /\ LogAges)
  /\ WF_hookVars(part = "hooks" /\ DetectHook)
  /\ \A k \in ListWorkers :
       WF_tuiVars(part = "list" /\ FetchSessions(k)) /\ WF_tuiVars(part = "list" /\ ApplySessions(k))
  /\ WF_stallVars(part = "stall" /\ FetchStatus)
  /\ WF_stallVars(part = "stall" /\ ApplyStatus)
  /\ WF_stallVars(part = "stall" /\ TimePasses)
  /\ \A t \in Tuis, a \in OwnAgents :
       /\ WF_bottomVars(part = "bottom" /\ CapturesPane(t, a))
       /\ WF_bottomVars(part = "bottom" /\ Forgets(t, a))

-----------------------------------------------------------------------------
(* Properties *)

\* Every variable of every part keeps its type.
TypesOK == TypeOK /\ JobTypeOK /\ HookTypeOK /\ TuiTypeOK /\ ViewTypeOK /\ StallTypeOK
=============================================================================
