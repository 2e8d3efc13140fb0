----------------------------- MODULE MCMonitor -------------------------------
(***************************************************************************)
(* What the monitor daemon does at each tick, and what is made of it: the  *)
(* heartbeats, the time totals, the history of statuses and its timeline;  *)
(* the presence of the user; and what is typed into a pane, by the daemon  *)
(* and by others.  The modules share no variable, so a behaviour shows one *)
(* of them.                                                                *)
(***************************************************************************)
EXTENDS Heartbeat, TimeTracking, Timeline, PaneInput, Presence

CONSTANTS c1, c2, w1, d1, b1, Parts

VARIABLE part

MCModes == {"hooks", "polling"}
MCSends == {c1, c2}
MCTmuxWindows == {w1}
MCLoggers == {d1, b1}
MCDaemonLoggers == {d1}

\* A module that is not shown stays in one of its initial states.
MCInit ==
  /\ part \in Parts
  /\ Init /\ (part # "heartbeat" => mode = "hooks" /\ conf.heartbeat = "off")
  /\ TimeInit
  /\ TimelineInit
  /\ PaneInputInit
  /\ PresenceInit /\ (part # "presence" => quartz = FALSE)

otherVars == <<timelineVars, inputVars, presenceVars>>

\* Once every call made was disturbed the typing shows nothing more;
\* without Quartz only the daemon logs.
MCNext ==
  \/ part = "heartbeat" /\ Next /\ UNCHANGED <<part, timeVars, otherVars>>
  \/ part = "time" /\ TimeNext /\ UNCHANGED <<part, vars, otherVars>>
  \/ part = "timeline" /\ TimelineNext /\ UNCHANGED <<part, vars, timeVars, inputVars, presenceVars>>
  \/ /\ part = "input" /\ \E w \in Sends : alone[w] \/ send[w].at = "unmade"
     /\ PaneInputNext /\ UNCHANGED <<part, vars, timeVars, timelineVars, presenceVars>>
  \/ /\ part = "presence" /\ PresenceNext /\ (quartz \/ logger'[b1].at = "off")
     /\ UNCHANGED <<part, vars, timeVars, timelineVars, inputVars>>

MCSpec == MCInit /\ [][MCNext]_<<part, vars, timeVars, otherVars>>

\* The fairness of Heartbeat, in the behaviours that show it.
MCFairSpec ==
  /\ MCSpec
  /\ WF_vars(part = "heartbeat" /\ Starts)
  /\ WF_vars(part = "heartbeat" /\ Tick)
  /\ WF_vars(part = "heartbeat" /\ ShowsIdle)
=============================================================================
