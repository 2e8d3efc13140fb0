----------------------------- MODULE BottomPane ------------------------------
(***************************************************************************)
(* What a TUI shows of the windows of its agents: the window it selects in *)
(* the bottom pane of the split layout, for an agent of another machine a  *)
(* window that runs ssh, for one without a window a placeholder; and what  *)
(* it captures of its panes, which it finds through objects that it holds  *)
(* for 30 seconds.  Windows are found by name, and two of one name by none *)
(* of the look-ups.                                                        *)
(***************************************************************************)
EXTENDS Naturals, FiniteSets

CONSTANTS
  Tuis,        \* TUIs of one tmux session
  OwnAgents,   \* agents of this machine, named as their windows
  SshAgents,   \* agents of other machines that are reached by ssh
  Placeholder, \* the window oc-empty
  Unborn, Shut, \* a window not yet opened, one that was closed
  NoAgentShown,
  MaxWindows,  \* bound on the windows ever opened
  MaxTurns     \* bound on closed windows and on TUIs that end

\* Windows are named "name-1a2b", "ssh:host:name" and "oc-empty".
ASSUME BottomPaneAssumption ==
  /\ MaxWindows \in Nat /\ MaxTurns \in Nat
  /\ OwnAgents \cap SshAgents = {}
  /\ {Placeholder, Unborn, Shut, NoAgentShown} \cap (OwnAgents \cup SshAgents) = {}
  /\ Placeholder # Unborn /\ Placeholder # Shut /\ Unborn # Shut

VARIABLES
  winName,   \* name of each window, in the order they were opened
  alive,     \* TUIs that run
  onAgent,   \* the agent each TUI has selected
  shownWin,  \* the window in its bottom pane, 0 for one that tmux chose
  sshKnown,  \* the ssh windows it remembers
  making,    \* the agent whose ssh window it is about to open
  heldPane,  \* the pane it holds for each agent, 0 for none
  captured,  \* the window whose content it captured last, 0 if it found none
  calm,      \* history: its windows are as they were when it selected one
  crossed,   \* history: two TUIs opened a window of one name at a time
  turns

bottomVars == <<winName, alive, onAgent, shownWin, sshKnown, making, heldPane, captured,
                calm, crossed, turns>>
lookVars == <<onAgent, shownWin, making, calm>>
holdVars == <<heldPane, captured>>

WinIds == 1 .. MaxWindows
Blank == MaxWindows + 1    \* the empty content of a pane that is gone
Live(names) == {i \in WinIds : names[i] \notin {Unborn, Shut}}
Called(n) == {i \in WinIds : winName[i] = n}
Fresh == Cardinality({i \in WinIds : winName[i] # Unborn}) + 1
CanOpen == Fresh \in WinIds

\* Windows that close: tmux shows another one, which a TUI did not choose.
Close(ids) ==
  /\ winName' = [i \in WinIds |-> IF i \in ids THEN Shut ELSE winName[i]]
  /\ shownWin' = [t \in Tuis |-> IF shownWin[t] \in ids THEN 0 ELSE shownWin[t]]
  /\ calm' = [t \in Tuis |-> calm[t] /\ shownWin[t] \notin ids]

-----------------------------------------------------------------------------
(* RealTmux: panes are held for 30 seconds, or until a command fails *)

\* _get_pane: what is held, else the window of that name.
PaneFor(t, a) ==
  IF heldPane[t][a] # 0 THEN heldPane[t][a]
  ELSE IF Cardinality(Called(a)) = 1 THEN CHOOSE i \in Called(a) : TRUE ELSE 0

\* capture_pane: libtmux returns nothing, and raises nothing, for a pane that
\* is gone.
CapturesPane(t, a) ==
  /\ alive[t]
  /\ LET p == PaneFor(t, a)
     IN /\ heldPane' = [heldPane EXCEPT ![t][a] = p]
        /\ captured' = [captured EXCEPT ![t][a] =
                          IF p = 0 \/ p \in Live(winName) THEN p ELSE Blank]
  /\ UNCHANGED <<winName, alive, lookVars, sshKnown, crossed, turns>>

\* Mutant: a pane that is used stays held, only a failed look-up forgets it.
ForgetsUnused(t, a) ==
  /\ heldPane[t][a] # 0 /\ captured[t][a] = 0
  /\ heldPane' = [heldPane EXCEPT ![t][a] = 0]
  /\ UNCHANGED <<winName, alive, lookVars, sshKnown, captured, crossed, turns>>

\* invalidate_cache, or 30 seconds after the look-up.
Forgets(t, a) ==
  /\ heldPane[t][a] # 0
  /\ heldPane' = [heldPane EXCEPT ![t][a] = 0]
  /\ UNCHANGED <<winName, alive, lookVars, sshKnown, captured, crossed, turns>>

-----------------------------------------------------------------------------
(* The agents' windows *)

\* An agent is launched or revived: the TUI does not select again.
AgentOpens(a) ==
  /\ Called(a) = {} /\ CanOpen
  /\ winName' = [winName EXCEPT ![Fresh] = a]
  /\ calm' = [t \in Tuis |-> calm[t] /\ onAgent[t] # a]
  /\ UNCHANGED <<alive, onAgent, shownWin, sshKnown, making, holdVars, crossed, turns>>

\* An agent is killed, an ssh connection ends, a user closes the window.
WindowShuts(i) ==
  /\ i \in Live(winName) /\ turns < MaxTurns
  /\ Close({i})
  /\ turns' = turns + 1
  /\ UNCHANGED <<alive, onAgent, sshKnown, making, holdVars, crossed>>

-----------------------------------------------------------------------------
(* _sync_tmux_window, when an agent is selected *)

\* TUI t selects agent a and shows window i of the windows now there.
Turns(t, a, i) ==
  /\ onAgent' = [onAgent EXCEPT ![t] = a]
  /\ shownWin' = [shownWin EXCEPT ![t] = i]
  /\ calm' = [calm EXCEPT ![t] = TRUE]

\* The agent's own window.
ShowsWindow(t, a) ==
  /\ alive[t] /\ making[t] = NoAgentShown /\ a \in OwnAgents
  /\ \E i \in Called(a) : Turns(t, a, i)
  /\ UNCHANGED <<winName, alive, sshKnown, making, holdVars, crossed, turns>>

\* ensure_empty_placeholder_window: it is opened once; where is it then?
EnsuresPlaceholder(i) ==
  IF Called(Placeholder) # {} THEN i \in Called(Placeholder) /\ UNCHANGED winName
  ELSE i = Fresh /\ CanOpen /\ winName' = [winName EXCEPT ![i] = Placeholder]

\* _select_empty_placeholder, for an agent without a window.
ShowsPlaceholder(t, a) ==
  /\ alive[t] /\ making[t] = NoAgentShown /\ a \in OwnAgents /\ Called(a) = {}
  /\ \E i \in WinIds : EnsuresPlaceholder(i) /\ Turns(t, a, i)
  /\ UNCHANGED <<alive, sshKnown, making, holdVars, crossed, turns>>

\* _get_or_create_ssh_proxy: a window that it remembers and that is there.
ShowsProxy(t, r) ==
  /\ alive[t] /\ making[t] = NoAgentShown /\ r \in sshKnown[t] /\ Called(r) # {}
  /\ IF Cardinality(Called(r)) = 1 THEN \E i \in Called(r) : Turns(t, r, i)
     ELSE Turns(t, r, shownWin[t])
  /\ UNCHANGED <<winName, alive, sshKnown, making, holdVars, crossed, turns>>

\* Mutant: windows of the name that others left are kept.
KeepsStale(t, r) ==
  /\ alive[t] /\ making[t] = NoAgentShown /\ (r \in sshKnown[t] => Called(r) = {})
  /\ making' = [making EXCEPT ![t] = r]
  /\ sshKnown' = [sshKnown EXCEPT ![t] = @ \ {r}]
  /\ crossed' = (crossed \/ \E u \in Tuis \ {t} : making[u] = r)
  /\ UNCHANGED <<winName, alive, onAgent, shownWin, calm, holdVars, turns>>

\* Without one it first closes the windows of that name that others left ...
ClosesStale(t, r) ==
  /\ alive[t] /\ making[t] = NoAgentShown /\ (r \in sshKnown[t] => Called(r) = {})
  /\ Close(Called(r))
  /\ making' = [making EXCEPT ![t] = r]
  /\ sshKnown' = [sshKnown EXCEPT ![t] = @ \ {r}]
  /\ crossed' = (crossed \/ \E u \in Tuis \ {t} : making[u] = r)
  /\ UNCHANGED <<alive, onAgent, holdVars, turns>>

\* ... and then opens its own.
OpensProxy(t) ==
  /\ making[t] # NoAgentShown /\ CanOpen
  /\ winName' = [winName EXCEPT ![Fresh] = making[t]]
  /\ sshKnown' = [sshKnown EXCEPT ![t] = @ \cup {making[t]}]
  /\ IF Called(making[t]) = {} THEN Turns(t, making[t], Fresh)
     ELSE Turns(t, making[t], shownWin[t])
  /\ making' = [making EXCEPT ![t] = NoAgentShown]
  /\ UNCHANGED <<alive, holdVars, crossed, turns>>

-----------------------------------------------------------------------------
(* Start and end of a TUI *)

\* _cleanup_stale_ssh_proxies closes the ssh windows of every TUI.
TuiStarts(t) ==
  /\ ~alive[t]
  /\ alive' = [alive EXCEPT ![t] = TRUE]
  /\ Close({i \in WinIds : winName[i] \in SshAgents})
  /\ UNCHANGED <<onAgent, sshKnown, making, holdVars, crossed, turns>>

\* What a process holds ends with it.
Drops(t) ==
  /\ alive' = [alive EXCEPT ![t] = FALSE]
  /\ onAgent' = [onAgent EXCEPT ![t] = NoAgentShown]
  /\ sshKnown' = [sshKnown EXCEPT ![t] = {}]
  /\ making' = [making EXCEPT ![t] = NoAgentShown]
  /\ heldPane' = [heldPane EXCEPT ![t] = [a \in OwnAgents |-> 0]]
  /\ captured' = [captured EXCEPT ![t] = [a \in OwnAgents |-> 0]]
  /\ turns' = turns + 1

\* on_unmount: the windows it remembers, where there is one of the name.
TuiQuits(t) ==
  /\ alive[t] /\ making[t] = NoAgentShown /\ turns < MaxTurns
  /\ Drops(t)
  /\ Close({i \in WinIds : winName[i] \in sshKnown[t] /\ Cardinality(Called(winName[i])) = 1})
  /\ UNCHANGED crossed

TuiCrashes(t) ==
  /\ alive[t] /\ turns < MaxTurns
  /\ Drops(t)
  /\ UNCHANGED <<winName, shownWin, calm, crossed>>

-----------------------------------------------------------------------------

BottomInit ==
  /\ winName = [i \in WinIds |-> Unborn]
  /\ alive = [t \in Tuis |-> FALSE]
  /\ onAgent = [t \in Tuis |-> NoAgentShown]
  /\ shownWin = [t \in Tuis |-> 0]
  /\ sshKnown = [t \in Tuis |-> {}]
  /\ making = [t \in Tuis |-> NoAgentShown]
  /\ heldPane = [t \in Tuis |-> [a \in OwnAgents |-> 0]]
  /\ captured = [t \in Tuis |-> [a \in OwnAgents |-> 0]]
  /\ calm = [t \in Tuis |-> FALSE]
  /\ crossed = FALSE
  /\ turns = 0

BottomNext ==
  \/ \E t \in Tuis, a \in OwnAgents :
       CapturesPane(t, a) \/ Forgets(t, a) \/ ShowsWindow(t, a) \/ ShowsPlaceholder(t, a)
  \/ \E t \in Tuis, r \in SshAgents : ShowsProxy(t, r) \/ ClosesStale(t, r)
  \/ \E t \in Tuis : OpensProxy(t) \/ TuiStarts(t) \/ TuiQuits(t) \/ TuiCrashes(t)
  \/ \E a \in OwnAgents : AgentOpens(a)
  \/ \E i \in WinIds : WindowShuts(i)

BottomSpec == BottomInit /\ [][BottomNext]_bottomVars

\* Status workers capture every pane four times a second; time passes.
BottomFairness ==
  \A t \in Tuis, a \in OwnAgents :
    WF_bottomVars(CapturesPane(t, a)) /\ WF_bottomVars(Forgets(t, a))

BottomFairSpec == BottomSpec /\ BottomFairness

-----------------------------------------------------------------------------

\* The bottom pane shows the agent that the TUI selected last, or the
\* placeholder if that agent had no window, until its windows change: other
\* TUIs and the ssh windows that a crashed TUI left notwithstanding, as long as
\* two TUIs do not open the same ssh window at a time.
FocusIsShown ==
  \A t \in Tuis :
    alive[t] /\ calm[t] /\ ~crossed /\ making[t] = NoAgentShown /\ onAgent[t] # NoAgentShown =>
      /\ shownWin[t] # 0
      /\ IF Called(onAgent[t]) # {} THEN winName[shownWin[t]] = onAgent[t]
         ELSE winName[shownWin[t]] = Placeholder

\* What a TUI captures of an agent comes for ever from the window that has the
\* agent's name at the end, and from none if there is none: the pane held for
\* an earlier window of that name is given up.
CaptureCatchesUp ==
  \A t \in Tuis, a \in OwnAgents :
    <>[](alive[t] => captured[t][a] \in (IF Called(a) = {} THEN {0} ELSE Called(a)))
=============================================================================
