----------------------------- MODULE SplitLayout ------------------------------
(***************************************************************************)
(* `overcode tmux': a tmux window with the monitor above and the terminals *)
(* of the agents below, set up again by every run of the command, whatever *)
(* an earlier one, a crash, an uninstall or the user has left.  A lock     *)
(* file keeps two runs from setting it up at once.  A run outside tmux     *)
(* becomes the tmux client by exec.                                        *)
(*                                                                         *)
(* Every run is a process with a pid of its own.  The session "overcode"   *)
(* exists while it has a window; the windows are the split windows and     *)
(* those that a user has in a session of this name.                        *)
(***************************************************************************)
EXTENDS Naturals, FiniteSets

CONSTANTS
  Openers,        \* runs of `overcode tmux'
  SplitIds,    \* windows that may be called overcode-tmux
  MaxUpsets    \* bound on deaths, deaths of panes, uninstalls and user windows

\* A run is a process with a pid.
ASSUME SplitAssumption == MaxUpsets \in Nat /\ IsFiniteSet(Openers) /\ "none" \notin Openers

VARIABLES
  setupLock,   \* tmux-setup.lock: whose it is, and whether the pid is in it yet
  stage,       \* where each process is
  inside,      \* the runs with TMUX in their environment
  panes,       \* the panes of each split window
  view,        \* the linked session oc-view-<session> exists
  ownWindows,  \* windows of the user in the session "overcode"
  raced,       \* history: a lock was removed whose owner was alive
  disturbed,   \* history: something else happened while a run set up
  upsets

splitVars == <<setupLock, stage, inside, panes, view, ownWindows, raced, disturbed, upsets>>
tmuxVars == <<panes, view, ownWindows>>

NoLockFile == [by |-> "none", written |-> FALSE]

SettingUp == {"link", "find", "respawn", "clear", "stray", "create", "split"}

StillRuns(p) == stage[p] \notin {"unborn", "ended"}

SplitWindows == {w \in SplitIds : panes[w] # {}}
HasSession == SplitWindows # {} \/ ownWindows > 0

GoesTo(p, to) == stage' = [stage EXCEPT ![p] = to]

-----------------------------------------------------------------------------
(* _acquire_setup_lock *)

Creates(p) ==
  /\ setupLock' = [by |-> p, written |-> FALSE]
  /\ GoesTo(p, "write")

RunBegins(p) ==
  /\ stage[p] = "unborn"
  /\ inside' \in {inside, inside \cup {p}}
  /\ IF setupLock = NoLockFile THEN Creates(p) ELSE GoesTo(p, "probe") /\ UNCHANGED setupLock
  /\ UNCHANGED <<tmuxVars, raced, disturbed, upsets>>

\* os.write goes to the file that was created, which may have been removed.
WritesPid(p) ==
  /\ stage[p] = "write"
  /\ setupLock' = IF setupLock.by = p THEN [by |-> p, written |-> TRUE] ELSE setupLock
  /\ GoesTo(p, "link")
  /\ disturbed' = FALSE
  /\ UNCHANGED <<inside, tmuxVars, raced, upsets>>

\* A file that is gone, still empty, or of a process that has ended, is stale.
ProbesHolder(p) ==
  /\ stage[p] = "probe"
  /\ GoesTo(p, IF setupLock.written /\ StillRuns(setupLock.by) THEN "refused" ELSE "stale")
  /\ UNCHANGED <<setupLock, inside, tmuxVars, raced, disturbed, upsets>>

\* The file that is removed may no longer be the one that was looked at.
RemovesStale(p) ==
  /\ stage[p] = "stale"
  /\ raced' = (raced \/ (setupLock # NoLockFile /\ StillRuns(setupLock.by)))
  /\ setupLock' = NoLockFile
  /\ GoesTo(p, "retry")
  /\ UNCHANGED <<inside, tmuxVars, disturbed, upsets>>

RetriesLock(p) ==
  /\ stage[p] = "retry"
  /\ IF setupLock = NoLockFile THEN Creates(p) ELSE GoesTo(p, "refused") /\ UNCHANGED setupLock
  /\ UNCHANGED <<inside, tmuxVars, raced, disturbed, upsets>>

RefusedEnds(p) ==
  /\ stage[p] = "refused" /\ GoesTo(p, "ended")
  /\ UNCHANGED <<setupLock, inside, tmuxVars, raced, disturbed, upsets>>

\* The end of the try block: the lock is released, but not by a process that
\* has become the client, or a client that found no session.
Finishes(p) ==
  IF p \in inside
  THEN GoesTo(p, "ended") /\ setupLock' = NoLockFile
  ELSE GoesTo(p, IF HasSession THEN "attached" ELSE "ended") /\ UNCHANGED setupLock

-----------------------------------------------------------------------------
(* _tmux_layout_locked *)

Links(p) ==
  /\ stage[p] = "link"
  /\ view' = TRUE
  /\ GoesTo(p, "find")
  /\ UNCHANGED <<setupLock, inside, panes, ownWindows, raced, disturbed, upsets>>

\* Mutant: only the top pane is looked at.
TopPaneRuns(w) == "monitor" \in panes[w]

\* _is_split_window_healthy
Healthy(w) == panes[w] = {"monitor", "terminal"}

\* tmux lists windows in an order of its own: if there are several, any.
FindsExisting(p) ==
  /\ stage[p] = "find"
  /\ IF SplitWindows = {} THEN GoesTo(p, "stray")
     ELSE \E w \in SplitWindows : GoesTo(p, IF Healthy(w) THEN "respawn" ELSE "clear")
  /\ UNCHANGED <<setupLock, inside, tmuxVars, raced, disturbed, upsets>>

\* Inside tmux the monitor is not restarted if the client cannot be determined.
\* The top pane is restarted, which may no longer be the monitor.
Respawns(p) ==
  /\ stage[p] = "respawn"
  /\ \/ \E w \in SplitWindows :
          panes' = [panes EXCEPT ![w] = IF "monitor" \in @ THEN @ ELSE {"monitor"}]
     \/ (p \in inside \/ SplitWindows = {}) /\ UNCHANGED panes
  /\ Finishes(p)
  /\ UNCHANGED <<inside, view, ownWindows, raced, disturbed, upsets>>

\* The window, the session with all its windows and the linked session are
\* killed, and the linked session is made again.
Clears(p) ==
  /\ stage[p] = "clear"
  /\ panes' = [w \in SplitIds |-> {}] /\ ownWindows' = 0
  /\ view' = TRUE
  /\ GoesTo(p, "stray")
  /\ UNCHANGED <<setupLock, inside, raced, disturbed, upsets>>

\* A session with one window, and that not ours, is taken for a stale one.
KillsStray(p) ==
  /\ stage[p] = "stray"
  /\ ownWindows' = IF SplitWindows = {} /\ ownWindows = 1 THEN 0 ELSE ownWindows
  /\ GoesTo(p, "create")
  /\ UNCHANGED <<setupLock, inside, panes, view, raced, disturbed, upsets>>

\* new-session or new-window
CreatesSplit(p) ==
  /\ stage[p] = "create"
  /\ \E w \in SplitIds \ SplitWindows : panes' = [panes EXCEPT ![w] = {"monitor"}]
  /\ GoesTo(p, "split")
  /\ UNCHANGED <<setupLock, inside, view, ownWindows, raced, disturbed, upsets>>

SplitsWindow(p) ==
  /\ stage[p] = "split"
  /\ \/ \E w \in SplitWindows :
          panes' = [panes EXCEPT ![w] = IF view THEN @ \cup {"terminal"} ELSE @]
     \/ SplitWindows = {} /\ UNCHANGED panes
  /\ Finishes(p)
  /\ UNCHANGED <<inside, view, ownWindows, raced, disturbed, upsets>>

SetupStep(p) ==
  \/ RunBegins(p) \/ WritesPid(p) \/ ProbesHolder(p) \/ RemovesStale(p) \/ RetriesLock(p)
  \/ RefusedEnds(p) \/ Links(p) \/ FindsExisting(p) \/ Respawns(p) \/ Clears(p)
  \/ KillsStray(p) \/ CreatesSplit(p) \/ SplitsWindow(p)

-----------------------------------------------------------------------------
(* The user and accidents *)

\* action_quit in the split layout detaches the client; so does the user.
Detaches(p) ==
  /\ stage[p] = "attached" /\ GoesTo(p, "ended")
  /\ UNCHANGED <<setupLock, inside, tmuxVars, raced, disturbed, upsets>>

\* What happens to the windows or to a run from outside.
Upset ==
  /\ upsets < MaxUpsets /\ upsets' = upsets + 1
  /\ disturbed' = TRUE

\* The lock stays if the process is killed, not if it is interrupted.
RunDies(p) ==
  /\ stage[p] \in SettingUp \cup {"write"}
  /\ GoesTo(p, "ended")
  /\ setupLock' \in IF stage[p] = "write" THEN {setupLock} ELSE {setupLock, NoLockFile}
  /\ Upset
  /\ UNCHANGED <<inside, tmuxVars, raced>>

PaneDies ==
  /\ \E w \in SplitWindows : \E pane \in panes[w] : panes' = [panes EXCEPT ![w] = @ \ {pane}]
  /\ Upset
  /\ UNCHANGED <<setupLock, stage, inside, view, ownWindows, raced>>

\* --uninstall, which takes no lock: the window, then the linked sessions,
\* with the panes attached to them.
UninstallsWindow ==
  /\ \E w \in SplitWindows : panes' = [panes EXCEPT ![w] = {}]
  /\ Upset
  /\ UNCHANGED <<setupLock, stage, inside, view, ownWindows, raced>>

UninstallsView ==
  /\ view /\ view' = FALSE
  /\ panes' = [w \in SplitIds |-> panes[w] \ {"terminal"}]
  /\ Upset
  /\ UNCHANGED <<setupLock, stage, inside, ownWindows, raced>>

UserOpensWindow ==
  /\ ownWindows < 2 /\ ownWindows' = ownWindows + 1
  /\ Upset
  /\ UNCHANGED <<setupLock, stage, inside, panes, view, raced>>

SplitInit ==
  /\ setupLock = NoLockFile
  /\ stage = [p \in Openers |-> "unborn"] /\ inside = {}
  /\ panes = [w \in SplitIds |-> {}] /\ view = FALSE /\ ownWindows = 0
  /\ raced = FALSE /\ disturbed = FALSE /\ upsets = 0

SplitNext ==
  \/ \E p \in Openers : SetupStep(p) \/ Detaches(p) \/ RunDies(p)
  \/ PaneDies \/ UninstallsWindow \/ UninstallsView \/ UserOpensWindow

SplitSpec == SplitInit /\ [][SplitNext]_splitVars

-----------------------------------------------------------------------------
(* Properties *)

SplitTypeOK ==
  /\ setupLock \in {NoLockFile} \cup [by : Openers, written : BOOLEAN]
  /\ stage \in [Openers -> SettingUp \cup {"unborn", "write", "probe", "stale", "retry",
                                          "refused", "attached", "ended"}]
  /\ panes \in [SplitIds -> SUBSET {"monitor", "terminal"}]
  /\ ownWindows \in 0 .. 2

\* A run that nothing disturbs leaves one split window, with both panes, over
\* whatever runs that died half way, panes that ended, an uninstall and windows
\* of the user have left; no two runs set up at the same time.  Not so once a
\* run has removed the lock of another that lives: it may do so when it finds
\* the lock before the pid is in it, or after another has replaced a stale one.
OneLayout ==
  [][~raced' =>
       /\ Cardinality({p \in Openers : stage'[p] \in SettingUp}) <= 1
       /\ \A p \in Openers :
            stage[p] \in {"respawn", "split"} /\ stage'[p] # stage[p] /\ ~disturbed'
              => \E w \in SplitIds : SplitWindows' = {w} /\ panes'[w] = {"monitor", "terminal"}
    ]_splitVars

\* "False if another instance is already setting up": no other run is refused.
RefusedWhileSettingUp ==
  [][\A p \in Openers : stage[p] # "refused" /\ stage'[p] = "refused"
       => \E q \in Openers \ {p} : stage[q] \in SettingUp \cup {"write"}]_splitVars
=============================================================================
