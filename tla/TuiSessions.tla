----------------------------- MODULE TuiSessions -----------------------------
(***************************************************************************)
(* The list of agents in the TUI: what other processes write to the state  *)
(* file, the worker threads that read it, the list and the widgets built   *)
(* from an answer, the agent that is selected, and the keys that act on    *)
(* it.  Workers of a group are exclusive, but a thread cannot be           *)
(* cancelled: an older answer may still be applied after a newer one.      *)
(*                                                                         *)
(* An agent has one class, which stands for its status, for the state that *)
(* sorts it and for is_asleep.  Left out: agents of sisters, tags, column  *)
(* widths and everything that is drawn.                                    *)
(***************************************************************************)
EXTENDS Integers, Sequences, FiniteSets, SequencesExt, FiniteSetsExt

CONSTANTS
  TuiAgents,  \* agents
  Alphabet,   \* the agents in the order of their names
  ParentOf,   \* parent_session_id of each, or NoAgent
  NoAgent,
  ListWorkers,\* _fetch_sessions_async threads at one time
  MaxEvents,  \* bound on what other processes do
  MaxInputs   \* bound on the keys the user presses

ASSUME TuiAssumption ==
  /\ NoAgent \notin TuiAgents
  /\ Alphabet \in Seq(TuiAgents)
  /\ ToSet(Alphabet) = TuiAgents /\ Len(Alphabet) = Cardinality(TuiAgents)
  /\ ParentOf \in [TuiAgents -> TuiAgents \cup {NoAgent}]
  /\ MaxEvents \in Nat /\ MaxInputs \in Nat

VARIABLES
  stateFile,  \* sessions.json: the class of each agent, or "absent"
  windows,    \* agents that have a tmux window
  fetch,      \* fetch[k]: the list a worker read and has not applied yet
  sessions,   \* self.sessions
  ghosts,     \* self._terminated_sessions, in the order they were killed
  dom,        \* the SessionSummary widgets, in the order they are mounted
  index,      \* self.focused_session_index
  focus,      \* self.focused: the widget of an agent, "bar", "modal" or "none"
  saved,      \* what a modal gives the focus back to
  view,       \* sort mode, classes displayed, collapsed parents
  barTarget,  \* target_session_id of the command bar
  pending,    \* self._pending_confirmations
  lastPress,  \* history: the agent that had the focus when x last asked for each
  events, inputs

tuiVars == <<stateFile, windows, fetch, sessions, ghosts, dom, index, focus, saved,
             view, barTarget, pending, lastPress, events, inputs>>
envVars == <<stateFile, windows, events>>
listVars == <<sessions, ghosts, dom, index, focus>>
keyVars == <<saved, view, barTarget, pending, lastPress, inputs>>

Classes == {"running", "waiting", "asleep", "done", "terminated"}
Active == {"running", "waiting", "asleep"}
NoFetch == [at |-> "idle", list |-> [a \in TuiAgents |-> "absent"]]

\* The elements of a sequence that are in a set, in their order.
Kept(seq, set) ==
  LET kept[i \in 0 .. Len(seq)] ==
        IF i = 0 THEN <<>> ELSE IF seq[i] \in set THEN Append(kept[i - 1], seq[i]) ELSE kept[i - 1]
  IN  kept[Len(seq)]

-----------------------------------------------------------------------------
(* tui_logic *)

\* STATUS_ORDER_BY_ATTENTION
Urgency == [running |-> 5, waiting |-> 0, asleep |-> 7, done |-> 6, terminated |-> 6]

NameRank(a) == CHOOSE i \in DOMAIN Alphabet : Alphabet[i] = a

\* The order of siblings in a sort mode.
ComesFirst(mode, list, a, b) ==
  LET urgency(c) == IF mode = "by_status" THEN Urgency[list[c]] ELSE 0
  IN \/ urgency(a) < urgency(b)
     \/ urgency(a) = urgency(b) /\ NameRank(a) < NameRank(b)

\* The agent and those above it, from the root down (compute_tree_metadata).
Lineage == [a \in TuiAgents |->
  LET up[n \in 0..Cardinality(TuiAgents)] ==
        IF n = 0 THEN <<a>>
        ELSE IF ParentOf[up[n - 1][1]] = NoAgent THEN up[n - 1]
        ELSE <<ParentOf[up[n - 1][1]]>> \o up[n - 1]
  IN up[Cardinality(TuiAgents)]]

\* _tree_aware_sort lists the roots, each followed by its children.  An agent
\* whose parent is not in the list is neither a root nor reached from one.
Reached(list) == {a \in TuiAgents : \A b \in ToSet(Lineage[a]) : list[b] # "absent"}

\* Where two lineages part, the one that ends there, or whose agent comes first, is walked first.
StandsAbove(mode, list, a, b) ==
  \E i \in DOMAIN Lineage[b] :
    /\ \A j \in 1..(i - 1) : j \in DOMAIN Lineage[a] /\ Lineage[a][j] = Lineage[b][j]
    /\ \/ i = Len(Lineage[a]) + 1
       \/ i \in DOMAIN Lineage[a] /\ ComesFirst(mode, list, Lineage[a][i], Lineage[b][i])

Sorted(mode, list) ==
  LET all == {[id |-> a, class |-> list[a]] : a \in Reached(list)}
  IN CHOOSE s \in [1 .. Cardinality(all) -> all] :
       \A i \in DOMAIN s : \A j \in 1 .. (i - 1) : StandsAbove(mode, list, s[j].id, s[i].id)

IdsOf(list) == [i \in DOMAIN list |-> list[i].id]
ListOf(list) == [a \in TuiAgents |->
  IF \E i \in DOMAIN list : list[i].id = a
  THEN (CHOOSE e \in ToSet(list) : e.id = a).class ELSE "absent"]

\* _get_collapsed_descendants
Descendants(parents) == {a \in TuiAgents : ToSet(Front(Lineage[a])) \cap parents # {}}

\* filter_visible_sessions: the agents that are displayed, ghosts at the end.
VisibleIds(list, dead, v) ==
  LET live == {e.id : e \in {x \in ToSet(list) : x.class \in v.shows \cup {"running", "waiting"}}}
      more == IF "terminated" \in v.shows THEN TuiAgents \ ToSet(IdsOf(list)) ELSE {}
      hidden == IF v.mode = "by_tree" THEN Descendants(v.collapsed) ELSE {}
  IN Kept(IdsOf(list), live \ hidden) \o Kept(dead, more \ hidden)

-----------------------------------------------------------------------------
(* Widgets and selection *)

\* _get_widgets_in_session_order
InSessionOrder(widgets, list) ==
  Kept(IdsOf(list), ToSet(widgets)) \o Kept(widgets, TuiAgents \ ToSet(IdsOf(list)))

Clamped(i, seq) == IF i < Len(seq) THEN i ELSE Len(seq) - 1

\* _get_focused_widget: the selected agent, or NoAgent when there is no widget.
SelectedIn(widgets, list, i) ==
  LET order == InSessionOrder(widgets, list)
  IN IF order = <<>> THEN NoAgent ELSE order[Clamped(i, order) + 1]

Selected == SelectedIn(dom, sessions, index)

\* update_session_widgets, for the new list, ghosts and view: the selection is
\* read, the widgets are brought up to date, and the index moves to the agent
\* that was selected or is clamped.  The watcher gives that widget the focus
\* if a widget had it.
UpdateWidgets(widgets) ==
  /\ dom' = VisibleIds(sessions', ghosts', view')
  /\ \E held \in {SelectedIn(widgets, sessions', index)}, order \in {InSessionOrder(dom', sessions')} :
       /\ index' = IF dom' = <<>> \/ held = NoAgent THEN index
                   ELSE IF held \in ToSet(dom')
                        THEN (CHOOSE j \in DOMAIN order : order[j] = held) - 1
                        ELSE Clamped(index, order)
       /\ focus' = IF focus \notin TuiAgents THEN focus
                   ELSE IF dom' = <<>> THEN "none"
                   ELSE order[Clamped(index', order) + 1]

-----------------------------------------------------------------------------
(* Other processes *)

Event ==
  /\ events < MaxEvents /\ events' = events + 1
  /\ UNCHANGED <<fetch, listVars, keyVars>>

AgentLaunched(a) ==
  /\ stateFile[a] = "absent"
  /\ ParentOf[a] \in {NoAgent} \cup {p \in TuiAgents : stateFile[p] \in Active}
  /\ stateFile' = [stateFile EXCEPT ![a] = "running"]
  /\ windows' = windows \cup {a}
  /\ Event

\* The daemon records another state, a child reports, a hand is laid on it.
AgentChanges(a, class) ==
  /\ stateFile[a] \in Active /\ class # stateFile[a]
  /\ class = "done" => ParentOf[a] # NoAgent
  /\ stateFile' = [stateFile EXCEPT ![a] = class]
  /\ Event /\ UNCHANGED windows

WindowVanishes(a) ==
  /\ a \in windows
  /\ windows' = windows \ {a}
  /\ Event /\ UNCHANGED stateFile

\* overcode cleanup, or another TUI, archives what has ended.
CleanedUpElsewhere(a) ==
  /\ stateFile[a] \in {"done", "terminated"}
  /\ stateFile' = [stateFile EXCEPT ![a] = "absent"]
  /\ Event /\ UNCHANGED windows

-----------------------------------------------------------------------------
(* refresh_sessions *)

\* launcher.list_sessions records as terminated what has lost its window.
Detected(list) ==
  [a \in TuiAgents |-> IF list[a] \in Active /\ a \notin windows THEN "terminated" ELSE list[a]]

FetchSessions(k) ==
  /\ fetch[k].at = "idle"
  /\ stateFile' = Detected(stateFile)
  /\ fetch' = [fetch EXCEPT ![k] = [at |-> "read", list |-> Detected(stateFile)]]
  /\ UNCHANGED <<windows, events, listVars, keyVars>>

\* Mutant: agents are added to the list and never taken out of it.
ApplyAddsOnly(k) ==
  /\ fetch[k].at = "read"
  /\ fetch' = [fetch EXCEPT ![k] = NoFetch]
  /\ LET old == ListOf(sessions)
         both == [a \in TuiAgents |-> IF fetch[k].list[a] = "absent" THEN old[a] ELSE fetch[k].list[a]]
     IN sessions' = Sorted(view.mode, both)
  /\ UNCHANGED <<envVars, keyVars, ghosts>>
  /\ UpdateWidgets(dom)

\* _apply_sessions: the list is replaced and sorted before the widgets, and
\* with them the selection, are looked at.
ApplySessions(k) ==
  /\ fetch[k].at = "read"
  /\ fetch' = [fetch EXCEPT ![k] = NoFetch]
  /\ sessions' = Sorted(view.mode, fetch[k].list)
  /\ UNCHANGED <<envVars, keyVars, ghosts>>
  /\ UpdateWidgets(dom)

\* Within 250 ms a focus that was lost returns to the selected agent.
FocusRecovers ==
  /\ focus = "none" /\ Selected # NoAgent
  /\ focus' = Selected
  /\ index' = Clamped(index, dom)
  /\ UNCHANGED <<fetch, sessions, ghosts, dom, envVars, keyVars>>

\* _gc_terminated_sessions: a ghost is kept for ten minutes.
GhostExpires ==
  /\ ghosts # <<>>
  /\ ghosts' = Tail(ghosts)
  /\ UNCHANGED <<fetch, sessions, dom, index, focus, envVars, keyVars>>

-----------------------------------------------------------------------------
(* Keys *)

Input ==
  /\ inputs < MaxInputs /\ inputs' = inputs + 1
  /\ UNCHANGED fetch

\* check_action lets keys through only when no modal is open; with the command
\* bar open they are typed there.
OnList == focus \in TuiAgents \cup {"none"}

MoveTo(i) ==
  /\ index' = i
  /\ focus' = InSessionOrder(dom, sessions)[i + 1]
  /\ UNCHANGED <<sessions, ghosts, dom>>

\* j and k
FocusNextOrPrevious ==
  /\ OnList /\ dom # <<>> /\ Input
  /\ \E i \in {(index + 1) % Len(dom), (index - 1) % Len(dom)} : MoveTo(i)
  /\ UNCHANGED <<envVars, saved, view, barTarget, pending, lastPress>>

\* A click gives a widget the focus and leaves the index where it is.
ClickAgent(a) ==
  /\ OnList /\ a \in ToSet(dom) /\ Input
  /\ focus' = a
  /\ UNCHANGED <<envVars, sessions, ghosts, dom, index, saved, view, barTarget, pending, lastPress>>

\* S, g, D, Z and X change what is displayed, or in which order.
ChangeView ==
  /\ OnList /\ Input
  /\ \/ \E mode \in {"alphabetical", "by_status", "by_tree"} \ {view.mode} :
          view' = [view EXCEPT !.mode = mode]
     \/ \E class \in {"terminated", "done", "asleep"} :
          view' = [view EXCEPT !.shows = SymDiff(@, {class})]
     \/ /\ view.mode = "by_tree"
        /\ Descendants({Selected}) \cap ToSet(IdsOf(sessions)) # {}
        /\ view' = [view EXCEPT !.collapsed = SymDiff(@, {Selected})]
  /\ sessions' = Sorted(view'.mode, ListOf(sessions))
  /\ UNCHANGED <<envVars, ghosts, saved, barTarget, pending, lastPress>>
  /\ UpdateWidgets(dom)

ClassShown(a) == IF ListOf(sessions)[a] = "absent" THEN "terminated" ELSE ListOf(sessions)[a]

Without(a) == Kept(sessions, {e \in ToSet(sessions) : e.id # a})

\* _execute_kill: kill_session takes the descendants along; the agent itself
\* becomes a ghost and leaves the list, its descendants at the next refresh.
ExecuteKill(a) ==
  IF stateFile[a] = "absent" THEN UNCHANGED <<stateFile, windows, listVars>>
  ELSE LET gone == {a} \cup Descendants({a})
       IN /\ stateFile' = [b \in TuiAgents |-> IF b \in gone THEN "absent" ELSE stateFile[b]]
          /\ windows' = windows \ gone
          /\ sessions' = Without(a)
          /\ ghosts' = Append(Kept(ghosts, TuiAgents \ {a}), a)
          /\ UpdateWidgets(Kept(dom, TuiAgents \ {a}))

\* _execute_cleanup: the session goes to the archive, its children stay.
ExecuteCleanup(a) ==
  /\ stateFile' = [stateFile EXCEPT ![a] = "absent"]
  /\ sessions' = Without(a)
  /\ ghosts' = Kept(ghosts, TuiAgents \ {a})
  /\ UpdateWidgets(Kept(dom, TuiAgents \ {a}))
  /\ UNCHANGED windows

\* Mutant: any second press confirms, whoever the warning named.
ConfirmAnyPress(kind, a) ==
  IF pending[kind] # NoAgent
  THEN /\ pending' = [pending EXCEPT ![kind] = NoAgent]
       /\ IF kind = "kill" THEN ExecuteKill(a) ELSE ExecuteCleanup(a)
  ELSE /\ pending' = [pending EXCEPT ![kind] = a]
       /\ UNCHANGED <<stateFile, windows, listVars>>

\* _confirm_double_press: a second press on the same agent acts, one on
\* another agent begins anew.
ConfirmDoublePress(kind, a) ==
  IF pending[kind] = a
  THEN /\ pending' = [pending EXCEPT ![kind] = NoAgent]
       /\ IF kind = "kill" THEN ExecuteKill(a) ELSE ExecuteCleanup(a)
  ELSE /\ pending' = [pending EXCEPT ![kind] = a]
       /\ UNCHANGED <<stateFile, windows, listVars>>

\* x acts on the widget that has the focus: what has ended is cleaned up.
PressX ==
  /\ focus \in TuiAgents /\ Input
  /\ UNCHANGED <<events, saved, view, barTarget>>
  /\ LET kind == IF ClassShown(focus) \in {"done", "terminated"} THEN "cleanup" ELSE "kill"
     IN lastPress' = [lastPress EXCEPT ![kind] = focus] /\ ConfirmDoublePress(kind, focus)

\* Three seconds later a warning is void.
ConfirmationExpires ==
  /\ \E kind \in {"kill", "cleanup"} :
       pending[kind] # NoAgent /\ pending' = [pending EXCEPT ![kind] = NoAgent]
  /\ UNCHANGED <<fetch, envVars, listVars, saved, view, barTarget, lastPress, inputs>>

\* R R on an agent whose window is gone gives it a new one.
ReviveAgent ==
  /\ focus \in TuiAgents /\ stateFile[focus] \in {"done", "terminated"} /\ focus \notin windows
  /\ Input
  /\ stateFile' = [stateFile EXCEPT ![focus] = "running"]
  /\ windows' = windows \cup {focus}
  /\ ghosts' = Kept(ghosts, TuiAgents \ {focus})
  /\ UNCHANGED <<events, sessions, dom, index, focus, saved, view, barTarget, pending, lastPress>>

\* _open_command_bar aims at the agent of the index.
OpenCommandBar ==
  /\ OnList /\ Selected # NoAgent /\ Input
  /\ focus' = "bar" /\ barTarget' = Selected
  /\ UNCHANGED <<envVars, sessions, ghosts, dom, index, saved, view, pending, lastPress>>

\* The text is sent or given up; the agent it was for becomes the selected one.
CloseCommandBar ==
  /\ focus = "bar"
  /\ LET order == InSessionOrder(dom, sessions)
     IN IF dom = <<>> THEN focus' = "none" /\ UNCHANGED index
        ELSE /\ index' = IF barTarget \in ToSet(dom)
                         THEN (CHOOSE j \in DOMAIN order : order[j] = barTarget) - 1
                         ELSE Clamped(index, order)
             /\ focus' = order[index' + 1]
  /\ UNCHANGED <<envVars, fetch, sessions, ghosts, dom, saved, view, barTarget, pending, lastPress, inputs>>

\* A modal takes the focus and gives it back to the widget that had it; the
\* jump modal selects an agent first.
OpenModal ==
  /\ OnList /\ Input
  /\ saved' = focus /\ focus' = "modal"
  /\ UNCHANGED <<envVars, sessions, ghosts, dom, index, view, barTarget, pending, lastPress>>

CloseModal ==
  /\ focus = "modal"
  /\ \/ /\ focus' = IF saved \in ToSet(dom) THEN saved ELSE "none"
        /\ UNCHANGED index
     \/ \E i \in 0..(Len(dom) - 1) : index' = i /\ focus' = InSessionOrder(dom, sessions)[i + 1]
  /\ saved' = "none"
  /\ UNCHANGED <<envVars, fetch, sessions, ghosts, dom, view, barTarget, pending, lastPress, inputs>>

-----------------------------------------------------------------------------

TuiInit ==
  /\ \E alive \in SUBSET TuiAgents :
       /\ \A a \in alive : ParentOf[a] \in alive \cup {NoAgent}
       /\ stateFile = [a \in TuiAgents |-> IF a \in alive THEN "running" ELSE "absent"]
       /\ windows = alive
  /\ view = [mode |-> "alphabetical", shows |-> {"asleep"}, collapsed |-> {}]
  /\ fetch = [k \in ListWorkers |-> NoFetch]
  /\ sessions = Sorted("alphabetical", stateFile)
  /\ ghosts = <<>>
  /\ dom = VisibleIds(sessions, <<>>, view)
  /\ index = 0
  /\ focus = IF dom = <<>> THEN "none" ELSE dom[1]
  /\ saved = "none" /\ barTarget = NoAgent
  /\ pending = [kill |-> NoAgent, cleanup |-> NoAgent] /\ lastPress = pending
  /\ events = 0 /\ inputs = 0

TuiNext ==
  \/ \E a \in TuiAgents :
       \/ AgentLaunched(a) \/ WindowVanishes(a) \/ CleanedUpElsewhere(a)
       \/ \E class \in Classes \ {"terminated"} : AgentChanges(a, class)
       \/ ClickAgent(a)
  \/ \E k \in ListWorkers : FetchSessions(k) \/ ApplySessions(k)
  \/ FocusRecovers \/ GhostExpires \/ ConfirmationExpires
  \/ FocusNextOrPrevious \/ ChangeView \/ PressX \/ ReviveAgent
  \/ OpenCommandBar \/ CloseCommandBar \/ OpenModal \/ CloseModal

TuiSpec == TuiInit /\ [][TuiNext]_tuiVars

\* A refresh begins every ten seconds and its answer is applied.
TuiFairness ==
  \A k \in ListWorkers : WF_tuiVars(FetchSessions(k)) /\ WF_tuiVars(ApplySessions(k))

-----------------------------------------------------------------------------
(* Properties *)

TuiTypeOK ==
  /\ stateFile \in [TuiAgents -> Classes \cup {"absent"}]
  /\ windows \subseteq TuiAgents
  /\ ToSet(dom) \subseteq TuiAgents /\ IsInjective(dom)
  /\ IsInjective(IdsOf(sessions)) /\ IsInjective(ghosts)
  /\ index \in 0..Cardinality(TuiAgents)
  /\ focus \in TuiAgents \cup {"bar", "modal", "none"}

\* An agent disappears at a key of the user only if it, or an agent above it, has
\* the focus and had it when x last asked for the same: a list that is sorted
\* anew between the two presses, a modal, a click, a late answer or a warning
\* about another agent cannot lead x to an agent it was not pressed for twice.
KilledOnSecondPress ==
  [][\A a \in TuiAgents :
       inputs' # inputs /\ stateFile[a] # "absent" /\ stateFile'[a] = "absent"
         => /\ a \in {focus} \cup Descendants({focus})
            /\ \E kind \in {"kill", "cleanup"} : lastPress[kind] = focus]_tuiVars

\* Once the other processes and the user are quiet the list shows the agents
\* of the state file as they are, though answers were applied out of order
\* and keys changed the list by themselves meanwhile.
ListCatchesUp ==
  <>[](/\ ToSet(IdsOf(sessions)) = Reached(stateFile)
       /\ \A e \in ToSet(sessions) : e.class = stateFile[e.id])

\* update_session_widgets keeps the selection: as long as the user presses no
\* key, the agent that is selected stays so while it is displayed.
SelectionIsKept ==
  [][inputs' = inputs /\ focus \in TuiAgents /\ Selected \in ToSet(dom')
       => Selected' = Selected]_tuiVars
=============================================================================
