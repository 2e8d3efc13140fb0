------------------------------- MODULE TuiView -------------------------------
(***************************************************************************)
(* The TUI in the upper pane of `overcode tmux' (compact mode): a dialog,  *)
(* the help overlay, the view of an agent of a sister and the jobs view    *)
(* each zoom the pane over the terminal below, and share the one flag that *)
(* tmux keeps.  A modal edits a copy of what it configures; a decision is  *)
(* a message that the app handles after the modal has hidden itself.       *)
(*                                                                         *)
(* Left out: the wide TUI, the fullscreen preview, a zoom the user makes.  *)
(***************************************************************************)
EXTENDS Sequences, Naturals

CONSTANT MaxQueue  \* bound on decisions that wait

ASSUME ViewAssumption == MaxQueue \in Nat

VARIABLES
  zoomed,     \* #{window_zoomed_flag}
  modal,      \* the modal that is visible, or "none"
  help,       \* the help overlay is visible
  queue,      \* decisions of modals the app has not handled
  config,     \* config[m]: what is saved of the setting that m edits
  edit,       \* the modal's copy
  live,       \* the columns the rows of the list show
  tuiMode,    \* "agents" or "jobs"
  sisterView, \* self._sister_zoom_active
  preview     \* self.preview_visible

viewVars == <<zoomed, modal, help, queue, config, edit, live, tuiMode, sisterView, preview>>
settingVars == <<config, edit, live>>

\* Modals by how they save: through the app, with the rows following while it
\* is open (the sisters are saved alike), by themselves (so is the toggle key),
\* or nothing at all (jump, tags, history).
Modals == {"columns", "passthru", "jump"}
Values == {0, 1}

-----------------------------------------------------------------------------
(* Zoom, as functions of the flag *)

\* _dialog_will_open
DialogWillOpen == zoomed' = TRUE

DialogVisible == modal # "none" \/ help

\* Mutant: the dialog that closes is taken for the last one.
DidCloseBlindly(isHelp) ==
  zoomed' = (zoomed /\ (sisterView \/ tuiMode = "jobs"))

\* _dialog_did_close, called when the dialog is hidden already.
DialogDidClose(isHelp) ==
  zoomed' = (zoomed /\ (modal # "none" \/ (help /\ ~isHelp) \/ sisterView \/ tuiMode = "jobs"))

\* _enter_sister_view
EnterSisterView == sisterView' = TRUE /\ DialogWillOpen /\ preview' = TRUE

\* _exit_sister_view
ExitSisterView ==
  /\ sisterView' = FALSE /\ preview' = FALSE
  /\ zoomed' = (zoomed /\ DialogVisible)

SisterViewAsIs == UNCHANGED <<sisterView, preview, zoomed>>

-----------------------------------------------------------------------------
(* Dialogs *)

\* check_action: with a modal open its keys are all there is.
OpenDialog(m) ==
  /\ ~DialogVisible
  /\ m = "jump" => tuiMode = "agents"
  /\ DialogWillOpen
  /\ modal' = m
  /\ edit' = IF m = "jump" THEN edit ELSE config[m]
  /\ UNCHANGED <<help, queue, config, live, tuiMode, sisterView, preview>>

\* A row is toggled; the rows of the list follow the columns at once.
Toggle ==
  /\ modal \in Modals \ {"jump"}
  /\ edit' = 1 - edit
  /\ live' = IF modal = "columns" THEN 1 - edit ELSE live
  /\ UNCHANGED <<zoomed, modal, help, queue, config, tuiMode, sisterView, preview>>

Decide(decision) ==
  /\ modal # "none" /\ Len(queue) < MaxQueue
  /\ queue' = Append(queue, [modal |-> modal, decision |-> decision, value |-> IF decision = "apply" /\ modal = "columns" THEN edit ELSE 0])
  /\ modal' = "none"

\* save_passthru_keys is called by the modal itself.
ApplyModal ==
  /\ Decide("apply")
  /\ config' = IF modal = "passthru" THEN [config EXCEPT !.passthru = edit] ELSE config
  /\ UNCHANGED <<zoomed, help, edit, live, tuiMode, sisterView, preview>>

\* The columns modal shows its original again before it says so.
CancelModal ==
  /\ Decide("cancel")
  /\ live' = IF modal = "columns" THEN config.columns ELSE live
  /\ UNCHANGED <<zoomed, help, config, edit, tuiMode, sisterView, preview>>

\* Mutant: a cancelled modal leaves the rows as it showed them.
HandleOnlyApply ==
  /\ queue # <<>>
  /\ LET m == Head(queue)
     IN /\ config' = IF m.modal = "columns" /\ m.decision = "apply"
                     THEN [config EXCEPT !.columns = m.value] ELSE config
        /\ live' = IF m.modal = "columns" THEN edit ELSE live
  /\ queue' = Tail(queue)
  /\ DialogDidClose(FALSE)
  /\ UNCHANGED <<modal, help, edit, tuiMode, sisterView, preview>>

\* The app handles a decision: on_summary_config_modal_..., and the others.
HandleDecision ==
  /\ queue # <<>>
  /\ LET m == Head(queue)
     IN /\ config' = IF m.decision = "apply" /\ m.modal = "columns"
                     THEN [config EXCEPT !.columns = m.value] ELSE config
        /\ live' = IF m.modal = "columns" THEN config'.columns ELSE live
  /\ queue' = Tail(queue)
  /\ DialogDidClose(FALSE)
  /\ UNCHANGED <<modal, help, edit, tuiMode, sisterView, preview>>

\* Any key closes the help, ? opens it.
ToggleHelp ==
  /\ modal = "none"
  /\ help' = ~help
  /\ IF help THEN DialogDidClose(TRUE) ELSE DialogWillOpen
  /\ UNCHANGED <<modal, queue, settingVars, tuiMode, sisterView, preview>>

-----------------------------------------------------------------------------
(* Jobs, agents of sisters *)

\* watch_tui_mode
ToggleJobs ==
  /\ ~DialogVisible
  /\ tuiMode' = IF tuiMode = "agents" THEN "jobs" ELSE "agents"
  /\ IF tuiMode = "agents" THEN DialogWillOpen /\ preview' = TRUE
     ELSE zoomed' = (zoomed /\ sisterView) /\ preview' = FALSE
  /\ UNCHANGED <<modal, help, queue, settingVars, sisterView>>

\* _sync_tmux_window after a key that selects an agent; b selects one in the
\* jobs view too.  An agent reached over ssh has a window in the lower pane.
Navigate(kind) ==
  /\ ~DialogVisible /\ kind # "none"
  /\ IF kind = "sister" /\ ~sisterView THEN EnterSisterView
     ELSE IF kind # "sister" /\ sisterView THEN ExitSisterView
     ELSE SisterViewAsIs
  /\ UNCHANGED <<modal, help, queue, settingVars, tuiMode>>

\* A refresh moves the selection: the panes follow only when no agent is left.
SelectionDrifts(kind) ==
  /\ IF kind = "none" /\ modal = "none" /\ sisterView THEN ExitSisterView ELSE SisterViewAsIs
  /\ UNCHANGED <<modal, help, queue, settingVars, tuiMode>>

-----------------------------------------------------------------------------

ViewInit ==
  /\ zoomed = FALSE /\ modal = "none" /\ help = FALSE /\ queue = <<>>
  /\ config = [m \in Modals \ {"jump"} |-> 0] /\ edit = 0 /\ live = 0
  /\ tuiMode = "agents" /\ sisterView = FALSE /\ preview = FALSE

ViewNext ==
  \/ \E m \in Modals : OpenDialog(m)
  \/ Toggle \/ ApplyModal \/ CancelModal \/ HandleDecision \/ ToggleHelp \/ ToggleJobs
  \/ \E kind \in {"local", "sister", "ssh", "none"} : Navigate(kind) \/ SelectionDrifts(kind)

ViewSpec == ViewInit /\ [][ViewNext]_viewVars

-----------------------------------------------------------------------------
(* Properties *)

ViewTypeOK ==
  /\ modal \in Modals \cup {"none"}
  /\ config \in [Modals \ {"jump"} -> Values] /\ edit \in Values /\ live \in Values
  /\ tuiMode \in {"agents", "jobs"}
  /\ \A f \in {zoomed, help, sisterView, preview} : f \in BOOLEAN

\* The TUI has the whole window while a dialog is open, in whatever order
\* dialogs, views and late decisions came, and gives it back when nothing is
\* left that asked for it: the agent's terminal does not stay hidden.  Between
\* dialogs the rows show the columns that are saved: what a dialog showed live
\* is kept if it was applied and gone if it was cancelled.
DialogsLeaveNoTrace ==
  /\ DialogVisible => zoomed
  /\ zoomed => DialogVisible \/ sisterView \/ tuiMode = "jobs" \/ queue # <<>>
  /\ modal # "columns" /\ queue = <<>> => live = config.columns
=============================================================================
