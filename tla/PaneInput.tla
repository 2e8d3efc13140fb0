------------------------------ MODULE PaneInput ------------------------------
(***************************************************************************)
(* What the programs of overcode type into the panes of their agents.      *)
(* Heartbeats, the supervisor, the prompt of a launch and texts of several *)
(* lines are loaded into tmux's paste buffer and pasted; a line of the     *)
(* command bar, of `overcode send' or of the web page is typed as keys.    *)
(* Nothing orders the tmux commands of two calls, and tmux has one buffer. *)
(*                                                                         *)
(* A text is one or two pieces: the batches of ten lines of a paste, the   *)
(* `!' and the rest of typed keys.  Lines of a pasted piece do not submit. *)
(***************************************************************************)
EXTENDS Integers, Sequences, FiniteSets

CONSTANTS
  Sends,        \* calls that send a text, each made once
  TmuxWindows,  \* names of the agents' windows
  MaxPanes,     \* bound on the panes ever opened
  MaxScrolls    \* bound on the times a user scrolls or kills a window, and tmux fails

ASSUME PaneInputAssumption == MaxPanes \in Nat /\ MaxScrolls \in Nat

VARIABLES
  shownIn,    \* the pane of each window, 0 if there is no such window
  screen,     \* what runs in each pane, a dialog of Claude's included
  dialogs,    \* the dialogs its Claude has still to show
  answered,   \* the dialogs that were answered: their text may still be seen
  copying,    \* panes in copy mode
  inputLine,  \* pieces typed and not submitted
  entered,    \* lines submitted to its Claude
  buffer,     \* tmux's paste buffer
  send,       \* where each call is
  alone,      \* history: nothing disturbed the call
  scrolls

paneVars == <<shownIn, screen, dialogs, answered, copying, inputLine, entered>>
inputVars == <<paneVars, buffer, send, alone, scrolls>>

Panes == 1 .. MaxPanes
Dialogs == {"trust", "perms"}
Piece(w, i) == <<w, i>>
EmptyBuffer == <<>>

Resting == [at |-> "unmade", way |-> "keys", to |-> "", pane |-> 0, pieces |-> 1,
            sent |-> 0, enter |-> TRUE, accepted |-> {}, told |-> FALSE]

Underway(w) == send[w].at \notin {"unmade", "done"}
Opened == {p \in Panes : screen[p] # "unborn"}

-----------------------------------------------------------------------------
(* tmux and Claude *)

\* tmux_window_target and TmuxManager._get_pane: a window is found by its name.
FirstPane(n) == shownIn[n]

\* Keys typed into a pane: copy mode takes them, a dialog ignores them.
Typed(p, piece) ==
  inputLine' = IF p # 0 /\ p \notin copying /\ screen[p] = "input"
               THEN [inputLine EXCEPT ![p] = Append(@, piece)] ELSE inputLine

\* A paste reaches the program under copy mode.
Pasted(p, piece) ==
  inputLine' = IF screen[p] = "input" THEN [inputLine EXCEPT ![p] = Append(@, piece)]
               ELSE inputLine

\* Enter submits the line, accepts the trust dialog, and in the warning on
\* permissions takes the choice under the cursor, which is to leave.
Entered(p) ==
  IF p = 0 \/ p \in copying THEN UNCHANGED <<screen, answered, inputLine, entered>>
  ELSE CASE screen[p] = "input" ->
              /\ entered' = [entered EXCEPT ![p] = @ \cup {inputLine[p]}]
              /\ inputLine' = [inputLine EXCEPT ![p] = <<>>]
              /\ UNCHANGED <<screen, answered>>
         [] screen[p] \in {"trust", "accept"} ->
              /\ screen' = [screen EXCEPT ![p] = "loading"]
              /\ answered' = [answered EXCEPT ![p] = @ \cup {screen[p]}]
              /\ UNCHANGED <<inputLine, entered>>
         [] screen[p] = "perms" ->
              /\ screen' = [screen EXCEPT ![p] = "refused"]
              /\ UNCHANGED <<answered, inputLine, entered>>
         [] OTHER -> UNCHANGED <<screen, answered, inputLine, entered>>

\* Claude shows its next dialog, the trust one first, or its input line.
ClaudeShows(p) ==
  /\ screen[p] = "loading"
  /\ LET next == IF "trust" \in dialogs[p] THEN "trust"
                 ELSE IF "perms" \in dialogs[p] THEN "perms" ELSE "input"
     IN /\ screen' = [screen EXCEPT ![p] = next]
        /\ dialogs' = [dialogs EXCEPT ![p] = @ \ {next}]
  /\ UNCHANGED <<shownIn, answered, copying, inputLine, entered, buffer, send, alone, scrolls>>

\* The wheel puts a pane into copy mode; the user leaves it with q.
UserScrolls(p) ==
  /\ screen[p] # "unborn" /\ p \notin copying /\ scrolls < MaxScrolls
  /\ copying' = copying \cup {p}
  /\ scrolls' = scrolls + 1
  /\ alone' = [w \in Sends |-> alone[w] /\ (Underway(w) => send[w].at = "check")]
  /\ UNCHANGED <<shownIn, screen, dialogs, answered, inputLine, entered, buffer, send>>

UserLeavesCopyMode(p) ==
  /\ p \in copying
  /\ copying' = copying \ {p}
  /\ UNCHANGED <<shownIn, screen, dialogs, answered, inputLine, entered, buffer, send, alone, scrolls>>

\* A window is closed: its pane and its Claude are gone.
WindowCloses(n) ==
  /\ shownIn[n] # 0 /\ scrolls < MaxScrolls
  /\ screen' = [screen EXCEPT ![shownIn[n]] = "gone"]
  /\ shownIn' = [shownIn EXCEPT ![n] = 0]
  /\ copying' = copying \ {shownIn[n]}
  /\ scrolls' = scrolls + 1
  /\ alone' = [w \in Sends |-> alone[w] /\ ~Underway(w)]
  /\ UNCHANGED <<dialogs, answered, inputLine, entered, buffer, send>>

\* TmuxManager.create_window, and the command that starts Claude.
OpensWindow(n) ==
  /\ shownIn[n] = 0 /\ Cardinality(Opened) < MaxPanes
  /\ LET p == Cardinality(Opened) + 1
     IN /\ shownIn' = [shownIn EXCEPT ![n] = p]
        /\ screen' = [screen EXCEPT ![p] = "loading"]
        /\ \E shown \in SUBSET Dialogs : dialogs' = [dialogs EXCEPT ![p] = shown]
  /\ UNCHANGED <<answered, copying, inputLine, entered, buffer, send, alone, scrolls>>

-----------------------------------------------------------------------------
(* The calls *)

Goes(w, at) == send' = [send EXCEPT ![w].at = at]
Finishes(w, told) == send' = [send EXCEPT ![w] = [@ EXCEPT !.at = "done", !.told = told]]

\* A call that starts disturbs the ones under way, and they disturb it.  Keys
\* are lost in copy mode, and a text that is not a launch's in a dialog.
Met(w, n, way) ==
  LET others == {v \in Sends \ {w} : Underway(v)}
      ready == /\ shownIn[n] # 0
               /\ way # "prompt" => screen[shownIn[n]] = "input"
               /\ way # "paste" => shownIn[n] \notin copying
  IN [v \in Sends |-> IF v = w THEN others = {} /\ ready
                      ELSE alone[v] /\ v \notin others]

\* send_text_to_tmux_window: the target is a name, looked up by each command.
StartsPaste(w) ==
  /\ send[w].at = "unmade"
  /\ \E n \in TmuxWindows, k \in 1 .. 2 :
       /\ send' = [send EXCEPT ![w] = [@ EXCEPT !.at = "check", !.way = "paste", !.to = n,
                                                !.pieces = k]]
       /\ alone' = Met(w, n, "paste")
  /\ UNCHANGED <<paneVars, buffer, scrolls>>

\* A line of one or two pieces with its Enter, an Enter alone, or a key, such as
\* the number of a choice, without one.
KeyTexts == {<<1, TRUE>>, <<2, TRUE>>, <<0, TRUE>>, <<1, FALSE>>}

\* TmuxManager.send_keys: the pane is looked up once; without one it fails.
StartsKeys(w) ==
  /\ send[w].at = "unmade"
  /\ \E n \in TmuxWindows, text \in KeyTexts :
       /\ send' = [send EXCEPT ![w] =
            [@ EXCEPT !.at = IF FirstPane(n) = 0 THEN "done" ELSE IF text[1] = 0 THEN "enter" ELSE "type",
                      !.way = "keys", !.to = n, !.pane = FirstPane(n), !.pieces = text[1],
                      !.enter = text[2]]]
       /\ alone' = Met(w, n, "keys")
  /\ UNCHANGED <<paneVars, buffer, scrolls>>

\* _send_prompt_to_window, after the launch has opened the window: nobody has
\* typed into it before.
StartsPrompt(w) ==
  /\ send[w].at = "unmade"
  /\ \E n \in TmuxWindows, k \in 1 .. 2 :
       /\ FirstPane(n) # 0 /\ screen[FirstPane(n)] = "loading" /\ answered[FirstPane(n)] = {}
       /\ send' = [send EXCEPT ![w] = [@ EXCEPT !.at = "wait", !.way = "prompt", !.to = n,
                                                !.pieces = k]]
       /\ alone' = Met(w, n, "prompt")
  /\ UNCHANGED <<paneVars, buffer, scrolls>>

\* Mutant: copy mode is not asked for.
NeverAsks(w) ==
  /\ send[w].at = "check"
  /\ Goes(w, "load")
  /\ UNCHANGED <<paneVars, buffer, alone, scrolls>>

\* exit_copy_mode_if_active: the question ...
ChecksCopyMode(w) ==
  /\ send[w].at = "check"
  /\ Goes(w, IF FirstPane(send[w].to) \in copying THEN "cancel" ELSE "load")
  /\ UNCHANGED <<paneVars, buffer, alone, scrolls>>

\* ... and the command that leaves it.
CancelsCopyMode(w) ==
  /\ send[w].at = "cancel"
  /\ copying' = copying \ {FirstPane(send[w].to)}
  /\ Goes(w, "load")
  /\ UNCHANGED <<shownIn, screen, dialogs, answered, inputLine, entered, buffer, alone, scrolls>>

\* Either of them fails or takes five seconds, and the text is sent all the same,
\* into copy mode if the pane is in it.
MissesCopyMode(w) ==
  /\ send[w].at \in {"check", "cancel"} /\ FirstPane(send[w].to) \in copying
  /\ scrolls < MaxScrolls /\ scrolls' = scrolls + 1
  /\ Goes(w, "load")
  /\ alone' = [alone EXCEPT ![w] = FALSE]
  /\ UNCHANGED <<paneVars, buffer>>

\* load-buffer: one buffer for all of tmux.
LoadsBuffer(w) ==
  /\ send[w].at = "load"
  /\ buffer' = Piece(w, send[w].sent + 1)
  /\ Goes(w, "paste")
  /\ UNCHANGED <<paneVars, alone, scrolls>>

\* paste-buffer: whatever was loaded last.
PastesBuffer(w) ==
  LET p == FirstPane(send[w].to)  k == send[w].sent + 1
  IN /\ send[w].at = "paste"
     /\ IF p = 0 THEN Finishes(w, FALSE) /\ UNCHANGED inputLine
        ELSE /\ Pasted(p, buffer)
             /\ send' = [send EXCEPT ![w] =
                  [@ EXCEPT !.sent = k, !.pane = p,
                            !.at = IF k < send[w].pieces THEN "load" ELSE "enter"]]
     /\ UNCHANGED <<shownIn, screen, dialogs, answered, copying, entered, buffer, alone, scrolls>>

\* send_keys_to_pane: `!' first, or the text; libtmux tells of no missing pane.
TypesKeys(w) ==
  LET k == send[w].sent + 1
  IN /\ send[w].at = "type"
     /\ Typed(send[w].pane, Piece(w, k))
     /\ send' = [send EXCEPT ![w] =
          [@ EXCEPT !.sent = k, !.told = ~send[w].enter /\ k = send[w].pieces,
                    !.at = IF k < send[w].pieces THEN "type"
                           ELSE IF send[w].enter THEN "enter" ELSE "done"]]
     /\ UNCHANGED <<shownIn, screen, dialogs, answered, copying, entered, buffer, alone, scrolls>>

\* The Enter, a command of its own.
PressesEnter(w) ==
  LET p == IF send[w].way = "keys" THEN send[w].pane ELSE FirstPane(send[w].to)
  IN /\ send[w].at = "enter"
     /\ Entered(p)
     /\ Finishes(w, p # 0)
     /\ UNCHANGED <<shownIn, dialogs, copying, buffer, alone, scrolls>>

-----------------------------------------------------------------------------
(* _wait_for_prompt *)

\* The pane's last lines: the screen, and dialogs already left behind.
Contents(p) == {{screen[p]} \cup left : left \in SUBSET answered[p]}

\* Mutant: the trust dialog is answered whenever its text is there.
AnswersAgain(content, accepted) ==
  IF "trust" \in content THEN "sees trust"
  ELSE IF content \cap {"perms", "accept"} # {} /\ "perms" \notin accepted THEN "sees perms"
  ELSE IF "input" \in content THEN "check" ELSE "wait"

\* A dialog whose answer has been sent is not answered again.
Answers(content, accepted) ==
  IF "trust" \in content /\ "trust" \notin accepted THEN "sees trust"
  ELSE IF content \cap {"perms", "accept"} # {} /\ "perms" \notin accepted THEN "sees perms"
  ELSE IF "input" \in content THEN "check" ELSE "wait"

PollsPane(w) ==
  LET p == FirstPane(send[w].to)
  IN /\ send[w].at = "wait" /\ p # 0
     /\ \E content \in Contents(p) : Goes(w, Answers(content, send[w].accepted))
     /\ UNCHANGED <<paneVars, buffer, alone, scrolls>>

AcceptsTrust(w) ==
  /\ send[w].at = "sees trust"
  /\ Entered(FirstPane(send[w].to))
  /\ send' = [send EXCEPT ![w] = [@ EXCEPT !.at = "wait", !.accepted = send[w].accepted \cup {"trust"}]]
  /\ UNCHANGED <<shownIn, dialogs, copying, buffer, alone, scrolls>>

\* Down, to the choice that accepts ...
MovesDown(w) ==
  LET p == FirstPane(send[w].to)
  IN /\ send[w].at = "sees perms"
     /\ screen' = IF p # 0 /\ p \notin copying /\ screen[p] = "perms"
                  THEN [screen EXCEPT ![p] = "accept"] ELSE screen
     /\ Goes(w, "sees accept")
     /\ UNCHANGED <<shownIn, dialogs, answered, copying, inputLine, entered, buffer, alone, scrolls>>

\* ... and Enter, 0.3 seconds later.
AcceptsPerms(w) ==
  /\ send[w].at = "sees accept"
  /\ Entered(FirstPane(send[w].to))
  /\ send' = [send EXCEPT ![w] = [@ EXCEPT !.at = "wait", !.accepted = send[w].accepted \cup {"perms"}]]
  /\ UNCHANGED <<shownIn, dialogs, copying, buffer, alone, scrolls>>

\* After 30 seconds the prompt is sent into whatever is there.
GivesUpWaiting(w) ==
  /\ send[w].at = "wait"
  /\ Goes(w, "check")
  /\ alone' = [alone EXCEPT ![w] = FALSE]
  /\ UNCHANGED <<paneVars, buffer, scrolls>>

-----------------------------------------------------------------------------

CallActs(w) ==
  \/ StartsPaste(w) \/ StartsKeys(w) \/ StartsPrompt(w)
  \/ ChecksCopyMode(w) \/ CancelsCopyMode(w) \/ MissesCopyMode(w)
  \/ LoadsBuffer(w) \/ PastesBuffer(w)
  \/ TypesKeys(w) \/ PressesEnter(w)
  \/ PollsPane(w) \/ AcceptsTrust(w) \/ MovesDown(w) \/ AcceptsPerms(w) \/ GivesUpWaiting(w)

PaneInputInit ==
  /\ shownIn = [n \in TmuxWindows |-> 0]
  /\ screen = [p \in Panes |-> "unborn"]
  /\ dialogs = [p \in Panes |-> {}]
  /\ answered = [p \in Panes |-> {}]
  /\ copying = {}
  /\ inputLine = [p \in Panes |-> <<>>]
  /\ entered = [p \in Panes |-> {}]
  /\ buffer = EmptyBuffer
  /\ send = [w \in Sends |-> Resting]
  /\ alone = [w \in Sends |-> FALSE]
  /\ scrolls = 0

PaneInputNext ==
  \/ \E w \in Sends : CallActs(w)
  \/ \E p \in Panes : ClaudeShows(p) \/ UserScrolls(p) \/ UserLeavesCopyMode(p)
  \/ \E n \in TmuxWindows : OpensWindow(n) \/ WindowCloses(n)

PaneInputSpec == PaneInputInit /\ [][PaneInputNext]_inputVars

-----------------------------------------------------------------------------

TextOf(w) == [i \in 1 .. send[w].pieces |-> Piece(w, i)]
EndsWith(line, text) ==
  /\ Len(line) >= Len(text)
  /\ SubSeq(line, Len(line) - Len(text) + 1, Len(line)) = text

\* A call that reports success, and that no other call, no scrolling after its
\* look at copy mode, no failure of that look and no closing of the window disturbed, has submitted its
\* text, whole, at the end of a line of its agent; and a launcher that nobody
\* disturbs never makes Claude refuse its own warning and leave.  The paste
\* buffer, copy mode and the dialogs are all shared with others in between.
UndisturbedTextArrives ==
  \A w \in Sends :
    /\ alone[w] /\ send[w].told /\ send[w].enter =>
         \E line \in entered[send[w].pane] : EndsWith(line, TextOf(w))
    /\ alone[w] /\ send[w].way = "prompt" /\ Underway(w) =>
         screen[FirstPane(send[w].to)] # "refused"
=============================================================================
