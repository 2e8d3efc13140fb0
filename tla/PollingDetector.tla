-------------------------- MODULE PollingDetector ---------------------------
(***************************************************************************)
(* The status of one agent read off its pane.  Each look runs through the  *)
(* phases of detect_status and takes the first that applies; one of them,  *)
(* "the content has changed", rests on what the detector remembers of its  *)
(* last look, which may have been deeper or shallower (the selected agent  *)
(* is captured deeper), and long ago (in hooks mode nobody looks).         *)
(*                                                                         *)
(* A pane is what Claude has written, a sequence of kinds of lines, and    *)
(* below it what Claude draws: prompt, status bar, dialog, menu.  A kind   *)
(* stands for all lines that match the same patterns.  Left out: the text  *)
(* of the activity, and the counts that the row extracts from the bar.     *)
(***************************************************************************)
EXTENDS Naturals, Sequences, SequencesExt

CONSTANTS
  Window,    \* lines the phases look at (10 in the code)
  Tail100,   \* STATUS_CAPTURE_LINES: lines remembered, and captured of an agent not selected
  MaxMoves   \* bound on what Claude, the user and the other agents' selection do

\* The two lines that Claude draws below its own are always looked at.
ASSUME PollingAssumption ==
  Window \in Nat /\ Window >= 2 /\ Tail100 \in Nat /\ Tail100 >= 2 /\ MaxMoves \in Nat

VARIABLES
  claude,     \* what Claude does
  written,    \* the lines it has written
  statusBar,  \* a text of the status bar: token count, elapsed time
  inFocus,    \* the agent is the one selected in the TUI
  mode,       \* StatusDetectorDispatcher.mode
  remembered, \* self._previous_content of the agent, or Unknown
  answered,   \* the status last answered
  touched,    \* history: more than the status bar has changed in the pane since the last look
  looked,     \* history: the agent was in focus when it was last looked at
  moves

pollVars == <<claude, written, statusBar, inFocus, mode, remembered, answered, touched, looked, moves>>

\* Answers of Claude; its words for work, in a spinner or in an answer; a tool
\* that is run, a sleep that is run; an error of the API; words of a plan to
\* approve; words of a command that was not found.
Kinds == {"text", "active", "tool", "sleep", "error", "plan", "missing"}
Line == [kind : Kinds, n : 0..1]

Unknown == <<[kind |-> "unknown", n |-> 0]>>

-----------------------------------------------------------------------------
(* Claude and the user *)

\* What stands below the lines, by what Claude does.  The prompt stays there
\* while Claude works; "esc to interrupt" in the bar tells.
Drawn ==
  LET draw(kind, n) == [kind |-> kind, n |-> n] IN
  CASE claude = "working" -> <<draw("prompt", 0), draw("busybar", statusBar)>>
    [] claude = "idle"    -> <<draw("prompt", 0), draw("bar", statusBar)>>
    [] claude = "typed"   -> <<draw("input", 0), draw("bar", statusBar)>>
    [] claude = "menu"    -> <<draw("input", 0), draw("menu", 0)>>
    [] claude = "asking"  -> <<draw("dialog", 0)>>
    [] claude = "left"    -> <<draw("shell", 0)>>

PollingChange == moves < MaxMoves /\ moves' = moves + 1

\* A line is written, or the last one painted anew.
Writes ==
  /\ claude = "working"
  /\ \E kind \in Kinds :
       written' \in {Append(written, [kind |-> kind, n |-> 0])}
                    \cup {Append(Front(w), [kind |-> kind, n |-> 1]) : w \in {written} \ {<<>>}}
  /\ touched' = TRUE /\ PollingChange
  /\ UNCHANGED <<claude, statusBar, inFocus, mode, remembered, answered, looked>>

\* Claude begins, ends its turn, asks, is typed to, exits, or loses its window.
ClaudeTurns ==
  /\ claude' \in {"working", "idle", "typed", "menu", "asking", "left", "gone"} \ {claude}
  /\ claude # "gone"
  /\ touched' = TRUE /\ PollingChange
  /\ UNCHANGED <<written, statusBar, inFocus, mode, remembered, answered, looked>>

\* Tokens and seconds in the status bar, which move though Claude is at rest.
BarTicks ==
  /\ statusBar' = 1 - statusBar /\ PollingChange
  /\ UNCHANGED <<claude, written, inFocus, mode, remembered, answered, touched, looked>>

\* The selection moves to the agent, or away from it: another capture depth.
FocusMoves ==
  /\ inFocus' = ~inFocus /\ PollingChange
  /\ UNCHANGED <<claude, written, statusBar, mode, remembered, answered, touched, looked>>

\* The setting is changed; meanwhile only hooks are read.
SwitchesMode ==
  /\ mode' = IF mode = "polling" THEN "hooks" ELSE "polling"
  /\ PollingChange
  /\ UNCHANGED <<claude, written, statusBar, inFocus, remembered, answered, touched, looked>>

-----------------------------------------------------------------------------
(* detect_status *)

LastOf(lines, n) == SubSeq(lines, IF Len(lines) > n THEN Len(lines) - n + 1 ELSE 1, Len(lines))

IsStatusBarLine(line) == line.kind \in {"bar", "busybar"}
IsContentLine(line) == ~IsStatusBarLine(line)

WholePane == written \o Drawn

\* Of the selected agent (here) everything, of the others the last lines, the bar
\* among them.
CaptureAt(deep) == IF deep THEN WholePane ELSE LastOf(WholePane, Tail100)
Capture == CaptureAt(inFocus)

\* Mutant: the status bar is hashed too.
HashWithBar(lines) == LastOf(lines, Tail100)

\* _update_content_hash: the bar is filtered out before the tail is taken.
ContentHash(lines) ==
  LET Kept(line) == IF IsContentLine(line) THEN <<line>> ELSE <<>>
  IN  LastOf(FlattenSeq([i \in DOMAIN lines |-> Kept(lines[i])]), Tail100)

LineKinds(lines) == {lines[i].kind : i \in DOMAIN lines}

IsExecutionLine(line) == line.kind \in {"tool", "sleep"}

\* The last line that runs a tool.
LastTool(lines) ==
  LET ran == {i \in DOMAIN lines : IsExecutionLine(lines[i])}
  IN  IF ran = {} THEN "none" ELSE lines[Max(ran)].kind

\* What the phases look at: all lines, the last, the last but the bar;
\* the last that runs a tool.
Look(lines) ==
  [hash |-> ContentHash(lines), bottom |-> Last(lines).kind,
   all  |-> LineKinds(LastOf(lines, 2 * Window)),
   last |-> LineKinds(LastOf(lines, Window)),
   few  |-> LineKinds(LastOf(lines, Window)) \ {"bar", "busybar"},
   tool |-> LastTool(LastOf(lines, Window))]

SpawnFailed(look) == "missing" \in look.all
AtShellPrompt(look) == look.bottom = "shell"
AsksPermission(look) == "dialog" \in look.few
ContentChanged(look) == remembered # Unknown /\ remembered # look.hash
ShowsError(look) == "error" \in look.few
AwaitsApproval(look) == "plan" \in look.few /\ "text" \in look.all
ShowsCommandMenu(look) == "menu" \in look.last
ReadsActive(look) == "active" \in look.last

\* An empty prompt, or text at the prompt that nothing has answered, unless
\* "esc to interrupt" stands at the bottom.
UserPrompt(look) == look.bottom # "busybar" /\ look.last \cap {"prompt", "input"} # {}

Phase(applies, status) == [applies |-> applies, status |-> status]

Phases(look) ==
  << Phase(SpawnFailed(look), "waiting_user"),
     Phase(AtShellPrompt(look), "terminated"),
     Phase(AsksPermission(look), "waiting_user"),
     Phase(ContentChanged(look) /\ UserPrompt(look), "waiting_user"),
     Phase(ContentChanged(look), "running"),
     Phase(ShowsError(look), "error"),
     Phase(AwaitsApproval(look), "waiting_approval"),
     Phase(ShowsCommandMenu(look), "waiting_user"),
     Phase(ReadsActive(look), "running"),
     Phase(look.tool = "tool", "running"),
     Phase(look.tool = "sleep", "busy_sleeping"),
     Phase(UserPrompt(look), "waiting_user"),
     Phase(TRUE, "waiting_user") >>

FirstPhase(look) == Phases(look)[SelectInSeq(Phases(look), LAMBDA p : p.applies)]

\* Mutant: words for work come before the dialog that stops it.
ActiveFirst(look) == IF ReadsActive(look) THEN "running" ELSE FirstPhase(look).status

DetectStatus(look) == FirstPhase(look).status

Detects ==
  /\ mode = "polling" /\ claude # "gone"
  /\ \E look \in {Look(Capture)} : answered' = DetectStatus(look) /\ remembered' = look.hash
  /\ touched' = FALSE /\ looked' = inFocus
  /\ UNCHANGED <<claude, written, statusBar, inFocus, mode, moves>>

\* The pane cannot be captured.
DetectTerminated ==
  /\ mode = "polling" /\ claude = "gone"
  /\ answered' = "terminated"
  /\ UNCHANGED <<claude, written, statusBar, inFocus, mode, remembered, touched, looked, moves>>

\* The hooks of this agent are taken to tell the truth.
DetectsByHooks ==
  /\ mode = "hooks"
  /\ answered' = CASE claude = "working" -> "running" [] claude \in {"left", "gone"} -> "terminated"
                   [] OTHER -> "waiting_user"
  /\ UNCHANGED <<claude, written, statusBar, inFocus, mode, remembered, touched, looked, moves>>

-----------------------------------------------------------------------------

PollingInit ==
  /\ claude = "idle" /\ written = <<>> /\ statusBar = 0 /\ inFocus = TRUE /\ mode = "polling"
  /\ remembered = Unknown /\ answered = "waiting_user"
  /\ touched = TRUE /\ looked = TRUE /\ moves = 0

PollingNext ==
  \/ Writes \/ ClaudeTurns \/ BarTicks \/ FocusMoves \/ SwitchesMode
  \/ Detects \/ DetectTerminated \/ DetectsByHooks

PollingSpec == PollingInit /\ [][PollingNext]_pollVars

\* The daemon and the TUI look again and again.
PollingFairness ==
  WF_pollVars(Detects) /\ WF_pollVars(DetectTerminated) /\ WF_pollVars(DetectsByHooks)

-----------------------------------------------------------------------------
(* Properties *)

PollingTypeOK ==
  /\ written \in Seq(Line) /\ Len(written) <= MaxMoves
  /\ answered \in {"waiting_user", "terminated", "running", "error", "waiting_approval", "busy_sleeping"}

\* Words that phases 9 and 10 take for work, whoever wrote them and when.
ReadsLikeWork == Look(Capture).last \cap {"active", "tool"} # {}

\* The pane is longer than what is captured of an agent not selected, and the agent
\* was selected, or no longer is, since it was last looked at.  The bar is filtered out
\* of what was captured, so that the tails that are hashed have not one length.
ReadAtOtherDepth == inFocus # looked /\ Len(WholePane) > Tail100

\* An agent found running of a sudden is at work and its pane has changed since the last
\* look, otherwise than in its status bar; or its last lines read like work (which a
\* visible prompt outweighs on one look, and on the next no more).  Excused is the move
\* of the selection, but for an agent at work only whose pane is longer than the shallow
\* capture: there the code answers running where it had answered error, sleep or waiting.
NoFlash ==
  [][mode = "polling" /\ answered # "running" /\ answered' = "running"
       => \/ ReadsLikeWork
          \/ claude = "working" /\ (touched \/ ReadAtOtherDepth)]_pollVars

\* What _update_content_hash says its tail is for: the selection alone, which changes
\* nothing in the pane, turns no answer to running.  It does not hold: the pane of
\* ReadAtOtherDepth hashes otherwise.  No run checks it.
SelectionNeverFlashes ==
  [][mode = "polling" /\ answered # "running" /\ answered' = "running"
       => touched \/ ReadsLikeWork]_pollVars

\* An agent that stands still for good is seen to: at a dialog, at a menu or in
\* its shell whatever the lines above say, at its prompt unless they read like
\* work.
StandstillIsSeen ==
  <>[](\/ claude \in {"asking", "menu", "left", "gone"}
       \/ claude \in {"idle", "typed"} /\ ~ReadsLikeWork)
    => <>[](answered # "running")
=============================================================================
