----------------------------- MODULE TuiCommands -----------------------------
(***************************************************************************)
(* The command bar of the TUI: one line of input that sends text to an     *)
(* agent, edits one of its settings or names a fork of it, depending on    *)
(* the mode it was opened in; and the keys that act on an agent at once.   *)
(* A submitted line becomes a message, which names its agent by id and is  *)
(* handled after whatever else the app had to do.  An agent may be gone by *)
(* then, and another may have its name.                                    *)
(*                                                                         *)
(* An agent of a sister is addressed by its name there.  Left out: text    *)
(* (a line is empty, unusable in its mode, or good, and counts when it is  *)
(* submitted), children, which have no sleep or heartbeat of their own.    *)
(***************************************************************************)
EXTENDS Naturals, Sequences

CONSTANTS
  CmdAgents,  \* agents
  Remote,     \* those of sisters
  NameOf,     \* their names
  NoTarget,
  MaxPosted,  \* bound on messages and key threads under way
  MaxKeys,    \* bound on what the user does
  MaxOutside  \* bound on what others do

ASSUME CommandsAssumption ==
  /\ Remote \subseteq CmdAgents /\ NoTarget \notin CmdAgents
  /\ {MaxPosted, MaxKeys, MaxOutside} \subseteq Nat

VARIABLES
  agents,  \* the registries: each agent's state, sleep and heartbeat
  rows,    \* self.sessions: the same as the TUI last read it
  cursor,  \* the agent that is selected
  bar,     \* the command bar
  posted,  \* messages of the bar the app has not handled
  threads, \* threads that send a key
  effect,  \* what the last step did to an agent, and for which message
  keysPressed, outside

cmdVars == <<agents, rows, cursor, bar, posted, threads, effect, keysPressed, outside>>

Modes == {"send", "standing_orders", "value", "cost_budget", "annotation",
          "heartbeat_freq", "heartbeat_instruction", "fork_name"}
Texts == {"empty", "bad", "good"}

NoSession == [is |-> "absent", asleep |-> FALSE, enabled |-> FALSE, paused |-> FALSE]
Launched == [NoSession EXCEPT !.is = "alive"]
NoEffect == [on |-> NoTarget, kind |-> "none", label |-> [agent |-> NoTarget, mode |-> "send"], via |-> "none"]
ClosedBar == [visible |-> FALSE, target |-> NoTarget, mode |-> "send", fork |-> NoTarget,
              expanded |-> FALSE]

UserActs == keysPressed < MaxKeys /\ keysPressed' = keysPressed + 1 /\ effect' = NoEffect /\ UNCHANGED outside
OthersAct == outside < MaxOutside /\ outside' = outside + 1 /\ effect' = NoEffect /\ UNCHANGED keysPressed
NoBound == UNCHANGED <<keysPressed, outside>>

-----------------------------------------------------------------------------
(* Others *)

\* A new agent may take the name of one that is gone, not of one that is there.
LaunchedElsewhere(i) ==
  /\ agents[i].is = "absent"
  /\ \A j \in CmdAgents : NameOf[j] = NameOf[i] /\ (j \in Remote <=> i \in Remote) => agents[j].is = "absent"
  /\ agents' = [agents EXCEPT ![i] = Launched]
  /\ OthersAct /\ UNCHANGED <<rows, cursor, bar, posted, threads>>

\* Killed and archived, or ended with its record kept, or asleep.
ChangedElsewhere(i, to) ==
  /\ agents[i].is # "absent" /\ to # agents[i]
  /\ agents' = [agents EXCEPT ![i] = to]
  /\ OthersAct /\ UNCHANGED <<rows, cursor, bar, posted, threads>>

\* The list is read anew.
RowsRefresh ==
  /\ rows' = agents /\ rows # agents
  /\ cursor' \in {i \in CmdAgents : agents[i].is # "absent"} \cup {NoTarget}
  /\ cursor # NoTarget /\ agents[cursor].is # "absent" => cursor' = cursor
  /\ effect' = NoEffect /\ NoBound /\ UNCHANGED <<agents, bar, posted, threads>>

-----------------------------------------------------------------------------
(* The bar *)

\* What the user reads in front of the line: the target, or for a fork the
\* agent that was selected when the bar was opened.
Label == [agent |-> IF bar.mode = "fork_name" THEN bar.fork ELSE bar.target, mode |-> bar.mode]

\* j, k or a click, which also works while the bar is open.
SelectRow(i) ==
  /\ rows[i].is # "absent" /\ cursor' = i /\ i # cursor
  /\ UserActs /\ UNCHANGED <<agents, rows, bar, posted, threads>>

\* _open_command_bar: a new target resets the mode and nothing else; with no
\* agent selected the old target stays.
OpenBar(mode) ==
  /\ mode \notin {"fork_name", "heartbeat_instruction"}
  /\ bar' = [bar EXCEPT !.visible = TRUE,
                        !.target = IF cursor # NoTarget THEN cursor ELSE @,
                        !.mode = IF mode # "send" \/ cursor # NoTarget THEN mode ELSE @]
  /\ UserActs /\ UNCHANGED <<agents, rows, cursor, posted, threads>>

\* action_fork_focused leaves the target alone.
OpenForkBar ==
  /\ cursor # NoTarget /\ rows[cursor].is = "alive"
  /\ bar' = [bar EXCEPT !.visible = TRUE, !.mode = "fork_name", !.fork = cursor]
  /\ UserActs /\ UNCHANGED <<agents, rows, cursor, posted, threads>>

\* Ctrl+E: what was typed is carried over.
ToggleExpand ==
  /\ bar.visible /\ bar' = [bar EXCEPT !.expanded = ~@]
  /\ UserActs /\ UNCHANGED <<agents, rows, cursor, posted, threads>>

Message(kind, to, via) == [kind |-> kind, to |-> to, via |-> via, label |-> Label]

\* A message needs a target.  The app is told to hide the bar after it.
Post(kind, to, via, closes) ==
  LET sent == IF to = NoTarget THEN <<>> ELSE <<Message(kind, to, via)>>
      clear == IF closes THEN <<Message("clear", bar.target, via)>> ELSE <<>>
  IN posted' = posted \o sent \o clear

\* action_clear_and_unfocus: the target stays.
Cleared == [bar EXCEPT !.mode = "send", !.fork = NoTarget, !.expanded = FALSE]

SettingOf == [standing_orders |-> "orders", value |-> "value", cost_budget |-> "budget", annotation |-> "annotation"]

\* The heartbeat is asked for in two lines; the second may be left empty when
\* the agent has an instruction already.
EnterHeartbeat(text) ==
  \/ /\ bar.mode = "heartbeat_freq" /\ text = "empty"
     /\ Post("beatOff", bar.target, "enter", TRUE) /\ bar' = Cleared
  \/ /\ bar.mode = "heartbeat_freq" /\ text = "bad"
     /\ UNCHANGED <<bar, posted>>
  \/ /\ bar.mode = "heartbeat_freq" /\ text = "good"
     /\ bar' = [bar EXCEPT !.mode = "heartbeat_instruction"] /\ UNCHANGED posted
  \/ /\ bar.mode = "heartbeat_instruction"
     /\ IF text = "empty" /\ (bar.target = NoTarget \/ ~rows[bar.target].enabled)
        THEN Post("none", NoTarget, "enter", TRUE)
        ELSE Post("beatOn", bar.target, "enter", TRUE)
     /\ bar' = Cleared

\* on_input_submitted.  A number that cannot be read is complained about, and
\* the bar closes all the same.
PressEnter(text) ==
  /\ bar.visible /\ ~bar.expanded /\ Len(posted) < MaxPosted
  /\ \/ /\ bar.mode = "fork_name" /\ text # "empty"
        /\ Post("fork", bar.fork, "enter", TRUE) /\ bar' = Cleared
     \/ /\ bar.mode \in DOMAIN SettingOf
        /\ IF text = "bad" /\ bar.mode \in {"value", "cost_budget"}
           THEN Post("none", NoTarget, "enter", TRUE)
           ELSE Post(SettingOf[bar.mode], bar.target, "enter", TRUE)
        /\ bar' = Cleared
     \/ EnterHeartbeat(text)
     \/ /\ bar.mode = "send" /\ text # "empty"
        /\ Post("send", bar.target, "enter", TRUE) /\ bar' = Cleared
  /\ UserActs /\ UNCHANGED <<agents, rows, cursor, threads>>

\* Ctrl+S in the large bar sends, whatever the mode.
SendMultiline(text) ==
  /\ bar.visible /\ bar.expanded /\ Len(posted) < MaxPosted
  /\ Post("send", IF text = "empty" THEN NoTarget ELSE bar.target, "ctrl+s", TRUE)
  /\ bar' = Cleared
  /\ UserActs /\ UNCHANGED <<agents, rows, cursor, threads>>

\* Ctrl+O makes a standing order of the line, whatever the mode; the bar stays.
SetStandingOrder ==
  /\ bar.visible /\ Len(posted) < MaxPosted
  /\ Post("orders", bar.target, "ctrl+o", FALSE)
  /\ UserActs /\ UNCHANGED <<agents, rows, cursor, bar, threads>>

PressEscape ==
  /\ bar.visible /\ Len(posted) < MaxPosted
  /\ Post("none", NoTarget, "escape", TRUE) /\ bar' = Cleared
  /\ UserActs /\ UNCHANGED <<agents, rows, cursor, threads>>

-----------------------------------------------------------------------------
(* The app handles a message *)

\* _send_to_resolved_session: keys go to the window.
HasWindow(i) == agents[i].is = "alive"

\* Mutant: the agent is looked up by its name.
ResolveByName(m) ==
  IF \E i \in CmdAgents \ Remote : NameOf[i] = NameOf[m.to] /\ agents[i].is # "absent"
  THEN CHOOSE i \in CmdAgents \ Remote : NameOf[i] = NameOf[m.to] /\ agents[i].is # "absent"
  ELSE NoTarget

\* _resolve_command_bar_session: by id, in the registry or in the list.
Resolve(m) ==
  IF m.to \notin Remote /\ agents[m.to].is # "absent" THEN m.to
  ELSE IF rows[m.to].is # "absent" /\ m.to \in Remote THEN m.to
  ELSE NoTarget

\* A sister resolves the name; a fork is made from the session as it was read.
Addressee(m) ==
  IF m.kind = "fork" /\ m.to \notin Remote THEN m.to
  ELSE IF Resolve(m) \in Remote
  THEN IF \E i \in Remote : NameOf[i] = NameOf[m.to] /\ agents[i].is # "absent"
       THEN CHOOSE i \in Remote : NameOf[i] = NameOf[m.to] /\ agents[i].is # "absent"
       ELSE NoTarget
  ELSE Resolve(m)

\* Text reaches only an agent that has a window, which it wakes up first.
Applied(agent, kind) ==
  CASE kind = "send" -> [agent EXCEPT !.asleep = FALSE]
    [] kind = "beatOn" -> [agent EXCEPT !.enabled = TRUE]
    [] kind = "beatOff" -> [agent EXCEPT !.enabled = FALSE]
    [] OTHER -> agent

HandleMessage(reachable) ==
  /\ posted # <<>> /\ Head(posted).kind # "clear"
  /\ LET m == Head(posted)
         i == Addressee(m)
     IN IF i = NoTarget \/ (m.to \in Remote /\ ~reachable)
        THEN effect' = NoEffect /\ UNCHANGED agents
        ELSE /\ agents' = [agents EXCEPT ![i] = Applied(@, m.kind)]
             /\ effect' = IF m.kind = "send" /\ ~HasWindow(i) THEN NoEffect
                          ELSE [on |-> i, kind |-> m.kind, label |-> m.label, via |-> m.via]
  /\ posted' = Tail(posted)
  /\ NoBound /\ UNCHANGED <<rows, cursor, bar, threads>>

\* on_command_bar_clear_requested selects the agent the bar was for.
HandleClear ==
  /\ posted # <<>> /\ Head(posted).kind = "clear"
  /\ bar' = [bar EXCEPT !.visible = FALSE]
  /\ cursor' = IF bar.target # NoTarget /\ rows[bar.target].is # "absent" THEN bar.target ELSE cursor
  /\ posted' = Tail(posted)
  /\ effect' = NoEffect /\ NoBound /\ UNCHANGED <<agents, rows, threads>>

-----------------------------------------------------------------------------
(* Keys that act on the selected agent *)

UpdateAgent(i, record) ==
  /\ agents' = [agents EXCEPT ![i] = IF @.is = "absent" THEN @ ELSE record]
  /\ rows' = IF i \in Remote THEN rows ELSE [rows EXCEPT ![i] = [record EXCEPT !.is = rows[i].is]]

\* What the row says decides; a running agent or one with an active heartbeat
\* is not put to sleep.
ToggleAgentSleep(running) ==
  /\ cursor # NoTarget /\ rows[cursor].is # "absent"
  /\ rows[cursor].asleep \/ cursor \in Remote
       \/ (~running /\ ~(rows[cursor].enabled /\ ~rows[cursor].paused))
  /\ UpdateAgent(cursor, [agents[cursor] EXCEPT !.asleep = ~rows[cursor].asleep])
  /\ UserActs /\ UNCHANGED <<cursor, bar, posted, threads>>

\* A heartbeat is not resumed on an agent that sleeps.
TogglePause ==
  /\ cursor # NoTarget /\ rows[cursor].enabled
  /\ ~(rows[cursor].paused /\ rows[cursor].asleep /\ cursor \notin Remote)
  /\ UpdateAgent(cursor, [agents[cursor] EXCEPT !.paused = ~rows[cursor].paused])
  /\ UserActs /\ UNCHANGED <<cursor, bar, posted, threads>>

AutoWake(i) ==
  IF rows[i].asleep THEN UpdateAgent(i, [agents[i] EXCEPT !.asleep = FALSE]) ELSE UNCHANGED <<agents, rows>>

\* A digit, Enter or Escape goes out in a thread of its own; all but Escape
\* wake the agent.  The digit of a free-text option opens the bar.
SendKey(key, freetext) ==
  /\ cursor # NoTarget /\ rows[cursor].is # "absent" /\ [to |-> cursor, key |-> key] \notin threads
  /\ threads' = threads \cup {[to |-> cursor, key |-> key]}
  /\ IF key # "escape" THEN AutoWake(cursor) ELSE UNCHANGED <<agents, rows>>
  /\ bar' = IF freetext /\ key = "digit" THEN [bar EXCEPT !.visible = TRUE, !.target = cursor, !.mode = "send"] ELSE bar
  /\ UserActs /\ UNCHANGED <<cursor, posted>>

\* send_to_session_by_id, whichever thread comes first.
KeyArrives(t) ==
  /\ t \in threads /\ threads' = threads \ {t}
  /\ effect' = IF ~HasWindow(t.to) THEN NoEffect
               ELSE [on |-> t.to, kind |-> "key", label |-> [agent |-> t.to, mode |-> "send"], via |-> t.key]
  /\ NoBound /\ UNCHANGED <<agents, rows, cursor, bar, posted>>

-----------------------------------------------------------------------------

CmdInit ==
  /\ agents \in [CmdAgents -> {NoSession, Launched}]
  /\ \A i, j \in CmdAgents \ Remote :
       NameOf[i] = NameOf[j] /\ agents[i].is = "alive" /\ agents[j].is = "alive" => i = j
  /\ rows = agents
  /\ cursor \in {i \in CmdAgents : agents[i].is = "alive"}
  /\ bar = ClosedBar /\ posted = <<>> /\ threads = {} /\ effect = NoEffect
  /\ keysPressed = 0 /\ outside = 0

CmdNext ==
  \/ \E i \in CmdAgents :
       \/ LaunchedElsewhere(i) \/ SelectRow(i)
       \/ \E to \in {NoSession, [agents[i] EXCEPT !.is = "ended"], [agents[i] EXCEPT !.asleep = TRUE]} :
            ChangedElsewhere(i, to)
  \/ RowsRefresh
  \/ \E mode \in Modes : OpenBar(mode)
  \/ OpenForkBar \/ ToggleExpand
  \/ \E text \in Texts : PressEnter(text) \/ SendMultiline(text)
  \/ SetStandingOrder \/ PressEscape
  \/ \E reachable \in BOOLEAN : HandleMessage(reachable)
  \/ HandleClear
  \/ \E running \in BOOLEAN : ToggleAgentSleep(running)
  \/ TogglePause
  \/ \E key \in {"digit", "enter", "escape"}, freetext \in BOOLEAN : SendKey(key, freetext)
  \/ \E t \in threads : KeyArrives(t)

CmdSpec == CmdInit /\ [][CmdNext]_cmdVars

-----------------------------------------------------------------------------
(* Properties *)

CmdTypeOK ==
  /\ \A i \in CmdAgents : agents[i].is \in {"absent", "alive", "ended"} /\ rows[i].is \in {"absent", "alive", "ended"}
  /\ cursor \in CmdAgents \cup {NoTarget}
  /\ bar.mode \in Modes /\ bar.target \in CmdAgents \cup {NoTarget}
  /\ bar.mode = "fork_name" => bar.fork # NoTarget
  /\ Len(posted) <= MaxPosted + 1

KindsOf == [send |-> {"send"}, standing_orders |-> {"orders"}, value |-> {"value"},
            cost_budget |-> {"budget"}, annotation |-> {"annotation"}, heartbeat_freq |-> {"beatOff"},
            heartbeat_instruction |-> {"beatOn"}, fork_name |-> {"fork"}]

\* A line that was submitted with Enter does what its label said when Enter
\* was pressed, to that very agent: also after the list changed, another row
\* was clicked while the bar was open, the agent was killed and its name given
\* to another, or the bar was opened again in another mode meanwhile.  (For an
\* agent of a sister, to the agent that has the name there.)
LineReachesItsAgent ==
  effect.via = "enter" /\ effect.kind # "key" =>
    /\ effect.kind \in KindsOf[effect.label.mode]
    /\ IF effect.label.agent \in Remote THEN NameOf[effect.on] = NameOf[effect.label.agent]
       ELSE effect.on = effect.label.agent
=============================================================================
