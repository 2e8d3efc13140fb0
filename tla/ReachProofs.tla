---------------------------- MODULE ReachProofs -----------------------------
(***************************************************************************)
(* Proofs about what reaches an agent and another machine, for any number  *)
(* of agents, threads and faults: a line typed in the command bar reaches  *)
(* the agent its label names, an outage of another machine hides none of   *)
(* its agents, and a pane that stands still is not taken for work.         *)
(*                                                                         *)
(* The modules share no variable: each is proved of its own specification, *)
(* and the last theorems bring them together for the behaviours that TLC   *)
(* runs.                                                                   *)
(***************************************************************************)
EXTENDS MCReach, StateFileProofs, SequenceTheorems

-----------------------------------------------------------------------------
(* The command bar *)

\* Agents, or none; the bar, and what it posts.
Targets == CmdAgents \cup {NoTarget}

Bars == [visible : BOOLEAN, target : Targets, mode : Modes, fork : Targets, expanded : BOOLEAN]

MessageKinds == {"send", "orders", "value", "budget", "annotation", "beatOn", "beatOff", "fork", "none", "clear"}

Messages == [kind : MessageKinds, to : Targets, via : {"enter", "ctrl+s", "ctrl+o", "escape"},
             label : [agent : Targets, mode : Modes]]

\* What a message does is what its label says, to the agent of the label.
Honest(m) ==
  m.via = "enter" /\ m.kind # "clear" =>
    /\ m.kind \in KindsOf[m.label.mode]
    /\ m.to = m.label.agent

\* The types; a bar that asks for the name of a fork has an agent to fork.
BarTyped ==
  /\ cursor \in Targets
  /\ bar \in Bars
  /\ bar.mode = "fork_name" => bar.fork # NoTarget

\* What waits to be handled is what its label says.
PostTyped ==
  /\ posted \in Seq(Messages)
  /\ \A i \in 1 .. Len(posted) : Honest(posted[i]) /\ (posted[i].kind # "clear" => posted[i].to \in CmdAgents)

\* The inductive invariant.
CmdInv == BarTyped /\ PostTyped /\ LineReachesItsAgent

\* What the bar's label shows: the agent it addresses and the mode.
LEMMA LabelType ==
  ASSUME BarTyped
  PROVE  Label \in [agent : Targets, mode : Modes]
  BY DEF BarTyped, Bars, Label

\* Post appends at most a message that does what the label says and one that hides the
\* bar (on_key and action_send of CommandBar).
LEMMA Posting ==
  ASSUME BarTyped, PostTyped, NEW kind \in MessageKinds \ {"clear"}, NEW to \in Targets,
         NEW via \in {"enter", "ctrl+s", "ctrl+o", "escape"}, NEW closes \in BOOLEAN,
         Post(kind, to, via, closes),
         via = "enter" /\ to # NoTarget => kind \in KindsOf[bar.mode] /\ to = Label.agent
  PROVE  PostTyped'
<1> DEFINE m == Message(kind, to, via)
           c == Message("clear", bar.target, via)
           Good(x) == x \in Messages /\ Honest(x) /\ (x.kind # "clear" => x.to \in CmdAgents)
<1>1. m \in Messages /\ c \in Messages
  BY LabelType DEF Message, Messages, MessageKinds, BarTyped, Bars
<1>2. Good(c)
  BY <1>1 DEF Message, Honest
<1>3. to # NoTarget => Good(m)
  BY <1>1 DEF Message, Honest, Label, Targets
<1> HIDE DEF m, c
<1>4. \E s : /\ posted' = posted \o s
             /\ s \in {<<>>, <<c>>} \/ (to # NoTarget /\ s \in {<<m>>, Append(<<m>>, c)})
  <2> DEFINE none == <<>>
             one == <<m>>
             last == <<c>>
  <2>1. /\ none \in Seq(Messages) /\ one \in Seq(Messages) /\ last \in Seq(Messages)
        /\ posted \in Seq(Messages)
    BY <1>1 DEF PostTyped
  <2>2. one \o last = Append(one, c)
    BY <1>1, <2>1, AppendIsConcat
  <2>3. posted' = (posted \o (IF to = NoTarget THEN none ELSE one)) \o (IF closes THEN last ELSE none)
    BY DEF Post, m, c
  <2> HIDE DEF one, last, none
  <2>4. \A x, y \in Seq(Messages) : (posted \o x) \o y = posted \o (x \o y)
    <3>1. \A s, t, u \in Seq(Messages) : (s \o t) \o u = s \o (t \o u)
      BY ConcatAssociative
    <3> QED
      BY <2>1, <3>1
  <2>5. none = <<>> /\ one = <<m>> /\ last = <<c>>
    BY DEF one, last, none
  <2>6. none \o none = none /\ none \o last = last /\ one \o none = one
    BY <2>1, ConcatEmptySeq DEF none
  <2>7. \E x \in {none, one}, y \in {none, last} :
           posted' = (posted \o x) \o y /\ (x = none \/ to # NoTarget)
    <3>1. CASE to = NoTarget
      BY <2>3, <3>1
    <3>2. CASE to # NoTarget
      BY <2>3, <3>2
    <3> QED
      BY <3>1, <3>2
  <2>8. PICK x \in {none, one}, y \in {none, last} :
           posted' = (posted \o x) \o y /\ (x = none \/ to # NoTarget)
    BY <2>7
  <2>9. posted' = posted \o (x \o y)
    BY <2>1, <2>4, <2>8
  <2>10. CASE x = none
    <3>1. x \o y = y /\ y \in {<<>>, <<c>>}
      BY <2>5, <2>6, <2>8, <2>10
    <3>2. posted' = posted \o y
      BY <2>9, <3>1
    <3> QED
      BY <3>1, <3>2, Zenon
  <2>11. CASE x # none
    BY <2>2, <2>5, <2>6, <2>8, <2>9, <2>11
  <2> QED
    BY <2>10, <2>11
<1>5. PICK s : /\ posted' = posted \o s
               /\ s \in {<<>>, <<c>>} \/ (to # NoTarget /\ s \in {<<m>>, Append(<<m>>, c)})
  BY <1>4
<1>6. s \in Seq(Messages) /\ \A j \in 1 .. Len(s) : Good(s[j])
  <2>1. s = <<>> \/ s = <<c>> \/ (s = <<m>> /\ to # NoTarget) \/ (s = Append(<<m>>, c) /\ to # NoTarget)
    BY <1>5
  <2> HIDE DEF Good
  <2>2. CASE s = <<>>
    BY <2>2
  <2>3. CASE s = <<c>>
    BY <2>3, <1>1, <1>2
  <2>4. CASE s = <<m>> /\ to # NoTarget
    BY <2>4, <1>1, <1>3
  <2>5. CASE s = Append(<<m>>, c) /\ to # NoTarget
    BY <2>5, <1>1, <1>2, <1>3
  <2> QED
    BY <2>1, <2>2, <2>3, <2>4, <2>5
<1>7. posted' \in Seq(Messages)
  BY <1>5, <1>6 DEF PostTyped
<1>8. ASSUME NEW i \in 1 .. Len(posted') PROVE Good(posted'[i])
  <2>1. Len(posted') = Len(posted) + Len(s) /\ Len(posted) \in Nat /\ Len(s) \in Nat
    BY <1>5, <1>6 DEF PostTyped
  <2>2. CASE i <= Len(posted)
    <3>1. posted'[i] = posted[i] /\ i \in 1 .. Len(posted)
      BY <1>5, <1>6, <2>1, <2>2 DEF PostTyped
    <3>2. posted[i] \in Messages
      BY <3>1 DEF PostTyped
    <3> QED
      BY <3>1, <3>2 DEF PostTyped
  <2>3. CASE ~ i <= Len(posted)
    <3>1. posted'[i] = s[i - Len(posted)] /\ i - Len(posted) \in 1 .. Len(s)
      BY <1>5, <1>6, <2>1, <2>3 DEF PostTyped
    <3> HIDE DEF Good
    <3> QED
      BY <1>6, <3>1
  <2> QED
    BY <2>2, <2>3
<1>9. \A i \in 1 .. Len(posted') : Honest(posted'[i]) /\ (posted'[i].kind # "clear" => posted'[i].to \in CmdAgents)
  BY <1>8
<1> HIDE DEF Good
<1> QED
  BY <1>7, <1>9 DEF PostTyped, Honest, KindsOf

\* A bar that is cleared after a line keeps the types.
LEMMA ClearedTyped ==
  ASSUME BarTyped, cursor' = cursor, bar' = Cleared
  PROVE  BarTyped'
  BY DEF BarTyped, Bars, Cleared, Modes, Targets

\* A line submitted with Enter is posted as its label says.
LEMMA EnterPosts ==
  ASSUME BarTyped, PostTyped, NEW text \in {"empty", "bad", "good"}, PressEnter(text)
  PROVE  BarTyped' /\ PostTyped'
<1> DEFINE t == bar.target
<1>0. /\ t \in Targets /\ bar.fork \in Targets /\ cursor' = cursor /\ NoTarget \in Targets
      /\ (bar.mode # "fork_name" => Label.agent = t)
      /\ (bar.mode = "fork_name" => Label.agent = bar.fork)
  BY DEF BarTyped, Bars, PressEnter, Label, Targets
<1>1. ASSUME NEW kind \in MessageKinds \ {"clear"}, NEW to \in {t, NoTarget},
             bar.mode # "fork_name", to # NoTarget => kind \in KindsOf[bar.mode],
             Post(kind, to, "enter", TRUE), bar' = Cleared
      PROVE  BarTyped' /\ PostTyped'
  BY <1>0, <1>1, Posting, ClearedTyped
<1>k. /\ \A k \in {"fork", "beatOff", "beatOn", "none", "send"} : k \in MessageKinds \ {"clear"}
      /\ "fork" \in KindsOf["fork_name"] /\ "beatOff" \in KindsOf["heartbeat_freq"]
      /\ "beatOn" \in KindsOf["heartbeat_instruction"] /\ "send" \in KindsOf["send"]
  BY DEF MessageKinds, KindsOf
<1> HIDE DEF t
<1>2. CASE bar.mode = "fork_name" /\ Post("fork", bar.fork, "enter", TRUE) /\ bar' = Cleared
  <2>1. PostTyped'
    BY <1>0, <1>k, <1>2, Posting
  <2> QED
    BY <1>0, <1>2, <2>1, ClearedTyped
<1>3. CASE /\ bar.mode \in DOMAIN SettingOf
           /\ IF text = "bad" /\ bar.mode \in {"value", "cost_budget"}
              THEN Post("none", NoTarget, "enter", TRUE)
              ELSE Post(SettingOf[bar.mode], t, "enter", TRUE)
           /\ bar' = Cleared
  <2>1. bar.mode # "fork_name" /\ SettingOf[bar.mode] \in MessageKinds \ {"clear"} /\ SettingOf[bar.mode] \in KindsOf[bar.mode]
    BY <1>3 DEF SettingOf, MessageKinds, KindsOf
  <2> QED
    BY <1>1, <1>k, <1>3, <2>1
<1>4. CASE bar.mode = "heartbeat_freq" /\ Post("beatOff", t, "enter", TRUE) /\ bar' = Cleared
  BY <1>1, <1>k, <1>4
<1>5. CASE UNCHANGED <<bar, posted>>
  BY <1>0, <1>5 DEF BarTyped, PostTyped, Honest
<1>6. CASE bar' = [bar EXCEPT !.mode = "heartbeat_instruction"] /\ UNCHANGED posted
  BY <1>0, <1>6 DEF BarTyped, PostTyped, Honest, Bars, Modes
<1>7. CASE /\ bar.mode = "heartbeat_instruction"
           /\ \/ Post("none", NoTarget, "enter", TRUE)
              \/ Post("beatOn", t, "enter", TRUE)
           /\ bar' = Cleared
  <2>1. CASE Post("none", NoTarget, "enter", TRUE)
    BY <1>1, <1>k, <1>7, <2>1
  <2>2. CASE Post("beatOn", t, "enter", TRUE)
    BY <1>1, <1>k, <1>7, <2>2
  <2> QED
    BY <1>7, <2>1, <2>2
<1>8. CASE bar.mode = "send" /\ Post("send", t, "enter", TRUE) /\ bar' = Cleared
  BY <1>1, <1>k, <1>8
<1> QED
  BY <1>2, <1>3, <1>4, <1>5, <1>6, <1>7, <1>8 DEF PressEnter, EnterHeartbeat, t

\* The steps that post nothing and touch no effect.
LEMMA Idle ==
  ASSUME BarTyped, PostTyped, UNCHANGED posted, BarTyped', effect' = NoEffect
  PROVE  CmdInv'
<1>1. LineReachesItsAgent'
  BY DEF LineReachesItsAgent, NoEffect
<1> QED
  BY <1>1 DEF CmdInv, PostTyped, Honest

\* The first message is handled and gone.
LEMMA Handled ==
  ASSUME PostTyped, posted # <<>>, posted' = Tail(posted)
  PROVE  /\ PostTyped'
         /\ Head(posted) \in Messages /\ Honest(Head(posted))
         /\ Head(posted).kind # "clear" => Head(posted).to \in CmdAgents
<1>1. Head(posted) = posted[1] /\ 1 \in 1 .. Len(posted)
  BY DEF PostTyped
<1>2. posted' \in Seq(Messages) /\ Head(posted) \in Messages
  BY HeadTailProperties DEF PostTyped
<1>3. ASSUME NEW i \in 1 .. Len(posted')
      PROVE  posted'[i] = posted[i + 1] /\ i + 1 \in 1 .. Len(posted)
  BY <1>3 DEF PostTyped
<1> QED
  BY <1>1, <1>2, <1>3 DEF PostTyped, Honest

\* A message reaches the agent it is for, or at a sister the one of its name.
LEMMA AddresseeIs ==
  ASSUME NEW m \in Messages, m.to \in CmdAgents, Addressee(m) # NoTarget
  PROVE  IF m.to \in Remote THEN NameOf[Addressee(m)] = NameOf[m.to] ELSE Addressee(m) = m.to
<1>1. Resolve(m) \in {m.to, NoTarget} /\ NoTarget \notin Remote
  BY CommandsAssumption DEF Resolve
<1>2. CASE m.to \notin Remote
  BY <1>1, <1>2 DEF Addressee
<1>3. CASE m.to \in Remote
  <2> DEFINE Named(i) == NameOf[i] = NameOf[m.to] /\ agents[i].is # "absent"
  <2>1. Resolve(m) \in Remote
    BY <1>1, <1>3 DEF Addressee
  <2>2. \E i \in Remote : Named(i)
    BY <1>3, <2>1 DEF Addressee
  <2>3. Addressee(m) = CHOOSE i \in Remote : Named(i)
    BY <1>3, <2>1, <2>2 DEF Addressee
  <2>4. Named(CHOOSE i \in Remote : Named(i))
    BY <2>2
  <2> QED
    BY <1>3, <2>3, <2>4
<1> QED
  BY <1>2, <1>3

\* What is done is what the label of the message said, whatever was selected or
\* killed between the key and the handler.
LEMMA HandlesHonestly ==
  ASSUME PostTyped, NEW up \in BOOLEAN, HandleMessage(up)
  PROVE  LineReachesItsAgent'
<1> DEFINE m == Head(posted)
           i == Addressee(m)
<1>1. m \in Messages /\ Honest(m) /\ m.to \in CmdAgents /\ m.kind # "clear"
  BY Handled DEF HandleMessage
<1>2. effect' = NoEffect \/ (i # NoTarget /\ effect' = [on |-> i, kind |-> m.kind, label |-> m.label, via |-> m.via])
  BY DEF HandleMessage
<1>3. CASE effect' = NoEffect
  BY <1>3 DEF LineReachesItsAgent, NoEffect
<1>4. CASE i # NoTarget /\ effect' = [on |-> i, kind |-> m.kind, label |-> m.label, via |-> m.via]
  <2>1. IF m.to \in Remote THEN NameOf[i] = NameOf[m.to] ELSE i = m.to
    BY <1>1, <1>4, AddresseeIs
  <2>2. effect'.on = i /\ effect'.kind = m.kind /\ effect'.label = m.label /\ effect'.via = m.via
    BY <1>4
  <2> HIDE DEF m, i
  <2> QED
    BY <1>1, <2>1, <2>2 DEF LineReachesItsAgent, Honest, KindsOf
<1> QED
  BY <1>2, <1>3, <1>4

\* Every step keeps the invariant.
LEMMA CmdStep ==
  ASSUME CmdInv, CmdNext
  PROVE  CmdInv'
<1> USE DEF CmdInv
<1>0. BarTyped /\ PostTyped
  OBVIOUS
<1>1. ASSUME UNCHANGED <<cursor, bar, posted>>, effect' = NoEffect PROVE CmdInv'
  <2>1. BarTyped'
    BY <1>0, <1>1 DEF BarTyped
  <2> QED
    BY <1>0, <1>1, <2>1, Idle
<1>2. ASSUME NEW x \in CmdAgents,
             \/ LaunchedElsewhere(x)
             \/ \E to \in {NoSession, [agents[x] EXCEPT !.is = "ended"], [agents[x] EXCEPT !.asleep = TRUE]} :
                  ChangedElsewhere(x, to)
      PROVE  CmdInv'
  BY <1>1, <1>2 DEF LaunchedElsewhere, ChangedElsewhere, OthersAct
<1>3. ASSUME UNCHANGED posted, effect' = NoEffect, cursor' \in Targets,
             bar' \in Bars /\ (bar'.mode = "fork_name" => bar'.fork # NoTarget)
      PROVE  CmdInv'
  <2>1. BarTyped'
    BY <1>3 DEF BarTyped
  <2> QED
    BY <1>0, <1>3, <2>1, Idle
<1>4. CASE RowsRefresh
  BY <1>0, <1>3, <1>4 DEF RowsRefresh, BarTyped, Targets
<1>5. ASSUME NEW x \in CmdAgents, SelectRow(x) PROVE CmdInv'
  BY <1>0, <1>3, <1>5 DEF SelectRow, BarTyped, Targets, UserActs
<1>6. ASSUME NEW md \in Modes, OpenBar(md) PROVE CmdInv'
  BY <1>0, <1>3, <1>6 DEF OpenBar, BarTyped, Bars, UserActs
<1>7. CASE OpenForkBar
  BY <1>0, <1>3, <1>7 DEF OpenForkBar, BarTyped, Bars, UserActs, Modes
<1>8. CASE ToggleExpand
  BY <1>0, <1>3, <1>8 DEF ToggleExpand, BarTyped, Bars, UserActs
<1>9. ASSUME BarTyped', PostTyped', effect' = NoEffect PROVE CmdInv'
  BY <1>9 DEF LineReachesItsAgent, NoEffect
<1>10. ASSUME NEW text \in Texts, PressEnter(text) PROVE CmdInv'
  <2>1. effect' = NoEffect
    BY <1>10 DEF PressEnter, UserActs
  <2> QED
    BY <1>0, <1>9, <1>10, <2>1, EnterPosts DEF Texts
<1>11. ASSUME NEW text \in Texts, SendMultiline(text) PROVE CmdInv'
  <2>1. PICK to \in Targets : Post("send", to, "ctrl+s", TRUE)
    BY <1>0, <1>11 DEF SendMultiline, BarTyped, Bars, Targets
  <2>2. PostTyped'
    BY <1>0, <2>1, Posting DEF MessageKinds
  <2>3. BarTyped' /\ effect' = NoEffect
    BY <1>0, <1>11, ClearedTyped DEF SendMultiline, UserActs
  <2> QED
    BY <1>9, <2>2, <2>3
<1>12. CASE SetStandingOrder
  <2>1. bar.target \in Targets
    BY <1>0 DEF BarTyped, Bars
  <2>2. PostTyped'
    BY <1>0, <1>12, <2>1, Posting DEF MessageKinds, SetStandingOrder
  <2>3. BarTyped' /\ effect' = NoEffect
    BY <1>0, <1>12 DEF SetStandingOrder, UserActs, BarTyped
  <2> QED
    BY <1>9, <2>2, <2>3
<1>13. CASE PressEscape
  <2>1. PostTyped'
    BY <1>0, <1>13, Posting DEF MessageKinds, PressEscape, Targets
  <2>2. BarTyped' /\ effect' = NoEffect
    BY <1>0, <1>13, ClearedTyped DEF PressEscape, UserActs
  <2> QED
    BY <1>9, <2>1, <2>2
<1>14. ASSUME NEW up \in BOOLEAN, HandleMessage(up) PROVE CmdInv'
  <2>1. PostTyped'
    BY <1>0, <1>14, Handled DEF HandleMessage
  <2>2. BarTyped'
    BY <1>0, <1>14 DEF HandleMessage, BarTyped
  <2> QED
    BY <1>0, <1>14, <2>1, <2>2, HandlesHonestly
<1>15. CASE HandleClear
  <2>1. PostTyped'
    BY <1>0, <1>15, Handled DEF HandleClear
  <2>2. BarTyped' /\ effect' = NoEffect
    BY <1>0, <1>15 DEF HandleClear, BarTyped, Bars
  <2> QED
    BY <1>9, <2>1, <2>2
<1>16. ASSUME NEW running \in BOOLEAN, ToggleAgentSleep(running) PROVE CmdInv'
  BY <1>1, <1>16 DEF ToggleAgentSleep, UserActs
<1>17. CASE TogglePause
  BY <1>1, <1>17 DEF TogglePause, UserActs
<1>18. ASSUME NEW key \in {"digit", "enter", "escape"}, NEW freetext \in BOOLEAN, SendKey(key, freetext)
       PROVE  CmdInv'
  <2>1. bar' = bar \/ bar' = [bar EXCEPT !.visible = TRUE, !.target = cursor, !.mode = "send"]
    BY <1>18 DEF SendKey
  <2> QED
    BY <1>0, <1>3, <1>18, <2>1 DEF SendKey, UserActs, BarTyped, Bars, Modes
<1>19. ASSUME NEW t \in threads, KeyArrives(t) PROVE CmdInv'
  <2>1. effect' = NoEffect \/ effect'.kind = "key"
    BY <1>19 DEF KeyArrives
  <2>2. LineReachesItsAgent'
    BY <2>1 DEF LineReachesItsAgent, NoEffect
  <2> QED
    BY <1>0, <1>19, <2>2 DEF KeyArrives, BarTyped, PostTyped, Honest
<1> QED
  BY <1>2, <1>4, <1>5, <1>6, <1>7, <1>8, <1>10, <1>11, <1>12, <1>13, <1>14, <1>15, <1>16, <1>17, <1>18,
     <1>19
     DEF CmdNext

\* The inductive invariant holds of every behaviour.
LEMMA CmdKept == CmdSpec => []CmdInv
<1>1. CmdInit => CmdInv
  BY CommandsAssumption DEF CmdInit, CmdInv, BarTyped, PostTyped, LineReachesItsAgent, ClosedBar,
     NoEffect, Bars, Modes,
     Targets
<1>2. CmdInv /\ [CmdNext]_cmdVars => CmdInv'
  <2>1. CmdInv /\ UNCHANGED cmdVars => CmdInv'
    BY DEF CmdInv, cmdVars, BarTyped, PostTyped, Honest, LineReachesItsAgent
  <2> QED
    BY <2>1, CmdStep
<1> QED
  BY <1>1, <1>2, PTL DEF CmdSpec

\* For any agents and names: what a submitted line did was of the kind its label showed
\* when it was submitted, and to the agent the label named.
THEOREM LineArrives == CmdSpec => []LineReachesItsAgent
<1>1. CmdInv => LineReachesItsAgent
  BY DEF CmdInv
<1> QED
  BY <1>1, CmdKept, PTL

-----------------------------------------------------------------------------
(* Another machine *)

\* The setting of an agent, or that there is none; threads and requests.
Settings == Values \cup {"gone"}

Polls == [at : {"idle", "waits", "told", "failed", "apply"}, list : Lists]

FastPolls == [at : {"idle", "waits", "told"}, who : Hosted \cup {"none"}, value : Settings]

ControlCalls == [at : {"idle", "waits", "answered"}, who : Hosted \cup {"none"}, to : Settings, ok : BOOLEAN]

Requests == [from : Pollers \cup {"fast", "ui", "nobody"}, ask : {"all", "one", "set", "kill", "launch"},
             who : Hosted \cup {"none"}, to : Settings]

\* A request about one agent names it.
SistersTyped ==
  /\ truth \in Lists /\ published \in Lists /\ known \in Lists /\ shown \in Lists
  /\ poll \in [Pollers -> Polls] /\ fast \in FastPolls /\ ui \in ControlCalls
  /\ requests \in Seq(Requests)
  /\ \A i \in 1 .. Len(requests) : requests[i].ask # "all" => requests[i].who \in Hosted

\* A list that hides only agents that some published list did not have.
Faithful(list) == \A a \in Hosted : list[a] = "gone" => a \in missed

\* The inductive invariant: what is published, known, shown, and what a thread is
\* about to apply hides nobody else; the faster thread never brings "gone".
ListsInv ==
  /\ SistersTyped
  /\ Faithful(published) /\ Faithful(known) /\ Faithful(shown)
  /\ \A k \in Pollers : poll[k].at \in {"told", "apply"} => Faithful(poll[k].list)
  /\ fast.at = "told" => fast.value # "gone"


\* A request is added, the first is taken, some are given up.
Queues ==
  \/ UNCHANGED requests
  \/ \E r \in Requests : (r.ask # "all" => r.who \in Hosted) /\ requests' = Append(requests, r)
  \/ requests # <<>> /\ requests' = Tail(requests)
  \/ requests' = <<>>
  \/ \E from \in Pollers \cup {"fast", "ui"} : requests' = Abandoned(from)

\* Requests that are added, served and given up name an agent, if they are about one.
LEMMA QueueTyped ==
  ASSUME SistersTyped, Queues
  PROVE  /\ requests' \in Seq(Requests)
         /\ \A i \in 1 .. Len(requests') : requests'[i].ask # "all" => requests'[i].who \in Hosted
<1>1. CASE UNCHANGED requests
  BY <1>1 DEF SistersTyped
<1>2. ASSUME NEW r \in Requests, r.ask # "all" => r.who \in Hosted, requests' = Append(requests, r)
      PROVE  /\ requests' \in Seq(Requests)
             /\ \A i \in 1 .. Len(requests') : requests'[i].ask # "all" => requests'[i].who \in Hosted
  BY <1>2 DEF SistersTyped
<1>3. CASE requests # <<>> /\ requests' = Tail(requests)
  <2>1. requests' \in Seq(Requests)
    BY <1>3 DEF SistersTyped
  <2>2. ASSUME NEW i \in 1 .. Len(requests') PROVE requests'[i] = requests[i + 1] /\ i + 1 \in 1 .. Len(requests)
    BY <1>3, <2>2 DEF SistersTyped
  <2> QED
    BY <2>1, <2>2 DEF SistersTyped
<1>4. CASE requests' = <<>>
  BY <1>4
<1>5. ASSUME NEW from \in Pollers \cup {"fast", "ui"}, requests' = Abandoned(from)
      PROVE  /\ requests' \in Seq(Requests)
             /\ \A i \in 1 .. Len(requests') : requests'[i].ask # "all" => requests'[i].who \in Hosted
  <2>0. DOMAIN requests = 1 .. Len(requests) /\ Len(requests) \in Nat /\ requests \in [1 .. Len(requests) -> Requests]
    BY DEF SistersTyped
  <2>1. ASSUME NEW i \in 1 .. Len(requests)
        PROVE  requests'[i] \in Requests /\ requests'[i].ask = requests[i].ask /\ requests'[i].who = requests[i].who
    <3>1. requests[i] \in Requests
      BY <2>0
    <3>2. requests'[i] = IF requests[i].from = from THEN [requests[i] EXCEPT !.from = "nobody"] ELSE requests[i]
      BY <1>5, <2>0, <2>1 DEF Abandoned
    <3> QED
      BY <3>1, <3>2 DEF Requests
  <2>2. requests' \in [1 .. Len(requests) -> Requests]
    BY <1>5, <2>0, <2>1 DEF Abandoned
  <2>3. requests' \in Seq(Requests) /\ Len(requests') = Len(requests)
    BY <2>0, <2>2
  <2> QED
    BY <2>1, <2>3 DEF SistersTyped
<1> QED
  BY <1>1, <1>2, <1>3, <1>4, <1>5 DEF Queues

\* The request that is served.
LEMMA HeadTyped ==
  ASSUME SistersTyped, requests # <<>>
  PROVE  Head(requests) \in Requests /\ (Head(requests).ask # "all" => Head(requests).who \in Hosted)
  BY DEF SistersTyped

\* Every step keeps: the lists that are published, known, shown and about to be applied
\* lack only agents that some published list lacked. The answer about one agent never
\* says that it is gone, so the faster thread hides nobody; a poll that failed applies
\* what is known (_reset_sister_state keeps the sessions).
LEMMA ListsStep ==
  ASSUME ListsInv, SistersNext
  PROVE  ListsInv' /\ \A a \in Hosted : shown[a] # "gone" /\ shown'[a] = "gone" => a \in missed
<1> DEFINE Goal == ListsInv' /\ \A a \in Hosted : shown[a] # "gone" /\ shown'[a] = "gone" => a \in missed
<1>0. SistersTyped
  BY DEF ListsInv
<1>1. ASSUME Queues, truth' \in Lists, published' \in Lists, known' \in Lists, shown' \in Lists,
             poll' \in [Pollers -> Polls], fast' \in FastPolls, ui' \in ControlCalls
      PROVE  SistersTyped'
  BY <1>0, <1>1, QueueTyped DEF SistersTyped
<1>2. ASSUME SistersTyped', UNCHANGED <<published, known, shown, poll, fast, missed>> PROVE Goal
  BY <1>2 DEF ListsInv, Faithful
<1>t. /\ truth \in Lists /\ published \in Lists /\ known \in Lists /\ shown \in Lists
      /\ poll \in [Pollers -> Polls] /\ fast \in FastPolls /\ ui \in ControlCalls
  BY <1>0 DEF SistersTyped
<1>n. Nothing \in Lists /\ NoPoll \in Polls /\ NoFast \in FastPolls /\ NoCall \in ControlCalls
  BY DEF Nothing, Lists, NoPoll, Polls, NoFast, FastPolls, NoCall, ControlCalls, Settings
<1>3. ASSUME NEW a \in Hosted, HostChanges(a) PROVE Goal
  <2>1. truth' \in Lists
    BY <1>3, <1>t DEF HostChanges, Lists
  <2>2. SistersTyped'
    BY <1>1, <1>3, <1>t, <2>1 DEF HostChanges, tuiSideVars, Queues
  <2> QED
    BY <1>2, <1>3, <2>2 DEF HostChanges, tuiSideVars
<1>4. CASE Publishes
  <2>1. SistersTyped'
    BY <1>1, <1>4, <1>t DEF Publishes, tuiSideVars, Queues
  <2>2. missed \subseteq missed' /\ published' = truth /\ \A a \in Hosted : truth[a] = "gone" => a \in missed'
    BY <1>4 DEF Publishes
  <2> QED
    BY <1>4, <2>1, <2>2 DEF Publishes, tuiSideVars, ListsInv, Faithful
<1>5. CASE DaemonStops \/ DaemonStarts \/ ServerStarts
  <2>1. SistersTyped'
    BY <1>1, <1>5, <1>t DEF DaemonStops, DaemonStarts, ServerStarts, tuiSideVars, Queues
  <2> QED
    BY <1>2, <1>5, <2>1 DEF DaemonStops, DaemonStarts, ServerStarts, tuiSideVars
\* Polls that change to a state in which nothing is about to be applied, or to
\* one in which a list that is faithful is.
<1>6. ASSUME SistersTyped', UNCHANGED <<published, known, shown, missed>>,
             fast' = fast \/ fast'.at # "told" \/ fast'.value # "gone",
             \A k \in Pollers : \/ poll'[k] = poll[k]
                                \/ poll'[k].at \notin {"told", "apply"}
                                \/ poll'[k].list \in {published, known}
      PROVE  Goal
  BY <1>6 DEF ListsInv, Faithful
<1>7. CASE ServerStops
  <2>1. /\ \A k \in Pollers : [NoPoll EXCEPT !.at = "failed"] \in Polls /\ [NoPoll EXCEPT !.at = "failed"].at = "failed"
        /\ [ui EXCEPT !.at = "answered"] \in ControlCalls
    BY <1>n, <1>t DEF Polls, ControlCalls
  <2>2. /\ poll' \in [Pollers -> Polls]
        /\ \A k \in Pollers : poll'[k] = poll[k] \/ poll'[k].at \notin {"told", "apply"}
    BY <1>7, <1>t, <2>1 DEF ServerStops
  <2>3. ui' \in ControlCalls /\ fast' \in FastPolls /\ (fast' = fast \/ fast'.at # "told")
    BY <1>7, <1>n, <1>t, <2>1 DEF ServerStops, NoFast
  <2>4. SistersTyped'
    BY <1>1, <1>7, <1>t, <2>2, <2>3 DEF ServerStops, Queues
  <2> QED
    BY <1>6, <1>7, <2>2, <2>3, <2>4 DEF ServerStops
<1>8. CASE Serves
  <2> DEFINE r == Head(requests)
  <2>1. r \in Requests /\ (r.ask # "all" => r.who \in Hosted) /\ Queues
    BY <1>0, <1>8, HeadTyped DEF Serves, Queues
  <2>2. UNCHANGED <<published, known, shown, missed>>
    BY <1>8 DEF Serves
  <2>3. CASE ServesStatus
    <3>1. UNCHANGED <<truth, fast, ui>> /\ (poll' = poll \/ poll' = [poll EXCEPT ![r.from] = [at |-> "told", list |-> published]])
      BY <2>3 DEF ServesStatus
    <3>2. [at |-> "told", list |-> published] \in Polls
      BY <1>t DEF Polls
    <3>3. poll' \in [Pollers -> Polls] /\ \A k \in Pollers : poll'[k] = poll[k] \/ poll'[k].list = published
      BY <1>t, <3>1, <3>2
    <3>4. SistersTyped'
      BY <1>1, <1>t, <2>1, <2>2, <3>1, <3>3
    <3> QED
      BY <1>6, <2>2, <3>1, <3>3, <3>4
  <2>4. CASE ServesOne
    <3>1. UNCHANGED <<truth, poll, ui>> /\ r.who \in Hosted
      BY <2>1, <2>4 DEF ServesOne
    <3>2. \/ fast' = fast
          \/ fast' = NoFast
          \/ fast' = [fast EXCEPT !.at = "told", !.value = published[r.who]] /\ published[r.who] # "gone"
      BY <2>4 DEF ServesOne
    <3>3. fast' \in FastPolls /\ (fast' = fast \/ fast'.at # "told" \/ fast'.value # "gone")
      <4>1. published[r.who] \in Settings
        BY <1>t, <3>1 DEF Lists, Settings
      <4> HIDE DEF r
      <4> QED
        BY <1>n, <1>t, <3>2, <4>1 DEF FastPolls, NoFast
    <3>4. SistersTyped'
      BY <1>1, <1>t, <2>1, <2>2, <3>1, <3>3
    <3> QED
      BY <1>6, <2>2, <3>1, <3>3, <3>4
  <2>5. CASE ServesControl
    <3>1. UNCHANGED <<poll, fast>> /\ truth' = Controlled(r) /\ r.who \in Hosted
      BY <2>1, <2>5 DEF ServesControl
    <3>2. truth' \in Lists
      <4>1. r.to \in Settings
        BY <2>1 DEF Requests
      <4> HIDE DEF r
      <4> QED
        BY <1>t, <3>1, <4>1 DEF Controlled, Lists, Settings, Values
    <3>3. ui' \in ControlCalls
      <4>1. ControlSucceeds(r) \in BOOLEAN
        BY DEF ControlSucceeds
      <4>2. ui' = ui \/ ui' = [ui EXCEPT !.at = "answered", !.ok = ControlSucceeds(r)]
        BY <2>5 DEF ServesControl
      <4> HIDE DEF r
      <4> QED
        BY <1>t, <4>1, <4>2 DEF ControlCalls
    <3>4. SistersTyped'
      BY <1>1, <1>t, <2>1, <2>2, <3>1, <3>2, <3>3
    <3> QED
      BY <1>2, <2>2, <3>1, <3>4
  <2> QED
    BY <1>8, <2>3, <2>4, <2>5 DEF Serves
<1>9. ASSUME NEW k \in Pollers, PollBegins(k) PROVE Goal
  <2>1. Queues
    <3>1. Request(k, "all", "none", "gone") \in Requests /\ Request(k, "all", "none", "gone").ask = "all"
      BY DEF Request, Requests, Settings
    <3> QED
      BY <1>9, <3>1 DEF PollBegins, Queues
  <2>2. PICK c \in {"waits", "failed"} : poll' = [poll EXCEPT ![k].at = c]
    BY <1>9 DEF PollBegins
  <2>3. poll' \in [Pollers -> Polls] /\ \A j \in Pollers : poll'[j] = poll[j] \/ poll'[j].at = c
    BY <1>t, <2>2 DEF Polls
  <2>4. SistersTyped'
    BY <1>1, <1>9, <1>t, <2>1, <2>3 DEF PollBegins, hostVars
  <2> QED
    BY <1>6, <1>9, <2>3, <2>4 DEF PollBegins, hostVars
<1>10. ASSUME NEW k \in Pollers, PollTimesOut(k) PROVE Goal
  <2>1. Queues
    BY <1>10 DEF PollTimesOut, Queues
  <2>2. poll' \in [Pollers -> Polls] /\ \A j \in Pollers : poll'[j] = poll[j] \/ poll'[j].at = "failed"
    BY <1>t, <1>10 DEF Polls, PollTimesOut
  <2>3. SistersTyped'
    BY <1>1, <1>10, <1>t, <2>1, <2>2 DEF PollTimesOut, hostVars
  <2> QED
    BY <1>6, <1>10, <2>2, <2>3 DEF PollTimesOut, hostVars
<1>11. ASSUME NEW k \in Pollers, ResetSisterState(k) PROVE Goal
  <2>1. [at |-> "apply", list |-> known] \in Polls
    BY <1>t DEF Polls
  <2>2. poll' \in [Pollers -> Polls] /\ \A j \in Pollers : poll'[j] = poll[j] \/ poll'[j].list = known
    BY <1>t, <1>11, <2>1 DEF ResetSisterState
  <2>3. SistersTyped'
    BY <1>1, <1>11, <1>t, <2>2 DEF ResetSisterState, hostVars, Queues
  <2> QED
    BY <1>6, <1>11, <2>2, <2>3 DEF ResetSisterState, hostVars
<1>12. ASSUME NEW k \in Pollers, PollSister(k) PROVE Goal
  <2>1. poll[k] \in Polls /\ poll[k].list \in Lists /\ Faithful(poll[k].list)
    BY <1>12, <1>t DEF PollSister, ListsInv, Polls
  <2>2. poll' \in [Pollers -> Polls] /\ \A j \in Pollers : poll'[j].list = poll[j].list /\ (j # k => poll'[j] = poll[j])
    BY <1>t, <1>12 DEF PollSister, Polls
  <2>3. SistersTyped' /\ known' = poll[k].list
    BY <1>1, <1>12, <1>t, <2>1, <2>2 DEF PollSister, hostVars, Queues
  <2>4. UNCHANGED <<published, shown, fast, missed>>
    BY <1>12 DEF PollSister, hostVars
  <2> QED
    BY <2>1, <2>2, <2>3, <2>4 DEF ListsInv, Faithful
<1>13. ASSUME NEW k \in Pollers, ApplyRemoteSessions(k) PROVE Goal
  <2>1. poll[k].list \in Lists /\ Faithful(poll[k].list)
    BY <1>13, <1>t DEF ApplyRemoteSessions, ListsInv, Polls
  <2>2. poll' \in [Pollers -> Polls] /\ \A j \in Pollers : poll'[j] = poll[j] \/ poll'[j].at = "idle"
    BY <1>t, <1>n, <1>13 DEF ApplyRemoteSessions, NoPoll
  <2>3. SistersTyped' /\ shown' = poll[k].list
    BY <1>1, <1>13, <1>t, <2>1, <2>2 DEF ApplyRemoteSessions, hostVars, Queues
  <2>4. UNCHANGED <<published, known, fast, missed>>
    BY <1>13 DEF ApplyRemoteSessions, hostVars
  <2> QED
    BY <2>1, <2>2, <2>3, <2>4 DEF ListsInv, Faithful
<1>14. ASSUME NEW a \in Hosted, FocusedPollBegins(a) PROVE Goal
  <2>1. Queues
    <3>1. Request("fast", "one", a, "gone") \in Requests /\ Request("fast", "one", a, "gone").who = a
      BY DEF Request, Requests, Settings
    <3> QED
      BY <1>14, <3>1 DEF FocusedPollBegins, Queues
  <2>2. fast' \in FastPolls /\ fast'.at # "told"
    BY <1>14, <1>n DEF FocusedPollBegins, FastPolls
  <2>3. SistersTyped'
    BY <1>1, <1>14, <1>t, <2>1, <2>2 DEF FocusedPollBegins, hostVars
  <2> QED
    BY <1>6, <1>14, <2>2, <2>3 DEF FocusedPollBegins, hostVars
<1>15. CASE FocusedPollTimesOut
  <2>1. Queues /\ fast' \in FastPolls /\ fast'.at # "told"
    BY <1>15, <1>n DEF FocusedPollTimesOut, Queues, NoFast
  <2>2. SistersTyped'
    BY <1>1, <1>15, <1>t, <2>1 DEF FocusedPollTimesOut, hostVars
  <2> QED
    BY <1>6, <1>15, <2>1, <2>2 DEF FocusedPollTimesOut, hostVars
<1>16. CASE ApplyFocusedSister
  <2>1. fast.value # "gone" /\ fast.value \in Settings
    BY <1>16, <1>t DEF ApplyFocusedSister, ListsInv, FastPolls
  <2>5. shown' = shown \/ shown' = [shown EXCEPT ![fast.who] = fast.value]
    BY <1>16 DEF ApplyFocusedSister
  <2>6. DOMAIN shown = Hosted
    BY <1>t DEF Lists
  <2>2. shown' \in Lists /\ \A a \in Hosted : shown'[a] = "gone" => shown[a] = "gone"
    BY <1>t, <2>1, <2>5, <2>6 DEF Lists, Settings
  <2>3. SistersTyped' /\ fast'.at # "told"
    BY <1>1, <1>16, <1>t, <1>n, <2>2 DEF ApplyFocusedSister, hostVars, Queues, NoFast
  <2>4. UNCHANGED <<published, known, poll, missed>>
    BY <1>16 DEF ApplyFocusedSister, hostVars
  <2> QED
    BY <2>2, <2>3, <2>4 DEF ListsInv, Faithful
<1>17. ASSUME NEW a \in Hosted, NEW ask \in {"set", "kill", "launch"}, NEW to \in Values, Calls(a, ask, to) PROVE Goal
  <2>1. Queues
    <3>1. Request("ui", ask, a, to) \in Requests /\ Request("ui", ask, a, to).who = a
      BY DEF Request, Requests, Settings
    <3> QED
      BY <1>17, <3>1 DEF Calls, Queues
  <2>2. ui' \in ControlCalls
    <3>1. [NoCall EXCEPT !.at = "waits", !.who = a, !.to = IF ask = "set" THEN to ELSE "gone"] \in ControlCalls
      BY <1>n DEF ControlCalls, Settings
    <3> QED
      BY <1>17, <1>n, <3>1 DEF Calls
  <2>3. SistersTyped'
    BY <1>1, <1>17, <1>t, <2>1, <2>2 DEF Calls, hostVars
  <2> QED
    BY <1>2, <1>17, <2>3 DEF Calls, hostVars
<1>18. CASE CallTimesOut
  <2>1. Queues /\ ui' \in ControlCalls
    BY <1>18, <1>n DEF CallTimesOut, Queues
  <2>2. SistersTyped'
    BY <1>1, <1>18, <1>t, <2>1 DEF CallTimesOut, hostVars
  <2> QED
    BY <1>2, <1>18, <2>2 DEF CallTimesOut, hostVars
<1>19. CASE CallEnds
  <2>1. ui.to \in Settings
    BY <1>t DEF ControlCalls
  <2>2. shown' \in Lists /\ \A a \in Hosted : shown'[a] = "gone" => shown[a] = "gone"
    BY <1>19, <1>t, <2>1 DEF CallEnds, Lists, Settings
  <2>3. SistersTyped'
    BY <1>1, <1>19, <1>t, <1>n, <2>2 DEF CallEnds, hostVars, Queues
  <2>4. UNCHANGED <<published, known, poll, fast, missed>>
    BY <1>19 DEF CallEnds, hostVars
  <2> QED
    BY <2>2, <2>3, <2>4 DEF ListsInv, Faithful
<1> QED
  BY <1>3, <1>4, <1>5, <1>7, <1>8, <1>9, <1>10, <1>11, <1>12, <1>13, <1>14, <1>15, <1>16, <1>17, <1>18,
     <1>19
     DEF SistersNext, PollerStep

\* The inductive invariant holds of every behaviour.
LEMMA ListsKept == SistersSpec => []ListsInv
<1>1. SistersInit => ListsInv
  <2> SUFFICES ASSUME SistersInit PROVE ListsInv
    OBVIOUS
  <2>1. truth \in Lists /\ \A a \in Hosted : truth[a] = "low"
    BY DEF SistersInit, Lists, Values
  <2>2. Nothing \in Lists /\ NoPoll \in Polls /\ NoFast \in FastPolls /\ NoCall \in ControlCalls
    BY DEF Nothing, Lists, NoPoll, Polls, NoFast, FastPolls, NoCall, ControlCalls, Settings
  <2>3. \A k \in Pollers : poll[k].at = "idle"
    BY DEF SistersInit, NoPoll
  <2> QED
    BY <2>1, <2>2, <2>3 DEF SistersInit, ListsInv, SistersTyped, Faithful, NoFast
<1>2. ListsInv /\ [SistersNext]_sisterVars => ListsInv'
  <2>1. ListsInv /\ UNCHANGED sisterVars => ListsInv'
    BY DEF ListsInv, SistersTyped, Faithful, sisterVars
  <2> QED
    BY <2>1, ListsStep
<1> QED
  BY <1>1, <1>2, PTL DEF SistersSpec

\* For any agents, threads and outages: an agent leaves the list of the TUI only if the
\* daemon of its machine has at some time published a list without it.
THEOREM NobodyHidden == SistersSpec => OutageHidesNobody
<1>1. ListsInv /\ [SistersNext]_sisterVars =>
        [\A a \in Hosted : shown[a] # "gone" /\ shown'[a] = "gone" => a \in missed]_sisterVars
  BY ListsStep
<1> QED
  BY <1>1, ListsKept, PTL DEF SistersSpec, OutageHidesNobody

-----------------------------------------------------------------------------
(* The status read off a pane *)

\* The types.
PollTyped ==
  /\ written \in Seq(Line)
  /\ statusBar \in 0 .. 1
  /\ claude \in {"working", "idle", "typed", "menu", "asking", "left", "gone"}
  /\ inFocus \in BOOLEAN /\ looked \in BOOLEAN

\* Until the pane changes otherwise than in its status bar, the detector remembers
\* what it would see at the depth of its last look.
RemembersPane == ~touched => claude # "gone" /\ remembered = ContentHash(CaptureAt(looked))

PollInv == PollTyped /\ RemembersPane

\* Two captures of one length that differ in lines of the status bar only have the same
\* hash (_filter_status_bar_for_hash).
LEMMA HashIgnoresBar ==
  ASSUME NEW s, NEW t, DOMAIN s = DOMAIN t,
         \A i \in DOMAIN s : s[i] = t[i] \/ (IsStatusBarLine(s[i]) /\ IsStatusBarLine(t[i]))
  PROVE  ContentHash(s) = ContentHash(t)
<1> DEFINE K(line) == IF IsContentLine(line) THEN <<line>> ELSE <<>>
<1>1. \A i \in DOMAIN s : K(s[i]) = K(t[i])
  BY DEF IsContentLine
<1>2. [i \in DOMAIN s |-> K(s[i])] = [i \in DOMAIN t |-> K(t[i])]
  BY <1>1
<1> QED
  BY <1>2 DEF ContentHash

\* The tail of some lines.
LEMMA LastOfIs ==
  ASSUME NEW X, NEW s \in Seq(X), NEW n \in Nat
  PROVE  /\ LastOf(s, n) \in Seq(X)
         /\ Len(LastOf(s, n)) = (IF Len(s) > n THEN n ELSE Len(s))
         /\ \A i \in 1 .. Len(LastOf(s, n)) : LastOf(s, n)[i] = s[IF Len(s) > n THEN Len(s) - n + i ELSE i]
<1> DEFINE m == IF Len(s) > n THEN Len(s) - n + 1 ELSE 1
<1>1. Len(s) \in Nat
  BY LenProperties
<1>2. m \in 1 .. Len(s) + 1 /\ Len(s) \in m - 1 .. Len(s)
  BY <1>1
<1>3. /\ SubSeq(s, m, Len(s)) \in Seq(X)
      /\ Len(SubSeq(s, m, Len(s))) = Len(s) - m + 1
      /\ \A i \in 1 .. Len(s) - m + 1 : SubSeq(s, m, Len(s))[i] = s[m + i - 1]
  <2> HIDE DEF m
  <2> QED
    BY <1>2, SubSeqProperties
<1>4. LastOf(s, n) = SubSeq(s, m, Len(s))
  BY DEF LastOf
<1>5. CASE Len(s) > n
  BY <1>1, <1>3, <1>4, <1>5
<1>6. CASE ~ Len(s) > n
  BY <1>1, <1>3, <1>4, <1>6
<1> QED
  BY <1>5, <1>6

\* Everything that is drawn is a line.
AnyLine ==
  [kind : Kinds \cup {"prompt", "busybar", "bar", "input", "menu", "dialog", "shell"}, n : 0 .. 1]

\* What Claude draws are one or two lines.
LEMMA Draws ==
  /\ \A k \in {"prompt", "busybar", "bar", "input", "menu", "dialog", "shell"}, n \in 0 .. 1 :
       [kind |-> k, n |-> n] \in AnyLine
  /\ \A a, b \in AnyLine : <<a, b>> \in Seq(AnyLine) /\ <<a>> \in Seq(AnyLine)
  BY DEF AnyLine

\* So they can follow what it has written.
LEMMA DrawnNow ==
  ASSUME PollTyped, claude # "gone"
  PROVE  Drawn \in Seq(AnyLine)
<1>1. \/ \E a, b \in AnyLine : Drawn = <<a, b>>
      \/ \E a \in AnyLine : Drawn = <<a>>
  BY Draws DEF PollTyped, Drawn
<1> QED
  BY <1>1, Draws

\* When the bar ticks, the capture keeps its length and every other line, whatever its
\* depth: the hash stays.
LEMMA BarMoves ==
  ASSUME PollTyped, claude # "gone", BarTicks
  PROVE  ContentHash(CaptureAt(looked))' = ContentHash(CaptureAt(looked))
<1> DEFINE old == written \o Drawn
           new == written \o Drawn'
<1>1. PollTyped' /\ written' = written /\ claude' = claude /\ looked' = looked
  BY DEF PollTyped, BarTicks
<1>2. Drawn \in Seq(AnyLine) /\ Drawn' \in Seq(AnyLine)
  <2>1. Drawn \in Seq(AnyLine)
    BY DrawnNow
  <2>2. \/ \E a, b \in AnyLine : Drawn' = <<a, b>>
        \/ \E a \in AnyLine : Drawn' = <<a>>
    BY <1>1, Draws DEF PollTyped, Drawn
  <2> QED
    BY <2>1, <2>2, Draws
<1>3. Len(Drawn) = Len(Drawn') /\ Len(Drawn) \in Nat
  BY <1>1 DEF PollTyped, Drawn
<1>4. \A i \in 1 .. Len(Drawn) : Drawn[i] = Drawn'[i] \/ (IsStatusBarLine(Drawn[i]) /\ IsStatusBarLine(Drawn'[i]))
  BY <1>1 DEF PollTyped, Drawn, IsStatusBarLine
<1>5. written \in Seq(AnyLine) /\ Len(written) \in Nat
  <2>1. Line \subseteq AnyLine
    BY DEF Line, AnyLine
  <2> QED
    BY <2>1, LenProperties, SeqMonotonic DEF PollTyped
<1>6. /\ old \in Seq(AnyLine) /\ new \in Seq(AnyLine) /\ Len(old) = Len(new) /\ Len(old) \in Nat
      /\ \A i \in 1 .. Len(old) : old[i] = new[i] \/ (IsStatusBarLine(old[i]) /\ IsStatusBarLine(new[i]))
  <2>1. /\ old \in Seq(AnyLine) /\ Len(old) = Len(written) + Len(Drawn)
        /\ \A i \in 1 .. Len(written) + Len(Drawn) :
             old[i] = IF i <= Len(written) THEN written[i] ELSE Drawn[i - Len(written)]
    BY <1>2, <1>5, ConcatProperties
  <2>2. /\ new \in Seq(AnyLine) /\ Len(new) = Len(written) + Len(Drawn')
        /\ \A i \in 1 .. Len(written) + Len(Drawn') :
             new[i] = IF i <= Len(written) THEN written[i] ELSE Drawn'[i - Len(written)]
    BY <1>2, <1>5, ConcatProperties
  <2> HIDE DEF old, new
  <2>3. ASSUME NEW i \in 1 .. Len(old)
        PROVE  old[i] = new[i] \/ (IsStatusBarLine(old[i]) /\ IsStatusBarLine(new[i]))
    <3>1. CASE i <= Len(written)
      BY <1>3, <1>5, <2>1, <2>2, <3>1
    <3>2. CASE ~ i <= Len(written)
      <4>1. i - Len(written) \in 1 .. Len(Drawn)
        BY <1>3, <1>5, <2>1, <3>2
      <4> QED
        BY <1>3, <1>4, <1>5, <2>1, <2>2, <3>2, <4>1
    <3> QED
      BY <3>1, <3>2
  <2> QED
    BY <1>3, <1>5, <2>1, <2>2, <2>3
<1>7. /\ CaptureAt(looked) = (IF looked THEN old ELSE LastOf(old, Tail100))
      /\ CaptureAt(looked)' = (IF looked THEN new ELSE LastOf(new, Tail100))
  BY <1>1 DEF CaptureAt, WholePane, LastOf
<1> HIDE DEF old, new
<1>8. ContentHash(old) = ContentHash(new)
  <2>1. DOMAIN old = DOMAIN new /\ DOMAIN old = 1 .. Len(old)
    BY <1>6, LenProperties
  <2> QED
    BY <1>6, <2>1, HashIgnoresBar
<1>9. ContentHash(LastOf(old, Tail100)) = ContentHash(LastOf(new, Tail100))
  <2> DEFINE s == LastOf(old, Tail100)
             t == LastOf(new, Tail100)
  <2>1. /\ s \in Seq(AnyLine) /\ Len(s) = (IF Len(old) > Tail100 THEN Tail100 ELSE Len(old))
        /\ \A i \in 1 .. Len(s) : s[i] = old[IF Len(old) > Tail100 THEN Len(old) - Tail100 + i ELSE i]
    BY <1>6, PollingAssumption, LastOfIs
  <2>2. /\ t \in Seq(AnyLine) /\ Len(t) = (IF Len(new) > Tail100 THEN Tail100 ELSE Len(new))
        /\ \A i \in 1 .. Len(t) : t[i] = new[IF Len(new) > Tail100 THEN Len(new) - Tail100 + i ELSE i]
    BY <1>6, PollingAssumption, LastOfIs
  <2> HIDE DEF s, t
  <2>3. DOMAIN s = 1 .. Len(s) /\ DOMAIN t = 1 .. Len(t) /\ Len(s) = Len(t)
    BY <1>6, <2>1, <2>2, LenProperties
  <2>4. ASSUME NEW i \in 1 .. Len(s)
        PROVE  s[i] = t[i] \/ (IsStatusBarLine(s[i]) /\ IsStatusBarLine(t[i]))
    <3> DEFINE j == IF Len(old) > Tail100 THEN Len(old) - Tail100 + i ELSE i
    <3>1. j \in 1 .. Len(old)
      BY <1>6, <2>1, PollingAssumption
    <3>2. s[i] = old[j] /\ t[i] = new[j]
      BY <1>6, <2>1, <2>2, <2>3
    <3> QED
      BY <1>6, <3>1, <3>2
  <2> QED
    BY <2>3, <2>4, HashIgnoresBar DEF s, t
<1> QED
  <2>1. ContentHash(CaptureAt(looked))' = ContentHash(CaptureAt(looked)')
    BY PollingAssumption DEF ContentHash, IsContentLine, IsStatusBarLine, LastOf
  <2> QED
    BY <1>7, <1>8, <1>9, <2>1

\* Without its last line the pane is still lines.
LEMMA FrontIs ==
  ASSUME NEW X, NEW s \in Seq(X)
  PROVE  Front(s) \in Seq(X)
<1>1. Len(s) \in Nat /\ \A i \in 1 .. Len(s) : s[i] \in X
  BY LenProperties, ElementOfSeq
<1>2. \A i \in 1 .. Len(s) - 1 : s[i] \in X
  BY <1>1
<1>3. SubSeq(s, 1, Len(s) - 1) \in Seq(X)
  BY <1>1, <1>2, SubSeqProperties
<1> QED
  BY <1>3 DEF Front

\* What is captured are lines.
LEMMA CaptureIs ==
  ASSUME PollTyped, claude # "gone"
  PROVE  Capture \in Seq(AnyLine)
<1>1. Drawn \in Seq(AnyLine)
  BY DrawnNow
<1>2. written \in Seq(AnyLine)
  <2>1. Line \subseteq AnyLine
    BY DEF Line, AnyLine
  <2> QED
    BY <2>1, SeqMonotonic DEF PollTyped
<1>3. WholePane \in Seq(AnyLine)
  BY <1>1, <1>2, ConcatProperties DEF WholePane
<1> QED
  BY <1>3, PollingAssumption, LastOfIs DEF Capture, CaptureAt

\* A pane that the shallow capture holds is the same at both depths.
LEMMA ShortPane ==
  ASSUME PollTyped, claude # "gone", ~ Len(WholePane) > Tail100
  PROVE  CaptureAt(TRUE) = CaptureAt(FALSE)
<1> DEFINE s == WholePane
           t == LastOf(s, Tail100)
<1>1. s \in Seq(AnyLine)
  <2>1. Line \subseteq AnyLine
    BY DEF Line, AnyLine
  <2>2. written \in Seq(AnyLine)
    BY <2>1, SeqMonotonic DEF PollTyped
  <2> QED
    BY <2>2, DrawnNow, ConcatProperties DEF WholePane
<1>2. ~ Len(s) > Tail100
  OBVIOUS
<1> HIDE DEF s
<1>3. /\ t \in Seq(AnyLine) /\ Len(t) = Len(s)
      /\ \A i \in 1 .. Len(t) : t[i] = s[i]
  BY <1>1, <1>2, PollingAssumption, LastOfIs
<1> HIDE DEF t
<1>4. s = t
  <2>1. /\ DOMAIN s = 1 .. Len(s) /\ DOMAIN t = 1 .. Len(t)
        /\ s = [i \in DOMAIN s |-> s[i]] /\ t = [i \in DOMAIN t |-> t[i]]
    BY <1>1, <1>3, LenProperties
  <2> QED
    BY <1>3, <2>1
<1> QED
  BY <1>4 DEF CaptureAt, s, t

\* What an agent shows that is not at work, at either depth: a dialog, a shell, or a
\* prompt, and no word of an interruption.
LEMMA AtRest ==
  ASSUME PollTyped, claude \notin {"gone", "working"}
  PROVE  \/ AsksPermission(Look(Capture)) \/ AtShellPrompt(Look(Capture)) \/ UserPrompt(Look(Capture))
<1> DEFINE w == WholePane
           c == Capture
           l == LastOf(c, Window)
<1>1. written \in Seq(AnyLine) /\ Drawn \in Seq(AnyLine) /\ Len(written) \in Nat
  <2>1. Line \subseteq AnyLine
    BY DEF Line, AnyLine
  <2> QED
    BY <2>1, SeqMonotonic, DrawnNow, LenProperties DEF PollTyped
<1>2. /\ w \in Seq(AnyLine) /\ Len(w) = Len(written) + Len(Drawn)
      /\ \A i \in 1 .. Len(written) + Len(Drawn) :
           w[i] = IF i <= Len(written) THEN written[i] ELSE Drawn[i - Len(written)]
  BY <1>1, ConcatProperties DEF WholePane
<1>3. Len(Drawn) \in 1 .. 2
  BY DEF PollTyped, Drawn
<1> HIDE DEF w
<1>4. \A k \in 0 .. Len(Drawn) - 1 : w[Len(w) - k] = Drawn[Len(Drawn) - k]
  <2> SUFFICES ASSUME NEW k \in 0 .. Len(Drawn) - 1 PROVE w[Len(w) - k] = Drawn[Len(Drawn) - k]
    OBVIOUS
  <2>1. /\ Len(w) - k \in 1 .. Len(written) + Len(Drawn) /\ ~ Len(w) - k <= Len(written)
        /\ (Len(w) - k) - Len(written) = Len(Drawn) - k
    BY <1>1, <1>2, <1>3
  <2> QED
    BY <1>2, <2>1
<1>5. /\ c \in Seq(AnyLine) /\ Len(c) \in Nat /\ Len(c) >= Len(Drawn)
      /\ \A k \in 0 .. Len(Drawn) - 1 : c[Len(c) - k] = w[Len(w) - k]
  <2>1. CASE inFocus
    <3>1. c = w
      BY <2>1 DEF Capture, CaptureAt, w
    <3> HIDE DEF c
    <3> QED
      BY <1>1, <1>2, <1>3, <3>1
  <2>2. CASE ~inFocus
    <3>1. c = LastOf(w, Tail100)
      BY <2>2 DEF Capture, CaptureAt, w
    <3> HIDE DEF c
    <3>2. /\ c \in Seq(AnyLine) /\ Len(c) = (IF Len(w) > Tail100 THEN Tail100 ELSE Len(w))
          /\ \A i \in 1 .. Len(c) : c[i] = w[IF Len(w) > Tail100 THEN Len(w) - Tail100 + i ELSE i]
      BY <1>2, <3>1, PollingAssumption, LastOfIs
    <3>3. Len(w) \in Nat /\ Len(w) >= Len(Drawn) /\ Len(c) >= Len(Drawn) /\ Len(c) \in Nat
      BY <1>1, <1>2, <1>3, <3>2, PollingAssumption
    <3>4. ASSUME NEW k \in 0 .. Len(Drawn) - 1 PROVE c[Len(c) - k] = w[Len(w) - k]
      <4>1. Len(c) - k \in 1 .. Len(c)
        BY <1>3, <3>3
      <4>2. (IF Len(w) > Tail100 THEN Len(w) - Tail100 + (Len(c) - k) ELSE Len(c) - k) = Len(w) - k
        BY <3>2, <3>3, PollingAssumption
      <4> QED
        BY <3>2, <4>1, <4>2
    <3> QED
      BY <3>2, <3>3, <3>4
  <2> QED
    BY <2>1, <2>2 DEF PollTyped
<1> HIDE DEF c
<1>6. /\ l \in Seq(AnyLine) /\ Len(l) \in Nat /\ Len(l) >= Len(Drawn)
      /\ \A k \in 0 .. Len(Drawn) - 1 : l[Len(l) - k] = c[Len(c) - k]
  <2>1. /\ l \in Seq(AnyLine) /\ Len(l) = (IF Len(c) > Window THEN Window ELSE Len(c))
        /\ \A i \in 1 .. Len(l) : l[i] = c[IF Len(c) > Window THEN Len(c) - Window + i ELSE i]
    BY <1>5, PollingAssumption, LastOfIs
  <2> HIDE DEF l
  <2>2. Len(l) >= Len(Drawn) /\ Len(l) \in Nat
    <3>1. Len(l) = (IF Len(c) > Window THEN Window ELSE Len(c)) /\ Len(c) \in Nat /\ Len(c) >= Len(Drawn)
      BY <1>5, <2>1
    <3>2. Window \in Nat /\ Window >= 2
      BY PollingAssumption
    <3>3. CASE Len(c) > Window
      BY <1>3, <3>1, <3>2, <3>3
    <3>4. CASE ~ Len(c) > Window
      BY <3>1, <3>4
    <3> QED
      BY <3>3, <3>4
  <2>3. ASSUME NEW k \in 0 .. Len(Drawn) - 1 PROVE l[Len(l) - k] = c[Len(c) - k]
    <3>1. Len(l) - k \in 1 .. Len(l)
      BY <1>3, <2>2
    <3>2. (IF Len(c) > Window THEN Len(c) - Window + (Len(l) - k) ELSE Len(l) - k) = Len(c) - k
      BY <1>5, <2>1, <2>2, PollingAssumption
    <3> QED
      BY <2>1, <3>1, <3>2
  <2> QED
    BY <2>1, <2>2, <2>3
<1> HIDE DEF l
<1>7. \A k \in 0 .. Len(Drawn) - 1 :
        /\ Len(l) - k \in DOMAIN l
        /\ l[Len(l) - k] = Drawn[Len(Drawn) - k]
        /\ c[Len(c) - k] = Drawn[Len(Drawn) - k]
  <2>1. DOMAIN l = 1 .. Len(l)
    BY <1>6, LenProperties
  <2> QED
    BY <1>3, <1>4, <1>5, <1>6, <2>1
<1>8. \A k \in 0 .. Len(Drawn) - 1 : Drawn[Len(Drawn) - k].kind \in LineKinds(l)
  BY <1>7 DEF LineKinds
<1>9. /\ Look(Capture).bottom = Drawn[Len(Drawn)].kind
      /\ Look(Capture).last = LineKinds(l)
      /\ Look(Capture).few = LineKinds(l) \ {"bar", "busybar"}
  <2>1. Len(Drawn) - 0 = Len(Drawn) /\ Len(c) - 0 = Len(c) /\ 0 \in 0 .. Len(Drawn) - 1
    <3>1. Len(c) \in Nat
      BY <1>5
    <3> QED
      BY <1>3, <3>1
  <2>2. Last(c) = Drawn[Len(Drawn)]
    BY <1>7, <2>1 DEF Last
  <2> QED
    BY <2>2 DEF Look, c, l
<1>10. CASE claude \in {"idle", "typed", "menu"}
  <2>1. Len(Drawn) = 2 /\ Drawn[2].kind \in {"bar", "menu"} /\ Drawn[1].kind \in {"prompt", "input"}
    BY <1>10 DEF Drawn
  <2>2. 1 \in 0 .. Len(Drawn) - 1 /\ Len(Drawn) - 1 = 1
    BY <2>1
  <2>3. Drawn[1].kind \in LineKinds(l)
    BY <1>8, <2>2
  <2> QED
    BY <1>9, <2>1, <2>3 DEF UserPrompt
<1>11. CASE claude = "asking"
  <2>1. Len(Drawn) = 1 /\ Drawn[1].kind = "dialog"
    BY <1>11 DEF Drawn
  <2>2. 0 \in 0 .. Len(Drawn) - 1 /\ Len(Drawn) - 0 = 1
    BY <2>1
  <2>3. "dialog" \in LineKinds(l)
    BY <1>8, <2>1, <2>2
  <2> QED
    BY <1>9, <2>3 DEF AsksPermission
<1>12. CASE claude = "left"
  <2>1. Len(Drawn) = 1 /\ Drawn[1].kind = "shell"
    BY <1>12 DEF Drawn
  <2> QED
    BY <1>9, <2>1 DEF AtShellPrompt
<1> QED
  BY <1>10, <1>11, <1>12 DEF PollTyped

\* The phases by which an agent is found running whose content is as it was, or which
\* asks, or whose shell or prompt is seen: 9 and 10.
LEMMA RunsBy ==
  ASSUME NEW look, DetectStatus(look) = "running",
         \/ ~ContentChanged(look) \/ AsksPermission(look) \/ AtShellPrompt(look) \/ UserPrompt(look)
  PROVE  ReadsActive(look) \/ look.tool = "tool"
<1> DEFINE p == Phases(look)
           I == {i \in 1 .. Len(p) : p[i].applies}
<1>1. /\ Len(p) = 13 /\ p[13].applies
      /\ \A i \in 1 .. 13 : p[i].status = "running" => i \in {5, 9, 10}
      /\ p[5].applies => ContentChanged(look)
      /\ AtShellPrompt(look) => p[2].applies
      /\ AsksPermission(look) => p[3].applies
      /\ ContentChanged(look) /\ UserPrompt(look) => p[4].applies
      /\ p[9].applies => ReadsActive(look)
      /\ p[10].applies => look.tool = "tool"
  <2>1. Len(p) = 13
    BY DEF Phases
  <2>2. /\ p[13].applies
        /\ p[2].applies = AtShellPrompt(look)
        /\ p[3].applies = AsksPermission(look)
        /\ p[4].applies = (ContentChanged(look) /\ UserPrompt(look))
        /\ p[5].applies = ContentChanged(look)
        /\ p[9].applies = ReadsActive(look)
        /\ p[10].applies = (look.tool = "tool")
    BY DEF Phases, Phase
  <2>3. /\ p[1].status # "running" /\ p[2].status # "running" /\ p[3].status # "running"
        /\ p[4].status # "running" /\ p[6].status # "running" /\ p[7].status # "running"
        /\ p[8].status # "running" /\ p[11].status # "running" /\ p[12].status # "running"
        /\ p[13].status # "running"
    BY DEF Phases, Phase
  <2>4. \A i \in 1 .. 13 : i \in {1, 2, 3, 4, 5, 6, 7, 8, 9, 10, 11, 12, 13}
    OBVIOUS
  <2> HIDE DEF p
  <2>5. \A i \in 1 .. 13 : p[i].status = "running" => i \in {5, 9, 10}
    BY <2>3, <2>4
  <2> QED
    BY <2>1, <2>2, <2>5
<1>2. FirstPhase(look) = p[IF I # {} THEN Min(I) ELSE 0]
  BY DEF FirstPhase, SelectInSeq
<1> HIDE DEF p
<1>3. I \in SUBSET Nat /\ 13 \in I
  BY <1>1
<1>4. PICK m \in I : \A x \in I : m <= x
  <2> HIDE DEF I
  <2> QED
    BY <1>3
<1>5. Min(I) \in I /\ \A x \in I : Min(I) <= x
  BY <1>4 DEF Min
<1>6. p[Min(I)].status = "running"
  BY <1>2, <1>5 DEF DetectStatus
<1>7. Min(I) \in {5, 9, 10} /\ p[Min(I)].applies
  BY <1>1, <1>5, <1>6
<1>8. Min(I) # 5
  <2> SUFFICES ASSUME Min(I) = 5 PROVE FALSE
    OBVIOUS
  <2>1. p[2].applies \/ p[3].applies \/ p[4].applies
    BY <1>1, <1>7
  <2>2. 2 \in I \/ 3 \in I \/ 4 \in I
    BY <1>1, <2>1
  <2> QED
    BY <1>5, <2>2
<1> QED
  BY <1>1, <1>7, <1>8

\* The tool that runs is among the lines.
LEMMA ToolIsThere ==
  ASSUME NEW lines \in Seq(AnyLine), LastTool(lines) = "tool"
  PROVE  "tool" \in LineKinds(lines)
<1> DEFINE ran == {i \in DOMAIN lines : IsExecutionLine(lines[i])}
<1>1. ran # {} /\ lines[Max(ran)].kind = "tool"
  BY DEF LastTool
<1>2. DOMAIN lines = 1 .. Len(lines) /\ Len(lines) \in Nat
  BY LenProperties
<1>3. IsFiniteSet(ran) /\ ran \subseteq Int
  <2>1. IsFiniteSet(1 .. Len(lines)) /\ ran \subseteq 1 .. Len(lines)
    BY <1>2, FS_Interval
  <2> QED
    BY <1>2, <2>1, FS_Subset
<1>4. Max(ran) \in ran
  BY <1>1, <1>3, MaxIsIn
<1> QED
  BY <1>1, <1>4 DEF LineKinds

\* Every step keeps what the detector remembers in line with the pane.
LEMMA PollStep ==
  ASSUME PollInv, [PollingNext]_pollVars
  PROVE  PollInv'
<1> USE DEF PollInv
<1>1. ASSUME UNCHANGED <<claude, written, statusBar, remembered, touched, looked>>, inFocus' \in BOOLEAN
      PROVE  PollInv'
  <2>1. PollTyped' /\ Drawn' = Drawn
    BY <1>1 DEF PollTyped, Drawn
  <2>2. CaptureAt(looked)' = CaptureAt(looked)
    BY <1>1, <2>1 DEF CaptureAt, WholePane, LastOf
  <2>3. ContentHash(CaptureAt(looked))' = ContentHash(CaptureAt(looked))
    BY <2>2, PollingAssumption DEF ContentHash, IsContentLine, IsStatusBarLine, LastOf
  <2> QED
    BY <1>1, <2>1, <2>3 DEF RemembersPane
<1>2. ASSUME touched' = TRUE, PollTyped' PROVE PollInv'
  BY <1>2 DEF RemembersPane
<1>3. CASE Writes
  <2>1. Front(written) \in Seq(Line)
    BY FrontIs DEF PollTyped
  <2>2. \A kind \in Kinds, n \in 0 .. 1 : [kind |-> kind, n |-> n] \in Line
    BY DEF Line
  <2>3. written' \in Seq(Line)
    <3>1. PICK kind \in Kinds : \/ written' = Append(written, [kind |-> kind, n |-> 0])
                                \/ written' = Append(Front(written), [kind |-> kind, n |-> 1])
      BY <1>3 DEF Writes
    <3>2. Append(written, [kind |-> kind, n |-> 0]) \in Seq(Line) /\ Append(Front(written), [kind |-> kind, n |-> 1]) \in Seq(Line)
      BY <2>1, <2>2, AppendProperties DEF PollTyped
    <3> QED
      BY <3>1, <3>2
  <2> QED
    BY <1>2, <1>3, <2>3 DEF Writes, PollTyped
<1>4. CASE ClaudeTurns
  BY <1>2, <1>4 DEF ClaudeTurns, PollTyped
<1>5. CASE BarTicks
  <2>1. PollTyped' /\ UNCHANGED <<claude, touched, remembered>>
    BY <1>5 DEF BarTicks, PollTyped
  <2>2. claude # "gone" => ContentHash(CaptureAt(looked))' = ContentHash(CaptureAt(looked))
    BY <1>5, BarMoves
  <2> QED
    BY <2>1, <2>2 DEF RemembersPane
<1>6. CASE FocusMoves
  BY <1>1, <1>6 DEF FocusMoves, PollTyped
<1>7. CASE SwitchesMode \/ DetectTerminated \/ DetectsByHooks
  BY <1>1, <1>7 DEF SwitchesMode, DetectTerminated, DetectsByHooks, PollTyped
<1>8. CASE Detects
  <2>1. /\ UNCHANGED <<claude, written, statusBar, inFocus>> /\ claude # "gone"
        /\ looked' = inFocus /\ remembered' = Look(Capture).hash
    BY <1>8 DEF Detects
  <2>2. PollTyped' /\ Drawn' = Drawn
    BY <2>1 DEF PollTyped, Drawn
  <2>3. CaptureAt(looked)' = Capture
    BY <2>1, <2>2 DEF Capture, CaptureAt, WholePane, LastOf
  <2>4. ContentHash(CaptureAt(looked))' = ContentHash(Capture)
    BY <2>3, PollingAssumption DEF ContentHash, IsContentLine, IsStatusBarLine, LastOf
  <2>5. Look(Capture).hash = ContentHash(Capture)
    BY DEF Look
  <2> QED
    BY <2>1, <2>2, <2>4, <2>5 DEF RemembersPane
<1>9. CASE UNCHANGED pollVars
  BY <1>1, <1>9 DEF pollVars, PollTyped
<1> QED
  BY <1>3, <1>4, <1>5, <1>6, <1>7, <1>8, <1>9 DEF PollingNext

\* The inductive invariant holds of every behaviour.
LEMMA PollKept == PollingSpec => []PollInv
<1>1. PollingInit => PollInv
  BY EmptySeq DEF PollingInit, PollInv, PollTyped, RemembersPane
<1>2. PollInv /\ [PollingNext]_pollVars => PollInv'
  BY PollStep
<1> QED
  BY <1>1, <1>2, PTL DEF PollingSpec

\* For panes of any number of lines, any depths of the capture and of the window: an agent
\* found running of a sudden is at work and its pane has changed, otherwise than in its
\* status bar, or it is long and read at another depth than before; or its last lines
\* read like work.
THEOREM NobodyFlashes == PollingSpec => NoFlash
<1>1. PollInv /\ [PollingNext]_pollVars
      => [mode = "polling" /\ answered # "running" /\ answered' = "running"
            => \/ ReadsLikeWork
               \/ claude = "working" /\ (touched \/ ReadAtOtherDepth)]_pollVars
  <2> SUFFICES ASSUME PollInv, [PollingNext]_pollVars, mode = "polling", answered # "running",
                      answered' = "running", ~(claude = "working" /\ (touched \/ ReadAtOtherDepth))
               PROVE  ReadsLikeWork
    OBVIOUS
  <2>1. Detects \/ DetectTerminated
    BY DEF PollingNext, pollVars, Writes, ClaudeTurns, BarTicks, FocusMoves, SwitchesMode,
      DetectsByHooks
  <2>2. Detects /\ claude # "gone"
    BY <2>1 DEF Detects, DetectTerminated
  <2>3. DetectStatus(Look(Capture)) = "running"
    BY <2>2 DEF Detects
  <2>4. \/ ~ContentChanged(Look(Capture)) \/ AsksPermission(Look(Capture))
        \/ AtShellPrompt(Look(Capture)) \/ UserPrompt(Look(Capture))
    <3>1. CASE claude # "working"
      BY <2>2, <3>1, AtRest DEF PollInv
    <3>2. CASE claude = "working"
      <4>1. ~touched /\ ~ReadAtOtherDepth
        BY <3>2
      <4>2. remembered = ContentHash(CaptureAt(looked))
        BY <4>1 DEF PollInv, RemembersPane
      <4>3. CaptureAt(looked) = Capture
        <5>1. CASE looked = inFocus
          BY <5>1 DEF Capture
        <5>2. CASE looked # inFocus
          <6>1. CaptureAt(TRUE) = CaptureAt(FALSE)
            BY <2>2, <4>1, <5>2, ShortPane DEF PollInv, ReadAtOtherDepth
          <6> QED
            BY <6>1 DEF Capture, PollInv, PollTyped
        <5> QED
          BY <5>1, <5>2
      <4> QED
        BY <4>2, <4>3 DEF ContentChanged, Look
    <3> QED
      BY <3>1, <3>2
  <2>5. ReadsActive(Look(Capture)) \/ Look(Capture).tool = "tool"
    BY <2>3, <2>4, RunsBy
  <2>6. CASE ReadsActive(Look(Capture))
    BY <2>6 DEF ReadsActive, ReadsLikeWork
  <2>7. CASE Look(Capture).tool = "tool"
    <3>1. LastTool(LastOf(Capture, Window)) = "tool"
      BY <2>7 DEF Look
    <3>2. LastOf(Capture, Window) \in Seq(AnyLine)
      BY <2>2, CaptureIs, PollingAssumption, LastOfIs DEF PollInv
    <3>3. "tool" \in LineKinds(LastOf(Capture, Window))
      BY <3>1, <3>2, ToolIsThere
    <3> QED
      BY <3>3 DEF Look, ReadsLikeWork
  <2> QED
    BY <2>5, <2>6, <2>7
<1> QED
  BY <1>1, PollKept, PTL DEF PollingSpec, NoFlash

-----------------------------------------------------------------------------
(* The types of all variables *)

\* What the registries and the list hold of an agent.
SessionRecords == [is : {"absent", "alive", "ended"}, asleep : BOOLEAN, enabled : BOOLEAN, paused : BOOLEAN]

\* The agents and the rows; at most one submitted line more than may be waits with what
\* hides the bar.
AgentsTyped ==
  /\ agents \in [CmdAgents -> SessionRecords] /\ rows \in [CmdAgents -> SessionRecords]
  /\ posted \in Seq(Messages) /\ Len(posted) <= MaxPosted + 1

\* A submitted line is one message or two.
LEMMA PostLonger ==
  ASSUME posted \in Seq(Messages), Len(posted) < MaxPosted,
         NEW kind, NEW to, NEW via, NEW closes \in BOOLEAN, Post(kind, to, via, closes), PostTyped'
  PROVE  posted' \in Seq(Messages) /\ Len(posted') <= MaxPosted + 1
<1> DEFINE one == Message(kind, to, via)
           two == Message("clear", bar.target, via)
           sent == IF to = NoTarget THEN <<>> ELSE <<one>>
           clear == IF closes THEN <<two>> ELSE <<>>
<1>1. posted' = posted \o sent \o clear
  BY DEF Post
<1> HIDE DEF one, two
<1> DEFINE X == Messages \cup {one, two}
<1>2. posted \in Seq(X)
  BY SeqMonotonic
<1>3. sent \in Seq(X) /\ Len(sent) <= 1 /\ clear \in Seq(X) /\ Len(clear) <= 1
  <2>1. <<>> \in Seq(X) /\ Len(<<>>) = 0
    BY EmptySeq
  <2>2. one \in X /\ two \in X
    OBVIOUS
  <2> HIDE DEF X
  <2>3. \A x \in X : <<x>> \in Seq(X) /\ Len(<<x>>) = 1
    OBVIOUS
  <2>4. sent \in Seq(X) /\ Len(sent) <= 1
    BY <2>1, <2>2, <2>3
  <2>5. clear \in Seq(X) /\ Len(clear) <= 1
    BY <2>1, <2>2, <2>3
  <2> QED
    BY <2>4, <2>5
<1> HIDE DEF sent, clear, X
<1>4. Len(posted) \in Nat /\ Len(sent) \in Nat /\ Len(clear) \in Nat /\ MaxPosted \in Nat
  BY <1>2, <1>3, LenProperties, CommandsAssumption
<1>5. posted \o sent \in Seq(X) /\ Len(posted \o sent) = Len(posted) + Len(sent)
  BY <1>2, <1>3, ConcatProperties
<1>6. Len(posted') = Len(posted) + Len(sent) + Len(clear)
  BY <1>1, <1>3, <1>5, ConcatProperties
<1>7. Len(posted') <= MaxPosted + 1
  BY <1>3, <1>4, <1>6
<1> QED
  BY <1>7 DEF PostTyped

\* What is done to an agent leaves it one.
LEMMA AppliedTyped ==
  ASSUME NEW s \in SessionRecords, NEW kind
  PROVE  Applied(s, kind) \in SessionRecords
  BY DEF Applied, SessionRecords

\* A key on a row is written into the registry and, for an agent of this machine, into the row.
LEMMA UpdateTyped ==
  ASSUME AgentsTyped, NEW x \in CmdAgents, NEW r \in SessionRecords, UpdateAgent(x, r)
  PROVE  agents' \in [CmdAgents -> SessionRecords] /\ rows' \in [CmdAgents -> SessionRecords]
<1>1. agents' \in [CmdAgents -> SessionRecords]
  BY DEF UpdateAgent, AgentsTyped
<1>2. [r EXCEPT !.is = rows[x].is] \in SessionRecords
  BY DEF AgentsTyped, SessionRecords
<1>3. rows' = rows \/ rows' = [rows EXCEPT ![x] = [r EXCEPT !.is = rows[x].is]]
  BY DEF UpdateAgent
<1> QED
  BY <1>1, <1>2, <1>3 DEF AgentsTyped

\* Every step keeps these types.
LEMMA AgentsStep ==
  ASSUME AgentsTyped, CmdInv, CmdInv', [CmdNext]_cmdVars
  PROVE  AgentsTyped'
<1>0. /\ AgentsTyped /\ cursor \in Targets /\ PostTyped' /\ PostTyped
      /\ posted \in Seq(Messages) /\ posted' \in Seq(Messages)
  BY DEF CmdInv, BarTyped, PostTyped
<1>1. ASSUME UNCHANGED posted, agents' \in [CmdAgents -> SessionRecords], rows' \in [CmdAgents -> SessionRecords]
      PROVE  AgentsTyped'
  BY <1>0, <1>1 DEF AgentsTyped
<1>2. ASSUME UNCHANGED <<agents, rows>>, Len(posted') <= MaxPosted + 1 PROVE AgentsTyped'
  BY <1>0, <1>2 DEF AgentsTyped
<1>3. ASSUME UNCHANGED <<agents, rows>>, Len(posted) < MaxPosted, NEW kind, NEW to, NEW via, NEW closes \in BOOLEAN,
             Post(kind, to, via, closes)
      PROVE  AgentsTyped'
  BY <1>0, <1>2, <1>3, PostLonger
<1>4. ASSUME UNCHANGED <<agents, rows, posted>> PROVE AgentsTyped'
  BY <1>0, <1>4 DEF AgentsTyped
<1>5. ASSUME posted # <<>>, posted' = Tail(posted) PROVE Len(posted') <= MaxPosted + 1
  <2>1. Len(posted') = Len(posted) - 1 /\ Len(posted) \in Nat
    BY <1>0, <1>5, HeadTailProperties, LenProperties
  <2> QED
    BY <2>1, CommandsAssumption DEF AgentsTyped
<1>6. ASSUME NEW x \in CmdAgents, LaunchedElsewhere(x) PROVE AgentsTyped'
  <2>1. Launched \in SessionRecords
    BY DEF Launched, NoSession, SessionRecords
  <2> QED
    BY <1>0, <1>1, <1>6, <2>1 DEF LaunchedElsewhere, AgentsTyped
<1>7. ASSUME NEW x \in CmdAgents, NEW to \in {NoSession, [agents[x] EXCEPT !.is = "ended"], [agents[x] EXCEPT !.asleep = TRUE]},
             ChangedElsewhere(x, to)
      PROVE  AgentsTyped'
  <2>1. agents[x] \in SessionRecords /\ NoSession \in SessionRecords
    BY DEF NoSession, SessionRecords, AgentsTyped
  <2>2. to \in SessionRecords
    BY <1>7, <2>1 DEF SessionRecords
  <2> QED
    BY <1>0, <1>1, <1>7, <2>2 DEF ChangedElsewhere, AgentsTyped
<1>8. CASE RowsRefresh
  BY <1>0, <1>1, <1>8 DEF RowsRefresh, AgentsTyped
<1>9. ASSUME NEW x \in CmdAgents, SelectRow(x) PROVE AgentsTyped'
  BY <1>4, <1>9 DEF SelectRow
<1>10. ASSUME (\E md \in Modes : OpenBar(md)) \/ OpenForkBar \/ ToggleExpand PROVE AgentsTyped'
  BY <1>4, <1>10 DEF OpenBar, OpenForkBar, ToggleExpand
<1>11. ASSUME NEW text \in Texts, PressEnter(text) PROVE AgentsTyped'
  <2>1. UNCHANGED <<agents, rows>> /\ Len(posted) < MaxPosted
    BY <1>11 DEF PressEnter
  <2>2. \/ UNCHANGED posted
        \/ \E kind \in MessageKinds, to \in Targets : Post(kind, to, "enter", TRUE)
    <3>1. bar.target \in Targets /\ bar.fork \in Targets /\ NoTarget \in Targets
      BY DEF CmdInv, BarTyped, Bars, Targets
    <3>2. bar.mode \in DOMAIN SettingOf => SettingOf[bar.mode] \in MessageKinds
      BY DEF SettingOf, MessageKinds
    <3> QED
      BY <1>11, <3>1, <3>2 DEF PressEnter, EnterHeartbeat, MessageKinds
  <2> QED
    BY <1>3, <1>4, <2>1, <2>2
<1>12. ASSUME NEW text \in Texts, SendMultiline(text) PROVE AgentsTyped'
  BY <1>3, <1>12 DEF SendMultiline
<1>13. CASE SetStandingOrder \/ PressEscape
  BY <1>3, <1>13 DEF SetStandingOrder, PressEscape
<1>14. ASSUME NEW up \in BOOLEAN, HandleMessage(up) PROVE AgentsTyped'
  <2> DEFINE m == Head(posted)
             i == Addressee(m)
  <2>1. posted # <<>> /\ posted' = Tail(posted) /\ UNCHANGED rows
    BY <1>14 DEF HandleMessage
  <2>2. agents' = agents \/ (i # NoTarget /\ agents' = [agents EXCEPT ![i] = Applied(agents[i], m.kind)])
    BY <1>14 DEF HandleMessage
  <2> HIDE DEF i, m
  <2>3. agents' \in [CmdAgents -> SessionRecords]
    <3>1. \A x \in CmdAgents : Applied(agents[x], m.kind) \in SessionRecords
      BY AppliedTyped DEF AgentsTyped
    <3> QED
      BY <2>2, <3>1 DEF AgentsTyped
  <2> QED
    BY <1>0, <1>5, <2>1, <2>3 DEF AgentsTyped
<1>15. CASE HandleClear
  BY <1>2, <1>5, <1>15 DEF HandleClear
<1>16. ASSUME NEW x \in CmdAgents, NEW r \in SessionRecords, UpdateAgent(x, r), UNCHANGED posted PROVE AgentsTyped'
  BY <1>1, <1>16, UpdateTyped
<1>17. \A x \in CmdAgents : agents[x] \in SessionRecords /\ rows[x] \in SessionRecords
  BY DEF AgentsTyped
<1>18. ASSUME (\E running \in BOOLEAN : ToggleAgentSleep(running)) \/ TogglePause PROVE AgentsTyped'
  <2>1. cursor \in CmdAgents /\ UNCHANGED posted
    BY <1>0, <1>18 DEF ToggleAgentSleep, TogglePause, Targets
  <2>2. (~rows[cursor].asleep) \in BOOLEAN /\ (~rows[cursor].paused) \in BOOLEAN
    BY Zenon
  <2>3. /\ [agents[cursor] EXCEPT !.asleep = ~rows[cursor].asleep] \in SessionRecords
        /\ [agents[cursor] EXCEPT !.paused = ~rows[cursor].paused] \in SessionRecords
    BY <1>17, <2>1, <2>2 DEF SessionRecords
  <2> QED
    BY <1>16, <1>18, <2>1, <2>3 DEF ToggleAgentSleep, TogglePause
<1>19. ASSUME NEW key \in {"digit", "enter", "escape"}, NEW freetext \in BOOLEAN, SendKey(key, freetext)
       PROVE  AgentsTyped'
  <2>1. cursor \in CmdAgents /\ UNCHANGED posted
    BY <1>0, <1>19 DEF SendKey, Targets
  <2>2. UpdateAgent(cursor, [agents[cursor] EXCEPT !.asleep = FALSE]) \/ UNCHANGED <<agents, rows>>
    BY <1>19 DEF SendKey, AutoWake
  <2>3. [agents[cursor] EXCEPT !.asleep = FALSE] \in SessionRecords
    BY <1>17, <2>1 DEF SessionRecords
  <2> QED
    BY <1>4, <1>16, <2>1, <2>2, <2>3
<1>20. ASSUME NEW t \in threads, KeyArrives(t) PROVE AgentsTyped'
  BY <1>4, <1>20 DEF KeyArrives
<1>21. CASE UNCHANGED cmdVars
  BY <1>4, <1>21 DEF cmdVars
<1> QED
  BY <1>6, <1>7, <1>8, <1>9, <1>10, <1>11, <1>12, <1>13, <1>14, <1>15, <1>18, <1>19, <1>20, <1>21 DEF CmdNext

\* Every variable of the command bar keeps its type, and no more messages wait than the
\* user may have submitted.
THEOREM CmdTypeCorrect == CmdSpec => []CmdTypeOK
<1>1. CmdInit => AgentsTyped
  <2> SUFFICES ASSUME CmdInit PROVE AgentsTyped
    OBVIOUS
  <2>1. NoSession \in SessionRecords /\ Launched \in SessionRecords
    BY DEF NoSession, Launched, SessionRecords
  <2>2. agents \in [CmdAgents -> SessionRecords] /\ rows = agents /\ posted = <<>>
    BY <2>1 DEF CmdInit
  <2>3. posted \in Seq(Messages) /\ Len(posted) = 0
    BY <2>2, EmptySeq
  <2> QED
    BY <2>2, <2>3, CommandsAssumption DEF AgentsTyped
<1>2. CmdInv /\ CmdInv' /\ AgentsTyped /\ [CmdNext]_cmdVars => AgentsTyped'
  BY AgentsStep
<1>3. CmdInv /\ AgentsTyped => CmdTypeOK
  BY DEF CmdInv, BarTyped, Bars, Targets, AgentsTyped, SessionRecords, CmdTypeOK
<1> QED
  BY <1>1, <1>2, <1>3, CmdKept, PTL DEF CmdSpec

\* The requests that wait for the server: one of each thread that waits, and one for
\* each client that gave up.
Waiting == {k \in Pollers : poll[k].at = "waits"}

RequestsCounted ==
  /\ outages \in 0 .. MaxOutages
  /\ Len(requests) <= Cardinality(Waiting) + (IF fast.at = "waits" THEN 1 ELSE 0)
                      + (IF ui.at = "waits" THEN 1 ELSE 0) + outages

\* When one thread goes on, one waits less or more, or as many do.
LEMMA WaitingMoves ==
  ASSUME SistersTyped, SistersTyped', NEW k \in Pollers, \A j \in Pollers \ {k} : poll'[j] = poll[j]
  PROVE  /\ Cardinality(Waiting) \in Nat /\ Cardinality(Waiting') \in Nat
         /\ poll[k].at = "waits" /\ poll'[k].at # "waits" => Cardinality(Waiting') = Cardinality(Waiting) - 1
         /\ poll[k].at # "waits" /\ poll'[k].at = "waits" => Cardinality(Waiting') = Cardinality(Waiting) + 1
         /\ (poll[k].at = "waits" <=> poll'[k].at = "waits") => Cardinality(Waiting') = Cardinality(Waiting)
<1>1. IsFiniteSet(Waiting) /\ IsFiniteSet(Waiting')
  <2>1. Waiting \subseteq Pollers /\ Waiting' \subseteq Pollers
    BY DEF Waiting
  <2> QED
    BY <2>1, SistersAssumption, FS_Subset
<1>2. Cardinality(Waiting) \in Nat /\ Cardinality(Waiting') \in Nat
  BY <1>1, FS_CardinalityType
<1>3. ASSUME poll[k].at = "waits", poll'[k].at # "waits" PROVE Cardinality(Waiting') = Cardinality(Waiting) - 1
  <2>1. k \in Waiting /\ Waiting' = Waiting \ {k}
    BY <1>3 DEF Waiting
  <2> QED
    BY <1>1, <2>1, FS_RemoveElement
<1>4. ASSUME poll[k].at # "waits", poll'[k].at = "waits" PROVE Cardinality(Waiting') = Cardinality(Waiting) + 1
  <2>1. k \notin Waiting /\ Waiting' = Waiting \cup {k}
    BY <1>4 DEF Waiting
  <2> QED
    BY <1>1, <2>1, FS_AddElement
<1>5. ASSUME poll[k].at = "waits" <=> poll'[k].at = "waits" PROVE Waiting' = Waiting
  BY <1>5 DEF Waiting
<1> QED
  BY <1>2, <1>3, <1>4, <1>5

\* Every step keeps the count: whoever asks waits, and the answer to a client that gave up
\* is nobody's.
LEMMA RequestsStep ==
  ASSUME SistersTyped, SistersTyped', RequestsCounted, [SistersNext]_sisterVars
  PROVE  RequestsCounted'
<1> USE SistersAssumption
<1> DEFINE F == IF fast.at = "waits" THEN 1 ELSE 0
           U == IF ui.at = "waits" THEN 1 ELSE 0
           W == Cardinality(Waiting)
<1>0. /\ Len(requests) \in Nat /\ Len(requests') \in Nat /\ outages \in Nat /\ MaxOutages \in Nat
      /\ W \in Nat /\ W' \in Nat /\ outages <= MaxOutages
  <2>1. IsFiniteSet(Waiting) /\ IsFiniteSet(Waiting')
    <3>1. Waiting \subseteq Pollers /\ Waiting' \subseteq Pollers
      BY DEF Waiting
    <3> QED
      BY <3>1, FS_Subset
  <2>2. W \in Nat /\ W' \in Nat
    BY <2>1, FS_CardinalityType
  <2>3. Len(requests) \in Nat /\ Len(requests') \in Nat
    BY LenProperties DEF SistersTyped
  <2> QED
    BY <2>2, <2>3 DEF RequestsCounted
<1>1. Len(requests) <= W + F + U + outages
  BY DEF RequestsCounted
<1> DEFINE Fits == outages' \in 0 .. MaxOutages /\ Len(requests') <= W' + F' + U' + outages'
<1>2. Fits => RequestsCounted'
  BY DEF RequestsCounted
<1>3. UNCHANGED poll => W' = W
  BY DEF Waiting
<1> HIDE DEF W
<1>4. ASSUME UNCHANGED poll, Len(requests') + outages - outages' <= Len(requests),
             F' >= F, U' >= U, outages' \in 0 .. MaxOutages
      PROVE  RequestsCounted'
  BY <1>0, <1>1, <1>2, <1>3, <1>4
<1>5. ASSUME (\E a \in Hosted : HostChanges(a)) \/ Publishes \/ DaemonStops \/ DaemonStarts \/ ServerStarts
      PROVE  RequestsCounted'
  BY <1>0, <1>4, <1>5 DEF HostChanges, Publishes, DaemonStops, DaemonStarts, ServerStarts, tuiSideVars
<1>6. \A r : r \in Requests => Len(Append(requests, r)) = Len(requests) + 1
  BY AppendProperties DEF SistersTyped
<1>7. \A from : Len(Abandoned(from)) = Len(requests)
  <2>1. DOMAIN requests = 1 .. Len(requests)
    BY LenProperties DEF SistersTyped
  <2> QED
    BY <1>0, <2>1 DEF Abandoned
<1>8. CASE ServerStops
  <2>1. Len(requests') = 0
    BY <1>8, EmptySeq DEF ServerStops
  <2> QED
    BY <1>0, <1>2, <1>8, <2>1 DEF ServerStops
<1>9. CASE Serves
  <2> DEFINE r == Head(requests)
  <2>1. Len(requests') + 1 = Len(requests) /\ outages' = outages
    BY <1>0, <1>9, HeadTailProperties DEF Serves, SistersTyped
  <2>2. CASE ServesStatus
    <3>1. UNCHANGED <<fast, ui>>
      BY <2>2 DEF ServesStatus
    <3>2. poll' = poll \/ poll' = [poll EXCEPT ![r.from] = [at |-> "told", list |-> published]]
      BY <2>2 DEF ServesStatus
    <3> HIDE DEF r
    <3>3. CASE r.from \in Pollers
      <4>1. /\ \A j \in Pollers \ {r.from} : poll'[j] = poll[j]
            /\ poll'[r.from] = poll[r.from] \/ poll'[r.from].at = "told"
        BY <3>2, <3>3 DEF SistersTyped
      <4>2. W' >= W - 1
        BY <1>0, <3>3, <4>1, WaitingMoves DEF W
      <4> QED
        BY <1>0, <1>1, <1>2, <2>1, <3>1, <4>2 DEF RequestsCounted
    <3>4. CASE r.from \notin Pollers
      <4>1. \A j \in Pollers : poll'[j] = poll[j]
        BY <3>2, <3>4 DEF SistersTyped
      <4>2. W' = W
        BY <4>1 DEF W, Waiting
      <4> QED
        BY <1>0, <1>1, <1>2, <2>1, <3>1, <4>2 DEF RequestsCounted
    <3> QED
      BY <3>3, <3>4
  <2>3. CASE ServesOne \/ ServesControl
    <3>1. UNCHANGED poll /\ (UNCHANGED fast \/ UNCHANGED ui)
      BY <2>3 DEF ServesOne, ServesControl
    <3>2. F' + U' >= F + U - 1
      BY <3>1
    <3> QED
      BY <1>0, <1>1, <1>2, <1>3, <2>1, <3>1, <3>2 DEF RequestsCounted
  <2> QED
    BY <1>9, <2>2, <2>3 DEF Serves
<1>10. ASSUME NEW k \in Pollers, PollBegins(k) PROVE RequestsCounted'
  <2>1. UNCHANGED <<fast, ui, outages>> /\ poll[k].at = "idle" /\ \A j \in Pollers \ {k} : poll'[j] = poll[j]
    BY <1>10 DEF PollBegins, SistersTyped
  <2>2. CASE serving
    <3>1. poll'[k].at = "waits" /\ Len(requests') = Len(requests) + 1
      <4>1. Request(k, "all", "none", "gone") \in Requests
        BY DEF Request, Requests, Settings
      <4> QED
        BY <1>6, <1>10, <2>2, <4>1 DEF PollBegins, SistersTyped, Polls
    <3>2. W' = W + 1
      BY <2>1, <3>1, WaitingMoves DEF W
    <3> QED
      BY <1>0, <1>1, <1>2, <2>1, <3>1, <3>2 DEF RequestsCounted
  <2>3. CASE ~serving
    <3>1. poll'[k].at = "failed" /\ requests' = requests
      BY <1>10, <2>3 DEF PollBegins, SistersTyped, Polls
    <3>2. W' = W
      BY <2>1, <3>1, WaitingMoves DEF W
    <3> QED
      BY <1>0, <1>1, <1>2, <2>1, <3>1, <3>2 DEF RequestsCounted
  <2> QED
    BY <2>2, <2>3
<1>11. ASSUME NEW k \in Pollers, PollTimesOut(k) PROVE RequestsCounted'
  <2>1. /\ UNCHANGED <<fast, ui>> /\ outages < MaxOutages /\ outages' = outages + 1
        /\ poll[k].at = "waits" /\ poll'[k].at = "failed" /\ \A j \in Pollers \ {k} : poll'[j] = poll[j]
    BY <1>11 DEF PollTimesOut, SistersTyped, Polls
  <2>2. Len(requests') = Len(requests)
    BY <1>7, <1>11 DEF PollTimesOut
  <2>3. W' = W - 1
    BY <2>1, WaitingMoves DEF W
  <2>4. F' = F /\ U' = U
    BY <2>1
  <2> HIDE DEF F, U
  <2>5. F \in Nat /\ U \in Nat
    BY DEF F, U
  <2>6. outages' \in 0 .. MaxOutages
    BY <1>0, <2>1
  <2>7. Len(requests') <= W' + F' + U' + outages'
    BY <1>0, <1>1, <2>1, <2>2, <2>3, <2>4, <2>5
  <2> QED
    BY <1>2, <2>6, <2>7
<1>12. ASSUME NEW k \in Pollers, ResetSisterState(k) \/ PollSister(k) \/ ApplyRemoteSessions(k)
       PROVE  RequestsCounted'
  <2>1. /\ UNCHANGED <<fast, ui, outages, requests>>
        /\ poll[k].at # "waits" /\ poll'[k].at # "waits" /\ \A j \in Pollers \ {k} : poll'[j] = poll[j]
    BY <1>12 DEF ResetSisterState, PollSister, ApplyRemoteSessions, NoPoll, SistersTyped, Polls
  <2>2. W' = W
    BY <2>1, WaitingMoves DEF W
  <2> QED
    BY <1>0, <1>1, <1>2, <2>1, <2>2 DEF RequestsCounted
<1>13. ASSUME NEW a \in Hosted, FocusedPollBegins(a) PROVE RequestsCounted'
  <2>1. Request("fast", "one", a, "gone") \in Requests
    BY DEF Request, Requests, Settings
  <2>2. /\ UNCHANGED <<poll, ui, outages>> /\ fast.at = "idle" /\ fast'.at = "waits"
        /\ Len(requests') = Len(requests) + 1
    BY <1>6, <1>13, <2>1 DEF FocusedPollBegins, NoFast
  <2> QED
    BY <1>0, <1>1, <1>2, <1>3, <2>2 DEF RequestsCounted
<1>14. CASE FocusedPollTimesOut
  <2>1. /\ UNCHANGED <<poll, ui>> /\ outages < MaxOutages /\ outages' = outages + 1 /\ Len(requests') = Len(requests)
    BY <1>7, <1>14 DEF FocusedPollTimesOut
  <2> QED
    BY <1>0, <1>1, <1>2, <1>3, <2>1
<1>15. CASE ApplyFocusedSister \/ CallEnds
  <2>1. UNCHANGED <<poll, requests, outages>> /\ F' >= F /\ U' >= U
    BY <1>15 DEF ApplyFocusedSister, CallEnds
  <2> QED
    BY <1>0, <1>4, <2>1 DEF RequestsCounted
<1>16. ASSUME NEW a \in Hosted, NEW ask \in {"set", "kill", "launch"}, NEW to \in Values, Calls(a, ask, to)
       PROVE  RequestsCounted'
  <2>1. UNCHANGED <<poll, fast, outages>> /\ ui.at = "idle"
    BY <1>16 DEF Calls
  <2>2. CASE serving
    <3>1. Request("ui", ask, a, to) \in Requests
      BY DEF Request, Requests, Settings
    <3>2. ui'.at = "waits" /\ Len(requests') = Len(requests) + 1
      BY <1>6, <1>16, <2>2, <3>1 DEF Calls, NoCall
    <3> QED
      BY <1>0, <1>1, <1>2, <1>3, <2>1, <3>2 DEF RequestsCounted
  <2>3. CASE ~serving
    BY <1>0, <1>4, <1>16, <2>1, <2>3 DEF Calls, RequestsCounted
  <2> QED
    BY <2>2, <2>3
<1>17. CASE CallTimesOut
  <2>1. /\ UNCHANGED <<poll, fast>> /\ outages < MaxOutages /\ outages' = outages + 1 /\ Len(requests') = Len(requests)
    BY <1>7, <1>17 DEF CallTimesOut
  <2> QED
    BY <1>0, <1>1, <1>2, <1>3, <2>1
<1>18. CASE UNCHANGED sisterVars
  BY <1>0, <1>4, <1>18 DEF sisterVars, RequestsCounted
<1> QED
  BY <1>5, <1>8, <1>9, <1>10, <1>11, <1>12, <1>13, <1>14, <1>15, <1>16, <1>17, <1>18 DEF SistersNext, PollerStep

\* Every variable of the sisters keeps its type, and no more requests wait for the server
\* than there are clients and requests given up.
THEOREM SistersTypeCorrect == SistersSpec => []SistersTypeOK
<1> USE SistersAssumption
<1>1. SistersInit => RequestsCounted
  <2> SUFFICES ASSUME SistersInit PROVE RequestsCounted
    OBVIOUS
  <2>1. Waiting = {} /\ Cardinality(Waiting) = 0
    <3>1. Waiting = {}
      BY DEF SistersInit, Waiting, NoPoll
    <3> QED
      BY <3>1, FS_EmptySet
  <2>2. Len(requests) = 0 /\ outages = 0 /\ fast.at = "idle" /\ ui.at = "idle"
    BY EmptySeq DEF SistersInit, NoFast, NoCall
  <2> QED
    BY <2>1, <2>2 DEF RequestsCounted
<1>2. ListsInv /\ ListsInv' /\ RequestsCounted /\ [SistersNext]_sisterVars => RequestsCounted'
  BY RequestsStep DEF ListsInv
<1>3. ListsInv /\ RequestsCounted => SistersTypeOK
  <2> SUFFICES ASSUME ListsInv, RequestsCounted PROVE SistersTypeOK
    OBVIOUS
  <2>1. SistersTyped
    BY DEF ListsInv
  <2>2. /\ {truth, published, known, shown} \subseteq Lists
        /\ \A k \in Pollers : poll[k].at \in {"idle", "waits", "told", "failed", "apply"} /\ poll[k].list \in Lists
        /\ fast.at \in {"idle", "waits", "told"} /\ ui.at \in {"idle", "waits", "answered"}
    BY <2>1 DEF SistersTyped, Polls, FastPolls, ControlCalls
  <2>3. Cardinality(Waiting) \in Nat /\ Cardinality(Pollers) \in Nat /\ Cardinality(Waiting) <= Cardinality(Pollers)
    <3>1. Waiting \subseteq Pollers
      BY DEF Waiting
    <3> QED
      BY <3>1, FS_Subset, FS_CardinalityType
  <2>4. Len(requests) \in Nat
    BY <2>1, LenProperties DEF SistersTyped
  <2>5. Len(requests) <= Cardinality(Pollers) + MaxOutages + 2
    BY <2>3, <2>4 DEF RequestsCounted
  <2> QED
    BY <2>2, <2>5 DEF SistersTypeOK
<1> QED
  BY <1>1, <1>2, <1>3, ListsKept, PTL DEF SistersSpec

\* A line is written in a move of its own, and the answer is one of the six statuses.
PaneBounded ==
  /\ moves \in 0 .. MaxMoves /\ Len(written) <= moves
  /\ answered \in {"waiting_user", "terminated", "running", "error", "waiting_approval", "busy_sleeping"}

\* Some phase always applies: the last.
LEMMA StatusIs ==
  ASSUME NEW look
  PROVE  DetectStatus(look) \in {"waiting_user", "terminated", "running", "error", "waiting_approval", "busy_sleeping"}
<1> DEFINE p == Phases(look)
           I == {i \in 1 .. Len(p) : p[i].applies}
           Statuses6 == {"waiting_user", "terminated", "running", "error", "waiting_approval", "busy_sleeping"}
<1>1. Len(p) = 13 /\ p[13].applies /\ \A i \in 1 .. 13 : p[i].status \in Statuses6
  <2>1. Len(p) = 13
    BY DEF Phases
  <2>2. p[13].applies
    BY DEF Phases, Phase
  <2>3. /\ p[1].status \in Statuses6 /\ p[2].status \in Statuses6 /\ p[3].status \in Statuses6
        /\ p[4].status \in Statuses6 /\ p[5].status \in Statuses6 /\ p[6].status \in Statuses6
        /\ p[7].status \in Statuses6 /\ p[8].status \in Statuses6 /\ p[9].status \in Statuses6
        /\ p[10].status \in Statuses6 /\ p[11].status \in Statuses6 /\ p[12].status \in Statuses6
        /\ p[13].status \in Statuses6
    BY DEF Phases, Phase
  <2>4. \A i \in 1 .. 13 : i \in {1, 2, 3, 4, 5, 6, 7, 8, 9, 10, 11, 12, 13}
    OBVIOUS
  <2> HIDE DEF p, Statuses6
  <2> QED
    BY <2>1, <2>2, <2>3, <2>4
<1>2. FirstPhase(look) = p[IF I # {} THEN Min(I) ELSE 0]
  BY DEF FirstPhase, SelectInSeq
<1> HIDE DEF p
<1>3. I \in SUBSET Nat /\ 13 \in I
  BY <1>1
<1>4. PICK m \in I : \A x \in I : m <= x
  <2> HIDE DEF I
  <2> QED
    BY <1>3
<1>5. Min(I) \in I
  BY <1>4 DEF Min
<1> QED
  BY <1>1, <1>2, <1>5 DEF DetectStatus

\* Every step keeps that.
LEMMA PaneStep ==
  ASSUME PollTyped, PollTyped', PaneBounded, [PollingNext]_pollVars
  PROVE  PaneBounded'
<1> USE PollingAssumption
<1>0. Len(written) \in Nat
  BY LenProperties DEF PollTyped
<1>1. CASE Writes
  <2>1. Len(written') <= Len(written) + 1
    <3>1. PICK kind \in Kinds : \/ written' = Append(written, [kind |-> kind, n |-> 0])
                                \/ written # <<>> /\ written' = Append(Front(written), [kind |-> kind, n |-> 1])
      BY <1>1 DEF Writes
    <3>2. Front(written) \in Seq(Line) /\ Len(Front(written)) <= Len(written)
      <4>1. Front(written) = SubSeq(written, 1, Len(written) - 1)
        BY DEF Front
      <4>2. \A i \in 1 .. Len(written) - 1 : written[i] \in Line
        BY <1>0, ElementOfSeq DEF PollTyped
      <4>3. SubSeq(written, 1, Len(written) - 1) \in Seq(Line)
            /\ Len(SubSeq(written, 1, Len(written) - 1)) <= Len(written)
        BY <1>0, <4>2, SubSeqProperties
      <4> QED
        BY <4>1, <4>3
    <3>3. Len(Front(written)) \in Nat
      BY <3>2, LenProperties
    <3>4. [kind |-> kind, n |-> 0] \in Line /\ [kind |-> kind, n |-> 1] \in Line
      BY DEF Line
    <3>5. Len(Append(written, [kind |-> kind, n |-> 0])) = Len(written) + 1
      BY <3>4, AppendProperties DEF PollTyped
    <3>6. Len(Append(Front(written), [kind |-> kind, n |-> 1])) = Len(Front(written)) + 1
      BY <3>2, <3>4, AppendProperties
    <3> QED
      BY <1>0, <3>1, <3>2, <3>3, <3>5, <3>6
  <2>2. Len(written') \in Nat
    BY LenProperties DEF PollTyped
  <2>3. moves < MaxMoves /\ moves' = moves + 1 /\ answered' = answered
    BY <1>1 DEF Writes, PollingChange
  <2> QED
    BY <1>0, <2>1, <2>2, <2>3 DEF PaneBounded
<1>2. CASE ClaudeTurns \/ BarTicks \/ FocusMoves \/ SwitchesMode
  <2>1. written' = written /\ answered' = answered /\ moves < MaxMoves /\ moves' = moves + 1
    BY <1>2 DEF ClaudeTurns, BarTicks, FocusMoves, SwitchesMode, PollingChange
  <2> QED
    BY <1>0, <2>1 DEF PaneBounded
<1>3. CASE Detects
  <2>1. UNCHANGED <<written, moves>> /\ \E look \in {Look(Capture)} : answered' = DetectStatus(look)
    BY <1>3 DEF Detects
  <2>2. PICK look : answered' = DetectStatus(look)
    BY <2>1
  <2> QED
    BY <2>1, <2>2, StatusIs DEF PaneBounded
<1>4. CASE DetectTerminated \/ DetectsByHooks
  BY <1>4 DEF DetectTerminated, DetectsByHooks, PaneBounded
<1>5. CASE UNCHANGED pollVars
  BY <1>5 DEF pollVars, PaneBounded
<1> QED
  BY <1>1, <1>2, <1>3, <1>4, <1>5 DEF PollingNext

\* The detector answers one of the six statuses, whatever the pane shows.
THEOREM PollingTypeCorrect == PollingSpec => []PollingTypeOK
<1> USE PollingAssumption
<1>1. PollingInit => PaneBounded
  BY EmptySeq DEF PollingInit, PaneBounded
<1>2. PollInv /\ PollInv' /\ PaneBounded /\ [PollingNext]_pollVars => PaneBounded'
  BY PaneStep DEF PollInv
<1>3. PollInv /\ PaneBounded => PollingTypeOK
  <2> SUFFICES ASSUME PollInv, PaneBounded PROVE PollingTypeOK
    OBVIOUS
  <2>1. written \in Seq(Line) /\ Len(written) \in Nat
    BY LenProperties DEF PollInv, PollTyped
  <2> QED
    BY <2>1 DEF PaneBounded, PollingTypeOK
<1> QED
  BY <1>1, <1>2, <1>3, PollKept, PTL DEF PollingSpec

-----------------------------------------------------------------------------
(* All parts together *)

\* In the behaviours that TLC runs each part behaves as its own specification has it.
LEMMA ReachParts == MCSpec => Spec /\ CmdSpec /\ SistersSpec /\ PollingSpec
<1> DEFINE all == <<part, vars, cmdVars, sisterVars, pollVars>>
<1>1. MCInit => Init /\ CmdInit /\ SistersInit /\ PollingInit
  BY DEF MCInit
<1>2. [MCNext]_all => [Next]_vars /\ [CmdNext]_cmdVars /\ [SistersNext]_sisterVars /\ [PollingNext]_pollVars
  BY DEF MCNext
<1> QED
  BY <1>1, <1>2, PTL DEF MCSpec, Spec, CmdSpec, SistersSpec, PollingSpec

\* What a run shows of calls on the file, of lines, of other machines and of panes that
\* stand still, for a few of each, holds for any number.
THEOREM ReachIsSafe ==
  MCSpec => []LineReachesItsAgent /\ OutageHidesNobody /\ NoFlash /\ TornFileIsKept
  BY ReachParts, LineArrives, NobodyHidden, NobodyFlashes, TornKept, PTL

\* Whatever part a behaviour shows, every variable of every part keeps its type.
THEOREM ReachTypesCorrect == MCSpec => []TypesOK
  BY ReachParts, FileTypeCorrect, CmdTypeCorrect, SistersTypeCorrect, PollingTypeCorrect, PTL DEF TypesOK

=============================================================================
