--------------------------- MODULE MonitorProofs ----------------------------
(***************************************************************************)
(* Proofs about what the monitor daemon does to agents and says of them    *)
(* and of the user, for any heartbeat frequency, limits of presence,       *)
(* numbers of panes and of calls, any clock and any number of restarts:    *)
(* heartbeats are paced and never sent into a turn the daemon knows of,    *)
(* every second is counted once, presence is right about the user, a text  *)
(* that nobody disturbs arrives in its pane, and a timeline shows what is  *)
(* in the status history.                                                  *)
(*                                                                         *)
(* The modules share no variable: each is proved of its own specification, *)
(* and the last theorems bring them together for the behaviours that TLC   *)
(* runs.                                                                   *)
(***************************************************************************)
EXTENDS MCMonitor, SumTheorems, SequenceTheorems

-----------------------------------------------------------------------------
(* Heartbeats *)

\* The periods that have passed.
Periods == clock \div Frequency

\* The n heartbeats are accounted for by the time of the last one, after l losses
\* and r resumes; without that time, by the p periods that have passed.
Recorded(beatAt, n, p, l, r) ==
  IF beatAt = NoTime THEN n <= l \/ n + 1 <= p + l + r ELSE n <= (beatAt \div Frequency) + l + r

\* The clock, the counts and the times of the last heartbeat, which are never ahead of
\* the clock.
ClockTyped ==
  /\ clock \in Nat /\ sent \in Nat /\ lost \in Nat /\ resumes \in Nat
  /\ conf \in [asleep : BOOLEAN, heartbeat : HeartbeatModes, lastBeat : Nat \cup {NoTime}]
  /\ conf.lastBeat <= clock
  /\ snap.lastBeat \in Nat \cup {NoTime} /\ snap.lastBeat <= clock
  /\ beatTime \in Nat \cup {NoTime} /\ beatTime <= clock

\* A heartbeat that is about to be sent is paid for by the time since the last
\* one of the tick's copy; once sent, it is paid for by its own time.
Paced ==
  /\ pc # "record" => Recorded(conf.lastBeat, sent, Periods, lost, resumes)
  /\ pc = "record" => Recorded(conf.lastBeat, sent - 1, Periods, lost, resumes)
  /\ pc = "heartbeat" => Recorded(snap.lastBeat, sent, Periods, lost, resumes)
  /\ pc = "send" => beatTime # NoTime /\ sent + 1 <= (beatTime \div Frequency) + lost + resumes
  /\ pc = "record" => beatTime # NoTime /\ sent <= (beatTime \div Frequency) + lost + resumes

\* The number of whole periods grows with time, and by one at least when a whole
\* Frequency has gone by (is_heartbeat_due).
LEMMA LaterSpans ==
  ASSUME NEW a \in Nat, NEW b \in Nat, a <= b
  PROVE  /\ a \div Frequency \in Nat /\ b \div Frequency \in Nat
         /\ a \div Frequency <= b \div Frequency
         /\ a + Frequency <= b => (a \div Frequency) + 1 <= b \div Frequency
BY HeartbeatAssumption

\* What pays for the heartbeats so far pays for them later on, after more losses and
\* more resumes.
LEMMA RecordedStays ==
  ASSUME NEW beatAt \in Nat \cup {NoTime}, NEW n \in Int, NEW p \in Nat, NEW l \in Nat, NEW r \in Nat,
         NEW q \in Nat, NEW m \in Nat, NEW s \in Nat, p <= q, l <= m, r <= s, Recorded(beatAt, n, p, l, r)
  PROVE  Recorded(beatAt, n, q, m, s)
<1>1. CASE beatAt = NoTime
  BY <1>1 DEF Recorded
<1>2. CASE beatAt # NoTime
  <2>1. beatAt \div Frequency \in Nat
    BY <1>2, LaterSpans
  <2> QED
    BY <1>2, <2>1 DEF Recorded
<1> QED
  BY <1>1, <1>2

\* No action takes the time of a heartbeat ahead of the clock.
LEMMA ClockStep ==
  ASSUME ClockTyped, Next
  PROVE  ClockTyped'
<1> USE HeartbeatAssumption DEF ClockTyped, NoTime
<1>1. CASE Elapse
  BY <1>1 DEF Elapse, memVars, histVars
<1>2. CASE UserPrompts
  <2>1. PICK asleep \in {FALSE, conf.asleep} : conf' = [conf EXCEPT !.asleep = asleep]
    BY <1>2 DEF UserPrompts
  <2>2. asleep \in BOOLEAN
    BY <2>1
  <2> QED
    BY <1>2, <2>1, <2>2 DEF UserPrompts, AgentUnchanged
<1>3. CASE TurnGoesOn \/ Interrupt \/ Shows \/ \E to \in Ended : Ends(to)
  BY <1>3 DEF TurnGoesOn, Interrupt, Ends, Shows, AgentUnchanged
<1>4. CASE Settings
  <2> USE DEF Settings, SleepAgent, WakeAgent, EnableHeartbeat, DisableHeartbeat, PauseHeartbeat, ResumeInTui,
              BudgetMoves, Setting
  <2>1. UNCHANGED <<clock, snap, beatTime, sent, lost>> /\ resumes' \in {resumes, resumes + 1}
    BY <1>4 DEF envVars
  <2>2. conf' \in [asleep : BOOLEAN, heartbeat : HeartbeatModes, lastBeat : Nat \cup {NoTime}]
    <3>1. CASE SleepAgent \/ WakeAgent
      BY <3>1
    <3>2. CASE EnableHeartbeat \/ DisableHeartbeat \/ PauseHeartbeat \/ BudgetMoves
      BY <3>2 DEF HeartbeatModes
    <3>3. CASE ResumeInTui
      BY <3>3 DEF HeartbeatModes
    <3> QED
      BY <1>4, <3>1, <3>2, <3>3
  <2>3. conf'.lastBeat \in {conf.lastBeat, NoTime}
    BY <1>4
  <2> QED
    BY <2>1, <2>2, <2>3
<1>5. CASE Starts \/ DaemonEnds
  BY <1>5 DEF Starts, DaemonEnds, DaemonUnchanged, NoSnap, histVars
<1>6. CASE TickBegins \/ CheckHeartbeat \/ SendFails
  BY <1>6 DEF TickBegins, CheckHeartbeat, SendFails, DaemonUnchanged, NoSnap, histVars
<1>7. CASE SendHeartbeat \/ RecordHeartbeat
  BY <1>7 DEF SendHeartbeat, RecordHeartbeat, DaemonUnchanged, histVars
<1>8. CASE Detect \/ TrackStatus
  BY <1>8 DEF Detect, TrackStatus, DaemonUnchanged
<1> QED
  BY <1>1, <1>2, <1>3, <1>4, <1>5, <1>6, <1>7, <1>8 DEF Next, Tick, Heartbeats

\* Every step, of the daemon, its tick, the settings and the agent, keeps each
\* heartbeat paid for: one is sent only when a whole Frequency has gone by since the
\* last one in the tick's copy, which may be older than the record on disk.
LEMMA PacedStep ==
  ASSUME ClockTyped, ClockTyped', Paced, Next
  PROVE  Paced'
<1>0. /\ clock \in Nat /\ clock' \in Nat /\ lost \in Nat /\ lost' \in Nat /\ resumes \in Nat /\ resumes' \in Nat
      /\ sent \in Nat /\ sent' \in Nat /\ conf.lastBeat \in Nat \cup {NoTime} /\ conf'.lastBeat \in Nat \cup {NoTime}
      /\ snap.lastBeat \in Nat \cup {NoTime} /\ beatTime \in Nat \cup {NoTime} /\ Frequency \in Nat \ {0}
      /\ snap.lastBeat <= clock /\ beatTime <= clock /\ conf.lastBeat <= clock
  BY HeartbeatAssumption DEF ClockTyped
<1>00. /\ Periods \in Nat /\ Periods' \in Nat
       /\ clock <= clock' => Periods <= Periods'
       /\ \A t \in Nat : t \div Frequency \in Nat /\ (t <= clock => t \div Frequency <= Periods)
  <2>1. Periods \in Nat /\ Periods' \in Nat /\ (clock <= clock' => Periods <= Periods')
    <3>1. clock \in Nat /\ clock' \in Nat /\ clock <= clock
      BY <1>0
    <3>2. Periods \in Nat
      BY <3>1, LaterSpans DEF Periods
    <3>3. Periods' \in Nat
      BY <3>1, LaterSpans DEF Periods
    <3>4. ASSUME clock <= clock' PROVE Periods <= Periods'
      BY <3>1, <3>4, LaterSpans DEF Periods
    <3> QED
      BY <3>2, <3>3, <3>4
  <2>2. ASSUME NEW t \in Nat PROVE t \div Frequency \in Nat /\ (t <= clock => t \div Frequency <= Periods)
    BY <1>0, LaterSpans DEF Periods
  <2> QED
    BY <2>1, <2>2
\* What was accounted for remains so while time passes and settings change.
<1>1. ASSUME NEW beatAt \in Nat \cup {NoTime}, NEW n \in Int, Recorded(beatAt, n, Periods, lost, resumes),
             clock <= clock', lost <= lost', resumes <= resumes'
      PROVE  Recorded(beatAt, n, Periods', lost', resumes')
  BY <1>0, <1>00, <1>1, RecordedStays
<1>2. ASSUME UNCHANGED <<pc, snap, beatTime, sent, lost>>, clock <= clock', resumes <= resumes',
             conf'.lastBeat = conf.lastBeat \/ (conf'.lastBeat = NoTime /\ resumes' = resumes + 1)
      PROVE  Paced'
  <2>0. lost <= lost' /\ snap'.lastBeat = snap.lastBeat /\ sent' = sent
    BY <1>0, <1>2
  <2>1. ASSUME NEW n \in Int, Recorded(conf.lastBeat, n, Periods, lost, resumes)
        PROVE  Recorded(conf'.lastBeat, n, Periods', lost', resumes')
    <3>1. Recorded(conf.lastBeat, n, Periods', lost', resumes')
      BY <1>0, <1>1, <1>2, <2>0, <2>1
    <3>2. CASE conf'.lastBeat = NoTime /\ conf.lastBeat # NoTime /\ resumes' = resumes + 1
      <4>1. n <= (conf.lastBeat \div Frequency) + lost + resumes
        BY <2>1, <3>2 DEF Recorded
      <4>2. conf.lastBeat \div Frequency <= Periods' /\ conf.lastBeat \div Frequency \in Nat
        BY <1>0, <1>00, <1>2, <3>2
      <4>3. n + 1 <= Periods' + lost' + resumes'
        <5> DEFINE d == conf.lastBeat \div Frequency
        <5>1. n <= d + lost + resumes /\ d <= Periods' /\ d \in Nat
          BY <4>1, <4>2
        <5> HIDE DEF d
        <5> QED
          <6>1. /\ Periods' \in Nat /\ lost \in Nat /\ resumes \in Nat /\ lost' = lost /\ resumes' = resumes + 1
                /\ n \in Int
            BY <1>0, <1>00, <1>2, <3>2
          <6>2. \A P, l, t \in Nat : n <= d + l + t /\ d <= P => n + 1 <= P + l + (t + 1)
            BY <5>1, <6>1
          <6> QED
            BY <5>1, <6>1, <6>2
      <4> QED
        BY <3>2, <4>3 DEF Recorded
    <3> QED
      BY <1>2, <3>1, <3>2
  <2>2. Recorded(snap.lastBeat, sent, Periods, lost, resumes) => Recorded(snap'.lastBeat, sent', Periods', lost', resumes')
    <3>1. ASSUME Recorded(snap.lastBeat, sent, Periods, lost, resumes)
          PROVE  Recorded(snap.lastBeat, sent, Periods', lost', resumes')
      <4>1. sent \in Int /\ snap.lastBeat \in Nat \cup {NoTime}
        BY <1>0
      <4> QED
        BY <1>1, <1>2, <2>0, <3>1, <4>1
    <3> QED
      BY <2>0, <3>1
  <2>3. sent \in Int /\ sent - 1 \in Int /\ sent' = sent
    BY <1>0, <1>2
  <2>4. ASSUME beatTime # NoTime
        PROVE  beatTime \div Frequency \in Nat
    BY <1>0, <1>00, <2>4
  <2>5. pc = "send" => beatTime' # NoTime /\ sent' + 1 <= (beatTime' \div Frequency) + lost' + resumes'
    BY <1>0, <1>2, <2>0, <2>4 DEF Paced
  <2>6. pc = "record" => beatTime' # NoTime /\ sent' <= (beatTime' \div Frequency) + lost' + resumes'
    <3> SUFFICES ASSUME pc = "record"
                 PROVE  beatTime' # NoTime /\ sent' <= (beatTime' \div Frequency) + lost' + resumes'
      OBVIOUS
    <3> DEFINE d == beatTime \div Frequency
    <3>1. beatTime' = beatTime /\ beatTime # NoTime /\ sent <= d + lost + resumes
      BY <1>2 DEF Paced
    <3>2. d \in Nat /\ d = beatTime' \div Frequency
      BY <2>4, <3>1
    <3> HIDE DEF d
    <3>3. sent' <= d + lost' + resumes'
      <4>1. /\ lost \in Nat /\ lost' = lost /\ resumes \in Nat /\ resumes' \in Nat /\ resumes <= resumes'
            /\ sent' = sent /\ sent \in Nat
        BY <1>0, <1>2
      <4> QED
        BY <3>1, <3>2, <4>1
    <3> QED
      BY <3>1, <3>2, <3>3
  <2> QED
    BY <1>2, <2>1, <2>2, <2>3, <2>5, <2>6 DEF Paced
<1>3. CASE Elapse
  BY <1>0, <1>2, <1>3 DEF Elapse, memVars, histVars
<1>4. CASE UserPrompts \/ TurnGoesOn \/ Interrupt \/ Shows \/ \E to \in Ended : Ends(to)
  <2>1. conf'.lastBeat = conf.lastBeat
    BY <1>4 DEF UserPrompts, TurnGoesOn, Interrupt, Ends, Shows, ClockTyped
  <2> QED
    BY <1>0, <1>2, <1>4, <2>1 DEF UserPrompts, TurnGoesOn, Interrupt, Ends, Shows, AgentUnchanged
<1>5. CASE Settings
  <2> USE DEF Settings, SleepAgent, WakeAgent, EnableHeartbeat, DisableHeartbeat, PauseHeartbeat, ResumeInTui,
              BudgetMoves, Setting
  <2>1. conf'.lastBeat = conf.lastBeat \/ (conf'.lastBeat = NoTime /\ resumes' = resumes + 1)
    BY <1>5 DEF ClockTyped
  <2>2. UNCHANGED <<clock, pc, snap, beatTime, sent, lost>> /\ resumes' \in {resumes, resumes + 1}
    BY <1>5 DEF envVars
  <2> QED
    BY <1>0, <1>2, <2>1, <2>2
<1>6. CASE Starts \/ TickBegins
  BY <1>6 DEF Starts, TickBegins, DaemonUnchanged, histVars, Paced, Recorded, Periods
<1>7. CASE DaemonEnds
  <2>1. /\ pc' = "down" /\ lost' = lost + (IF pc = "record" THEN 1 ELSE 0)
        /\ UNCHANGED <<clock, conf, sent, resumes>>
    BY <1>7 DEF DaemonEnds, DaemonUnchanged
  <2>2. CASE pc # "record"
    BY <1>0, <2>1, <2>2 DEF Paced, Periods
  <2>3. CASE pc = "record"
    <3>1. Recorded(conf.lastBeat, sent - 1, Periods, lost, resumes)
      BY <2>3 DEF Paced
    <3>2. conf.lastBeat # NoTime => conf.lastBeat \div Frequency \in Nat
      BY <1>0, <1>00
    <3>3. Recorded(conf.lastBeat, sent, Periods, lost + 1, resumes)
      BY <1>0, <1>00, <3>1, <3>2 DEF Recorded
    <3> QED
      BY <2>1, <2>3, <3>3 DEF Paced, Periods
  <2> QED
    BY <2>2, <2>3
<1>8. CASE CheckHeartbeat
  <2>1. UNCHANGED <<clock, conf, sent, lost, resumes>> /\ pc = "heartbeat"
    BY <1>8 DEF CheckHeartbeat, DaemonUnchanged, histVars
  <2>2. CASE pc' = "send"
    <3>1. beatTime' = clock /\ Due(snap)
      BY <1>8, <2>2 DEF CheckHeartbeat
    <3>2. sent + 1 <= Periods + lost + resumes
      <4>1. CASE snap.lastBeat = NoTime
        <5>1. 1 <= Periods
          BY <1>0, <3>1, <4>1, LaterSpans DEF Due, Periods
        <5> QED
          BY <1>0, <1>00, <2>1, <4>1, <5>1 DEF Paced, Recorded
      <4>2. CASE snap.lastBeat # NoTime
        <5>1. (snap.lastBeat \div Frequency) + 1 <= Periods /\ snap.lastBeat \div Frequency \in Nat
          <6>1. snap.lastBeat \in Nat /\ snap.lastBeat + Frequency <= clock
            BY <1>0, <3>1, <4>2 DEF Due
          <6> QED
            BY <1>0, <6>1, LaterSpans DEF Periods
        <5>2. sent <= (snap.lastBeat \div Frequency) + lost + resumes
          BY <2>1, <4>2 DEF Paced, Recorded
        <5> QED
          BY <1>0, <1>00, <5>1, <5>2
      <4> QED
        BY <4>1, <4>2
    <3>3. clock # NoTime
      BY <1>0 DEF NoTime
    <3> QED
      BY <2>1, <2>2, <3>1, <3>2, <3>3 DEF Paced, Periods
  <2>3. CASE pc' = "detect"
    BY <2>1, <2>3 DEF Paced, Periods
  <2> QED
    BY <1>8, <2>2, <2>3 DEF CheckHeartbeat
<1>9. CASE SendHeartbeat
  <2>1. /\ pc = "send" /\ pc' = "record" /\ sent' = sent + 1
        /\ UNCHANGED <<clock, conf, beatTime, lost, resumes>>
    BY <1>9 DEF SendHeartbeat, DaemonUnchanged
  <2>2. sent' - 1 = sent
    BY <1>0, <2>1
  <2> QED
    BY <2>1, <2>2 DEF Paced, Periods
<1>10. CASE SendFails
  BY <1>10 DEF SendFails, DaemonUnchanged, Paced, Periods, histVars
<1>11. CASE RecordHeartbeat
  <2>1. /\ pc = "record" /\ pc' = "detect" /\ conf'.lastBeat = beatTime
        /\ UNCHANGED <<clock, sent, lost, resumes>>
    BY <1>11 DEF RecordHeartbeat, DaemonUnchanged, histVars, ClockTyped
  <2> QED
    BY <2>1 DEF Paced, Recorded
<1>12. CASE Detect \/ TrackStatus
  BY <1>12 DEF Detect, TrackStatus, DaemonUnchanged, Paced, Periods
<1> QED
  BY <1>3, <1>4, <1>5, <1>6, <1>7, <1>8, <1>9, <1>10, <1>11, <1>12 DEF Next, Tick, Heartbeats

\* The inductive invariant.
PacedInv == ClockTyped /\ Paced

\* For any frequency: the heartbeats sent never exceed the periods that have passed,
\* the crashes between sending and recording, and the resumes that cleared the record.
THEOREM HeartbeatsPaced == Spec => []NoHeartbeatStorm
<1>1. Init => PacedInv
  <2> SUFFICES ASSUME Init PROVE PacedInv
    OBVIOUS
  <2>1. ClockTyped
    <3>1. conf \in [asleep : BOOLEAN, heartbeat : HeartbeatModes, lastBeat : Nat \cup {NoTime}] /\ conf.lastBeat = NoTime
      BY DEF Init, HeartbeatModes
    <3> QED
      BY <3>1 DEF Init, ClockTyped, NoSnap, NoTime
  <2>2. pc = "down" /\ conf.lastBeat = NoTime /\ sent = 0 /\ lost = 0
    BY DEF Init
  <2> QED
    BY <2>1, <2>2 DEF PacedInv, Paced, Recorded
<1>2. PacedInv /\ [Next]_vars => PacedInv'
  <2>1. CASE Next
    BY <2>1, ClockStep, PacedStep DEF PacedInv
  <2>2. CASE UNCHANGED vars
    BY <2>2 DEF PacedInv, ClockTyped, Paced, Periods, vars, envVars, histVars
  <2> QED
    BY <2>1, <2>2
<1>3. PacedInv => NoHeartbeatStorm
  <2> SUFFICES ASSUME PacedInv PROVE NoHeartbeatStorm
    OBVIOUS
  <2> USE HeartbeatAssumption DEF PacedInv, ClockTyped, Paced, NoTime
  <2>1. CASE pc = "record"
    BY <2>1, LaterSpans DEF NoHeartbeatStorm
  <2>2. CASE pc # "record" /\ conf.lastBeat # NoTime
    BY <2>2, LaterSpans DEF NoHeartbeatStorm, Recorded
  <2>3. CASE pc # "record" /\ conf.lastBeat = NoTime
    <3>1. Periods \in Nat
      BY LaterSpans DEF Periods
    <3> QED
      BY <2>3, <3>1 DEF NoHeartbeatStorm, Recorded, Periods
  <2> QED
    BY <2>1, <2>2, <2>3
<1> QED
  BY <1>1, <1>2, <1>3, PTL DEF Spec

\* While the daemon knows of a turn, its last tick was green, or is about to be.
TurnIsGreen ==
  known = "turn" =>
    \/ pc = "track" /\ status = "running"
    \/ pc \in {"rest", "heartbeat", "detect"} /\ wasGreen

\* While the daemon knows of a turn its last look was green, so is_heartbeat_eligible
\* refuses; every step keeps that, and none sends into a known turn.
LEMMA TurnIsGreenStep ==
  ASSUME TurnIsGreen, Next
  PROVE  TurnIsGreen' /\ (sent' # sent => known # "turn")
<1> USE DEF TurnIsGreen
<1>1. CASE Elapse \/ UserPrompts \/ TurnGoesOn \/ Interrupt \/ Shows \/ \E to \in Ended : Ends(to)
  BY <1>1 DEF Elapse, UserPrompts, TurnGoesOn, Interrupt, Ends, Shows, AgentUnchanged, memVars, histVars
<1>2. CASE Settings
  BY <1>2 DEF Settings, SleepAgent, WakeAgent, EnableHeartbeat, DisableHeartbeat, PauseHeartbeat,
     ResumeInTui,
              BudgetMoves, Setting, memVars
<1>3. CASE Starts \/ DaemonEnds \/ TickBegins
  BY <1>3 DEF Starts, DaemonEnds, TickBegins, memVars, histVars
<1>4. CASE CheckHeartbeat
  BY <1>4 DEF CheckHeartbeat, Eligible, memVars, histVars
<1>5. CASE SendHeartbeat \/ SendFails \/ RecordHeartbeat
  BY <1>5 DEF SendHeartbeat, SendFails, RecordHeartbeat, memVars, histVars
<1>6. CASE Detect
  BY <1>6 DEF Detect
<1>7. CASE TrackStatus
  <2>1. known = "turn" /\ ~conf.asleep => EffectiveStatus \in Green
    BY <1>7 DEF TrackStatus, EffectiveStatus, Green
  <2> QED
    BY <1>7, <2>1 DEF TrackStatus
<1> QED
  BY <1>1, <1>2, <1>3, <1>4, <1>5, <1>6, <1>7 DEF Next, Tick, Heartbeats

\* No heartbeat is sent into a turn that the daemon saw at its last look, whatever is
\* set, paused, resumed or restarted in between.
THEOREM KnownTurnUndisturbed == Spec => NoHeartbeatIntoKnownTurn
<1>1. Init => TurnIsGreen
  BY DEF Init, TurnIsGreen
<1>2. TurnIsGreen /\ [Next]_vars => TurnIsGreen'
  BY TurnIsGreenStep DEF TurnIsGreen, vars, histVars, memVars
<1>3. TurnIsGreen /\ [Next]_vars => [sent' # sent => known # "turn"]_vars
  BY TurnIsGreenStep
<1> QED
  BY <1>1, <1>2, <1>3, PTL DEF Spec, NoHeartbeatIntoKnownTurn

-----------------------------------------------------------------------------
(* The presence of the user *)

\* Ages, what a logger does, and what it keeps.
Clocks == Nat \cup {NoTime}
LogSteps == {"off", "logs", "failed"}
Threads == [at : LogSteps, wait : Int, last : Clocks]

\* The types the proof needs; ages are unbounded here.
PresenceTyped ==
  /\ doing \in Things /\ quartz \in BOOLEAN /\ beat \in Clocks
  /\ ago \in [active : Nat, tui : Nat, asleep : Nat, inactive : Nat]
  /\ logger \in [Loggers -> Threads]
  /\ row \in [age : Nat, state : 0 .. 4]
  /\ silent \in [Daemons -> Clocks] /\ published \in [Daemons -> 0 .. 4]

\* What the ages say of one another.
Ago ==
  /\ doing \in Active => ago.active = 0
  /\ doing \notin Active => ago.inactive = 0
  /\ doing = "asleep" => ago.asleep = 0
  /\ ago.inactive <= ago.asleep
  /\ beat # NoTime /\ beat <= Fresh => ago.tui <= beat

\* A logger that is late beyond the bound was held up by sleep.
Awaits(t) ==
  t.at = "logs" =>
    /\ -MaxLate <= t.wait /\ t.wait <= Sample
    /\ t.last # NoTime => t.last = Sample - t.wait \/ ago.asleep <= Sample - t.wait + 1

\* A state that was right when the row was written, or published, some time ago.
\* `slept' bounds how long ago the sleep was that it was inferred from.
RightAt(state, age, slept) ==
  /\ state = InTui => ago.tui <= Fresh + age
  /\ state = AsleepState => ago.asleep <= slept + age
  /\ quartz /\ state >= AtComputer => ago.active <= IdleAfter + age
  /\ state < AtComputer => ago.inactive <= slept + age

\* A daemon loops in time, but for sleep.
Loops(d) ==
  /\ logger[d].at = "off" => silent[d] = NoTime
  /\ silent[d] # NoTime /\ silent[d] > PublishGap => ago.asleep <= 1
  /\ silent[d] # NoTime /\ silent[d] <= MaxLate => RightAt(published[d], silent[d], PublishGap)

\* The inductive invariant: the row and what is published stay right as they age.
PresenceInv ==
  /\ PresenceTyped /\ Ago
  /\ \A l \in Loggers : Awaits(logger[l])
  /\ row.age <= Span => RightAt(row.state, row.age, Span + 1)
  /\ \A d \in Daemons : Loops(d)

\* The constants of the presence logger, from PresenceAssumption.
LEMMA SpanIs == Span \in Nat /\ Sample \in Nat /\ MaxLate \in Nat /\ MaxLate <= Sample /\ Span = Sample + MaxLate
                /\ PublishGap \in Nat /\ PublishGap >= 1 /\ Fresh \in Nat /\ IdleAfter \in Nat /\ Daemons \subseteq Loggers
BY PresenceAssumption DEF Span

\* An age grows by one with a tick, but for one that is at its bound.
LEMMA OlderIs ==
  ASSUME NEW age \in Clocks, NEW of
  PROVE  /\ Older(age, of) \in Clocks
         /\ age = NoTime => Older(age, of) = NoTime
         /\ age # NoTime => Older(age, of) \in Nat /\ age <= Older(age, of) /\ Older(age, of) <= age + 1
         /\ age # NoTime /\ age # Long[of] => Older(age, of) = age + 1
BY DEF Older, Clocks, NoTime

\* Every step of a logger, a daemon, the user and the clock keeps the types.
LEMMA PresenceTypes ==
  ASSUME PresenceTyped, PresenceNext
  PROVE  PresenceTyped'
<1> USE SpanIs DEF PresenceTyped
<1>2. ASSUME NEW l \in Loggers, LoggerStarts(l) \/ RowFails(l) \/ LoggerStops(l)
      PROVE  PresenceTyped'
  <2>1. NotRunning \in Threads /\ \A s \in LogSteps : [NotRunning EXCEPT !.at = s] \in Threads
    BY DEF NotRunning, Threads, Clocks, NoTime, LogSteps
  <2>2. logger' \in [Loggers -> Threads] /\ UNCHANGED <<doing, ago, quartz, beat, row, published>>
    BY <1>2, <2>1 DEF LoggerStarts, RowFails, LoggerStops, LogSteps
  <2>3. silent' \in [Daemons -> Clocks]
    BY <1>2 DEF LoggerStarts, RowFails, LoggerStops, Clocks
  <2> QED
    BY <2>2, <2>3
<1>3. ASSUME NEW l \in Loggers, AppendsRow(l)
      PROVE  PresenceTyped'
  <2>1. [logger[l] EXCEPT !.wait = Sample, !.last = 0] \in Threads
    <3>1. logger[l] \in Threads /\ Sample \in Int /\ 0 \in Clocks
      BY SpanIs DEF Clocks
    <3> QED
      BY <3>1 DEF Threads
  <2>2. logger' \in [Loggers -> Threads] /\ UNCHANGED <<doing, ago, quartz, beat, silent, published>>
    BY <1>3, <2>1 DEF AppendsRow
  <2>3. row' \in [age : Nat, state : 0 .. 4]
    BY <1>3 DEF AppendsRow, Classified, AsleepState, LockedState, IdleState, InTui, AtComputer
  <2> QED
    BY <2>2, <2>3
<1>4. ASSUME NEW d \in Daemons, PublishesPresence(d)
      PROVE  PresenceTyped'
  <2>1. silent' \in [Daemons -> Clocks] /\ UNCHANGED <<doing, ago, quartz, beat, logger, row>>
    BY <1>4 DEF PublishesPresence, Clocks
  <2>2. AsleepState \in 0 .. 4 /\ get_current_presence_state(TuiActive) \in 0 .. 4
    BY DEF get_current_presence_state, Classified, AsleepState, LockedState, IdleState, InTui,
       AtComputer
  <2>3. published' \in [Daemons -> 0 .. 4]
    BY <1>4, <2>2 DEF PublishesPresence
  <2> QED
    BY <2>1, <2>3
<1>5. ASSUME NEW what \in Things, Passes(what)
      PROVE  PresenceTyped'
  <2>1. doing' \in Things /\ UNCHANGED <<quartz, published>>
    BY <1>5 DEF Passes
  <2>2. ago' \in [active : Nat, tui : Nat, asleep : Nat, inactive : Nat]
    <3>1. \A n \in Nat : \A of : Older(n, of) \in Nat
      BY OlderIs DEF Clocks, NoTime
    <3> QED
      BY <1>5, <3>1 DEF Passes
  <2>3. beat' \in Clocks
    BY <1>5, OlderIs DEF Passes, WritesHeartbeat, Clocks
  <2>4. logger' \in [Loggers -> Threads]
    <3>1. ASSUME NEW l \in Loggers, NEW w \in Int
          PROVE  [logger[l] EXCEPT !.last = Older(logger[l].last, "last"), !.wait = w] \in Threads
      BY OlderIs DEF Threads
    <3>2. \A l \in Loggers : logger[l].wait \in Int /\ logger[l].wait - 1 \in Int
      BY DEF Threads
    <3>3. logger' = [l \in Loggers |->
            [logger[l] EXCEPT !.last = Older(logger[l].last, "last"),
                              !.wait = IF logger[l].at # "logs" \/ "asleep" \in {doing, what}
                                       THEN logger[l].wait ELSE logger[l].wait - 1]]
      BY <1>5 DEF Passes
    <3> QED
      BY <3>1, <3>2, <3>3
  <2>5. row' \in [age : Nat, state : 0 .. 4]
    <3>1. Older(row.age, "row") \in Nat
      BY OlderIs DEF Clocks, NoTime
    <3> QED
      BY <1>5, <3>1 DEF Passes
  <2>6. silent' \in [Daemons -> Clocks]
    BY <1>5, OlderIs DEF Passes
  <2> QED
    BY <2>1, <2>2, <2>3, <2>4, <2>5, <2>6
<1> QED
  BY <1>2, <1>3, <1>4, <1>5 DEF PresenceNext, StartsWithDaemon, StartsByHand

\* What a tick does to the ages: each grows by one at most, and one that is at its bound
\* is already beyond every comparison.
LEMMA PassesIs ==
  ASSUME PresenceTyped, NEW what \in Things, Passes(what)
  PROVE  /\ ago'.active \in Nat /\ ago'.active <= ago.active + 1 /\ (what \in Active => ago'.active = 0)
         /\ ago'.tui \in Nat /\ ago'.tui <= ago.tui + 1 /\ (what = "tui" => ago'.tui = 0)
         /\ ago'.asleep \in Nat /\ ago'.asleep <= ago.asleep + 1 /\ (what = "asleep" => ago'.asleep = 0)
         /\ ago'.inactive \in Nat /\ ago'.inactive <= ago.inactive + 1 /\ (what \notin Active => ago'.inactive = 0)
         /\ ago.inactive <= ago.asleep => ago'.inactive <= ago'.asleep
<1>1. ago.active \in Nat /\ ago.tui \in Nat /\ ago.asleep \in Nat /\ ago.inactive \in Nat
  BY DEF PresenceTyped
<1>2. \A n \in Nat : \A of : Older(n, of) \in Nat /\ n <= Older(n, of) /\ Older(n, of) <= n + 1
  BY OlderIs DEF Clocks, NoTime
<1>3. /\ ago'.active = IF what \in Active THEN 0 ELSE Older(ago.active, "active")
      /\ ago'.tui = IF what = "tui" THEN 0 ELSE Older(ago.tui, "tui")
      /\ ago'.asleep = IF what = "asleep" THEN 0 ELSE Older(ago.asleep, "asleep")
      /\ ago'.inactive = IF what \notin Active THEN 0 ELSE Older(ago.inactive, "inactive")
  BY DEF Passes
<1>4. ago'.active \in Nat /\ ago'.active <= ago.active + 1
  BY <1>1, <1>2, <1>3
<1>5. ago'.tui \in Nat /\ ago'.tui <= ago.tui + 1
  BY <1>1, <1>2, <1>3
<1>6. ago'.asleep \in Nat /\ ago'.asleep <= ago.asleep + 1
  BY <1>1, <1>2, <1>3
<1>7. ago'.inactive \in Nat /\ ago'.inactive <= ago.inactive + 1
  BY <1>1, <1>2, <1>3
<1>8. ASSUME ago.inactive <= ago.asleep
      PROVE  ago'.inactive <= ago'.asleep
  <2>1. CASE what \notin Active
    BY <1>3, <1>6, <2>1
  <2>2. CASE what \in Active
    <3>1. what # "asleep"
      BY <2>2 DEF Active
    <3>2. Long["inactive"] = Long["asleep"]
      BY DEF Long
    <3>3. Older(ago.inactive, "inactive") <= Older(ago.asleep, "asleep")
      <4> DEFINE m == Long["asleep"]
      <4>1. /\ Older(ago.inactive, "inactive") = IF ago.inactive \in {NoTime, m} THEN ago.inactive ELSE ago.inactive + 1
            /\ Older(ago.asleep, "asleep") = IF ago.asleep \in {NoTime, m} THEN ago.asleep ELSE ago.asleep + 1
        BY <3>2 DEF Older
      <4>2. ago.inactive # NoTime /\ ago.asleep # NoTime
        BY <1>1 DEF NoTime
      <4> HIDE DEF m
      <4>3. CASE ago.asleep = m
        BY <1>1, <1>8, <4>1, <4>2, <4>3
      <4>4. CASE ago.asleep # m
        BY <1>1, <1>8, <4>1, <4>2, <4>4
      <4> QED
        BY <4>3, <4>4
    <3> QED
      BY <1>3, <2>2, <3>1, <3>3
  <2> QED
    BY <2>1, <2>2
<1> QED
  BY <1>3, <1>4, <1>5, <1>6, <1>7, <1>8

\* What was right of the user stays right, by an age of one more, when a tick passes.
LEMMA RightLater ==
  ASSUME PresenceTyped, NEW what \in Things, Passes(what), NEW state \in 0 .. 4, NEW age \in Nat, NEW slept \in Nat,
         RightAt(state, age, slept)
  PROVE  RightAt(state, age + 1, slept)'
<1>1. UNCHANGED quartz
  BY DEF Passes
<1>2. IdleAfter \in Nat /\ Fresh \in Nat
  BY PresenceAssumption
<1>3. ago.active \in Nat /\ ago.tui \in Nat /\ ago.asleep \in Nat /\ ago.inactive \in Nat
  BY DEF PresenceTyped
<1> QED
  BY <1>1, <1>2, <1>3, PassesIs DEF RightAt

\* A tick keeps the whole invariant: rows and loops that come too late were held up by
\* sleep, which the next row and the next loop see.
LEMMA TickKeeps ==
  ASSUME PresenceInv, NEW what \in Things, Passes(what)
  PROVE  /\ Ago'
         /\ \A l \in Loggers : Awaits(logger[l])'
         /\ (row.age <= Span => RightAt(row.state, row.age, Span + 1))'
         /\ \A d \in Daemons : Loops(d)'
<1> USE SpanIs
<1>0. PresenceTyped /\ Ago
  BY DEF PresenceInv
<1>1. Ago'
  <2>1. doing' = what /\ beat' = IF what = "tui" THEN 0 ELSE Older(beat, "beat")
    BY DEF Passes, WritesHeartbeat
  <2>2. what \in Active => ago'.active = 0
    BY <1>0, PassesIs
  <2>3. (what \notin Active => ago'.inactive = 0) /\ (what = "asleep" => ago'.asleep = 0)
    BY <1>0, PassesIs
  <2>4. ago'.inactive <= ago'.asleep
    BY <1>0, PassesIs DEF Ago
  <2>5. beat' # NoTime /\ beat' <= Fresh => ago'.tui <= beat'
    <3>1. CASE what = "tui"
      BY <1>0, <2>1, <3>1, PassesIs
    <3>2. CASE what # "tui"
      <4>1. beat \in Clocks /\ ago.tui \in Nat /\ ago'.tui \in Nat /\ ago'.tui <= ago.tui + 1
        BY <1>0, PassesIs DEF PresenceTyped
      <4>2. beat # NoTime => beat \in Nat
        BY <4>1 DEF Clocks
      <4>3. Long["beat"] = Fresh + 1
        BY DEF Long
      <4>4. ASSUME beat' # NoTime, beat' <= Fresh PROVE beat' = beat + 1 /\ beat # NoTime
        BY <2>1, <3>2, <4>2, <4>3, <4>4 DEF Older
      <4> QED
        BY <1>0, <4>1, <4>2, <4>4 DEF Ago
    <3> QED
      BY <3>1, <3>2
  <2> QED
    BY <2>1, <2>2, <2>3, <2>4, <2>5 DEF Ago
<1>2. ASSUME NEW l \in Loggers
      PROVE  Awaits(logger[l])'
  <2> DEFINE t == logger[l]
             held == "asleep" \in {doing, what}
  <2>1. t \in Threads /\ Awaits(t)
    BY <1>0 DEF PresenceInv, PresenceTyped
  <2>2. /\ logger'[l].at = t.at /\ logger'[l].last = Older(t.last, "last")
        /\ logger'[l].wait = IF t.at # "logs" \/ held THEN t.wait ELSE t.wait - 1
    BY <1>0, <2>1 DEF Passes, PresenceTyped, Threads
  <2>3. t.at = "logs" /\ ~held => t.wait > -MaxLate
    BY DEF Passes, InTime
  <2>4. t.wait \in Int /\ t.last \in Clocks
    BY <2>1 DEF Threads
  <2>5. ago.asleep \in Nat /\ ago'.asleep \in Nat /\ ago'.asleep <= ago.asleep + 1
    BY <1>0, PassesIs DEF PresenceTyped
  <2>6. held => ago'.asleep <= 1
    BY <1>0, <2>5, PassesIs DEF Ago
  <2> HIDE DEF t, held
  <2> SUFFICES ASSUME t.at = "logs"
               PROVE  /\ -MaxLate <= logger'[l].wait /\ logger'[l].wait <= Sample
                      /\ logger'[l].last # NoTime =>
                           \/ logger'[l].last = Sample - logger'[l].wait
                           \/ ago'.asleep <= Sample - logger'[l].wait + 1
    BY <2>2 DEF Awaits
  <2>7. -MaxLate <= t.wait /\ t.wait <= Sample
    BY <2>1 DEF Awaits
  <2>8. CASE held
    BY <2>2, <2>4, <2>5, <2>6, <2>7, <2>8
  <2>9. CASE ~held
    <3>1. logger'[l].wait = t.wait - 1 /\ t.wait > -MaxLate
      BY <2>2, <2>3, <2>9
    <3>2. CASE t.last # NoTime /\ t.last = Sample - t.wait
      <4>1. Long["last"] = 2 * Sample + 1
        BY DEF Long
      <4>2. t.last # Long["last"]
        BY <2>4, <2>7, <3>2, <4>1
      <4>3. logger'[l].last = t.last + 1
        BY <2>2, <3>2, <4>2 DEF Older
      <4> QED
        BY <2>4, <2>7, <3>1, <3>2, <4>3
    <3>3. CASE t.last # NoTime /\ ago.asleep <= Sample - t.wait + 1
      BY <2>4, <2>5, <2>7, <3>1, <3>3
    <3>4. CASE t.last = NoTime
      <4>1. logger'[l].last = NoTime
        BY <2>2, <3>4 DEF Older
      <4> QED
        BY <2>4, <2>7, <3>1, <4>1
    <3> QED
      BY <2>1, <3>2, <3>3, <3>4 DEF Awaits
  <2> QED
    BY <2>8, <2>9
<1>3. (row.age <= Span => RightAt(row.state, row.age, Span + 1))'
  <2>1. row.age \in Nat /\ row.state \in 0 .. 4
    BY <1>0 DEF PresenceTyped
  <2>2. row'.state = row.state /\ row'.age = Older(row.age, "row")
    BY <1>0 DEF Passes, PresenceTyped
  <2>3. Long["row"] = Span + 1
    BY DEF Long
  <2>4. ASSUME row'.age <= Span PROVE row'.age = row.age + 1 /\ row.age <= Span
    BY <2>1, <2>2, <2>3, <2>4 DEF Older, NoTime
  <2>5. ASSUME row'.age <= Span
        PROVE  RightAt(row.state, row.age, Span + 1)'
    <3>1. PICK st \in 0 .. 4, ag \in Nat : st = row.state /\ ag = row.age
      BY <2>1
    <3>2. RightAt(st, ag, Span + 1) /\ Span + 1 \in Nat
      BY <2>4, <2>5, <3>1 DEF PresenceInv
    <3>3. RightAt(st, ag + 1, Span + 1)'
      BY <1>0, <3>2, RightLater
    <3>4. row'.state = st /\ row'.age = ag + 1
      BY <2>2, <2>4, <2>5, <3>1
    <3> QED
      BY <3>3, <3>4 DEF RightAt
  <2> QED
    BY <2>5
<1>4. ASSUME NEW d \in Daemons
      PROVE  Loops(d)'
  <2>1. silent[d] \in Clocks /\ published[d] \in 0 .. 4 /\ d \in Loggers /\ Loops(d)
    BY <1>0 DEF PresenceTyped, PresenceInv
  <2>2. /\ silent'[d] = Older(silent[d], "silent") /\ published'[d] = published[d]
        /\ logger'[d].at = logger[d].at
    BY <1>0, <2>1 DEF Passes, PresenceTyped, Threads
  <2>3. Long["silent"] = PublishGap + MaxLate + 1
    BY DEF Long
  <2>4. logger'[d].at = "off" => silent'[d] = NoTime
    BY <2>1, <2>2 DEF Loops, Older
  <2>5. ASSUME silent'[d] # NoTime, silent'[d] > PublishGap
        PROVE  ago'.asleep <= 1
    <3>1. silent[d] \in Nat /\ silent'[d] \in Nat /\ silent'[d] <= silent[d] + 1
      BY <2>1, <2>2, <2>5 DEF Older, Clocks
    <3>2. logger[d].at # "off"
      BY <2>1, <2>2, <2>4, <2>5
    <3>3. ASSUME "asleep" \notin {doing, what} PROVE FALSE
      <4>1. silent[d] \in 0 .. PublishGap - 1
        BY <3>2, <3>3 DEF Passes, Looped
      <4> QED
        BY <2>5, <3>1, <4>1
    <3>4. ago'.asleep \in Nat /\ ago'.asleep <= ago.asleep + 1 /\ ago.asleep \in Nat
      BY <1>0, PassesIs DEF PresenceTyped
    <3>5. what = "asleep" => ago'.asleep = 0
      BY <1>0, PassesIs
    <3> QED
      BY <1>0, <3>3, <3>4, <3>5 DEF Ago
  <2>6. ASSUME silent'[d] # NoTime, silent'[d] <= MaxLate
        PROVE  RightAt(published[d], silent[d], PublishGap)'
    <3>1. silent[d] \in Nat /\ silent'[d] = silent[d] + 1 /\ silent[d] <= MaxLate
      BY <2>1, <2>2, <2>3, <2>6 DEF Older, Clocks
    <3>2. PICK st \in 0 .. 4, ag \in Nat : st = published[d] /\ ag = silent[d]
      BY <2>1, <3>1
    <3>3. RightAt(st, ag, PublishGap) /\ PublishGap \in Nat
      BY <2>1, <3>1, <3>2 DEF Loops, NoTime
    <3>4. RightAt(st, ag + 1, PublishGap)'
      BY <1>0, <3>3, RightLater
    <3>5. published'[d] = st /\ silent'[d] = ag + 1
      BY <2>2, <3>1, <3>2
    <3> QED
      BY <3>4, <3>5 DEF RightAt
  <2> QED
    BY <2>4, <2>5, <2>6 DEF Loops
<1> QED
  BY <1>1, <1>2, <1>3, <1>4

\* classify_state is right now of what it is given: the lock, the idle time, a sleep it
\* infers, and keys in the TUI.
LEMMA RightNow ==
  ASSUME PresenceTyped, Ago, NEW slept \in BOOLEAN, NEW tui \in BOOLEAN, NEW bound \in Nat,
         slept => ago.asleep <= bound, tui => ago.tui <= Fresh
  PROVE  RightAt(Classified(is_screen_locked, get_idle_seconds, slept, tui), 0, bound)
<1>1. ago.active \in Nat /\ ago.tui \in Nat /\ ago.asleep \in Nat /\ ago.inactive \in Nat
  BY DEF PresenceTyped
<1>2. IdleAfter \in Nat /\ Fresh \in Nat
  BY PresenceAssumption
<1> DEFINE st == Classified(is_screen_locked, get_idle_seconds, slept, tui)
<1> SUFFICES RightAt(st, 0, bound)
  OBVIOUS
<1>3. CASE slept
  <2>1. st = 0 /\ ago.inactive <= bound
    BY <1>1, <1>3 DEF Classified, AsleepState, Ago
  <2> HIDE DEF st
  <2> QED
    BY <1>1, <1>3, <2>1 DEF RightAt, AsleepState, AtComputer, InTui
<1>4. CASE ~slept /\ is_screen_locked
  <2>1. st = 1 /\ ago.inactive = 0
    BY <1>4 DEF Classified, LockedState, is_screen_locked, Ago, Active
  <2> QED
    BY <2>1 DEF RightAt, AsleepState, AtComputer, InTui
<1>5. CASE ~slept /\ ~is_screen_locked /\ get_idle_seconds > IdleAfter
  <2>1. st = 2 /\ ago.inactive = 0
    BY <1>1, <1>2, <1>5 DEF Classified, IdleState, get_idle_seconds, Ago
  <2> QED
    BY <2>1 DEF RightAt, AsleepState, AtComputer, InTui
<1>6. CASE ~slept /\ ~is_screen_locked /\ ~(get_idle_seconds > IdleAfter)
  <2>1. st = (IF tui THEN 4 ELSE 3)
    BY <1>6 DEF Classified, InTui, AtComputer
  <2>2. quartz => ago.active <= IdleAfter
    BY <1>1, <1>2, <1>6 DEF get_idle_seconds
  <2> QED
    BY <1>1, <1>2, <2>1, <2>2 DEF RightAt, AsleepState, AtComputer, InTui
<1> QED
  BY <1>3, <1>4, <1>5, <1>6

\* The row a logger appends is right, whichever logger it is and however long it was
\* held up.
LEMMA RowIsRight ==
  ASSUME PresenceInv, NEW l \in Loggers, AppendsRow(l)
  PROVE  (row.age <= Span => RightAt(row.state, row.age, Span + 1))' /\ \A m \in Loggers : Awaits(logger[m])'
<1> USE SpanIs
<1>0. PresenceTyped /\ Ago /\ logger[l] \in Threads /\ Awaits(logger[l])
      /\ UNCHANGED <<doing, ago, quartz, beat, silent, published>>
  BY DEF PresenceInv, PresenceTyped, AppendsRow
<1> DEFINE tui == l \in Daemons /\ TuiActive
           slept == InfersSleep(logger[l].last)
           st == Classified(is_screen_locked, get_idle_seconds, slept, tui)
<1>1. row' = [age |-> 0, state |-> st]
  BY DEF AppendsRow
<1>2. slept => ago.asleep <= Span + 1
  <2>1. logger[l].wait \in Int /\ logger[l].last \in Clocks /\ ago.asleep \in Nat
    BY <1>0 DEF Threads, PresenceTyped
  <2>2. logger[l].last # NoTime => logger[l].last \in Nat
    BY <2>1 DEF Clocks
  <2>3. logger[l].last # NoTime => logger[l].last = Sample - logger[l].wait \/ ago.asleep <= Sample - logger[l].wait + 1
    BY <1>0 DEF Awaits, AppendsRow
  <2>4. -MaxLate <= logger[l].wait
    BY <1>0 DEF Awaits, AppendsRow
  <2> QED
    BY <2>1, <2>2, <2>3, <2>4 DEF InfersSleep
<1>3. tui => ago.tui <= Fresh
  <2>1. beat # NoTime => beat \in Nat
    BY <1>0 DEF PresenceTyped, Clocks
  <2>2. ago.tui \in Nat
    BY <1>0 DEF PresenceTyped
  <2> QED
    BY <1>0, <2>1, <2>2 DEF TuiActive, Ago
<1>4. RightAt(st, 0, Span + 1)
  <2>1. tui \in BOOLEAN /\ slept \in BOOLEAN
    BY Zenon DEF InfersSleep
  <2>2. Span + 1 \in Nat
    OBVIOUS
  <2> HIDE DEF tui, slept
  <2> QED
    BY <1>0, <1>2, <1>3, <2>1, <2>2, RightNow
<1> HIDE DEF st
<1>5. RightAt(row.state, row.age, Span + 1)'
  BY <1>0, <1>1, <1>4 DEF RightAt
<1>6. ASSUME NEW m \in Loggers PROVE Awaits(logger[m])'
  <2>1. logger' = [logger EXCEPT ![l] = [logger[l] EXCEPT !.wait = Sample, !.last = 0]]
    BY DEF AppendsRow
  <2>2. CASE m = l
    <3>1. logger'[l] = [logger[l] EXCEPT !.wait = Sample, !.last = 0]
      BY <1>0, <2>1 DEF PresenceTyped
    <3>2. logger'[l].wait = Sample /\ logger'[l].last = 0
      BY <1>0, <3>1 DEF Threads
    <3> QED
      BY <2>2, <3>2 DEF Awaits
  <2>3. CASE m # l
    <3>1. logger'[m] = logger[m]
      BY <1>0, <2>1, <2>3 DEF PresenceTyped
    <3> QED
      BY <1>0, <3>1 DEF Awaits, PresenceInv
  <2> QED
    BY <2>2, <2>3
<1> QED
  BY <1>5, <1>6

\* What a daemon's loop publishes is right, and says so for the time to its next loop.
LEMMA PublishedIsRight ==
  ASSUME PresenceInv, NEW d \in Daemons, PublishesPresence(d), NEW e \in Daemons
  PROVE  Loops(e)'
<1> USE SpanIs
<1>0. PresenceTyped /\ Ago /\ Loops(d) /\ Loops(e) /\ UNCHANGED <<doing, ago, quartz, beat, logger, row>>
  BY DEF PresenceInv, PublishesPresence
<1> DEFINE st == IF DetectsSleep(d) THEN AsleepState ELSE get_current_presence_state(TuiActive)
<1>1. published' = [published EXCEPT ![d] = st] /\ silent' = [silent EXCEPT ![d] = 0] /\ logger[d].at # "off"
  BY DEF PublishesPresence
<1>2. CASE e # d
  <2>1. published'[e] = published[e] /\ silent'[e] = silent[e]
    BY <1>0, <1>1, <1>2 DEF PresenceTyped
  <2> QED
    BY <1>0, <2>1 DEF Loops, RightAt
<1>3. CASE e = d
  <2>1. published'[d] = st /\ silent'[d] = 0
    BY <1>0, <1>1 DEF PresenceTyped
  <2>2. RightAt(st, 0, PublishGap)
    <3>1. ago.active \in Nat /\ ago.tui \in Nat /\ ago.asleep \in Nat /\ ago.inactive \in Nat
      BY <1>0 DEF PresenceTyped
    <3>2. CASE DetectsSleep(d)
      <4>1. ago.asleep <= 1
        BY <1>0, <3>2 DEF DetectsSleep, Loops
      <4>2. ago.inactive <= 1 /\ st = 0
        BY <1>0, <3>1, <3>2, <4>1 DEF Ago, AsleepState
      <4> HIDE DEF st
      <4> QED
        BY <3>1, <4>1, <4>2 DEF RightAt, AsleepState, AtComputer, InTui
    <3>3. CASE ~DetectsSleep(d)
      <4>1. TuiActive => ago.tui <= Fresh
        <5>1. beat # NoTime => beat \in Nat
          BY <1>0 DEF PresenceTyped, Clocks
        <5> QED
          BY <1>0, <3>1, <5>1 DEF TuiActive, Ago
      <4>2. TuiActive \in BOOLEAN /\ FALSE \in BOOLEAN
        BY Zenon DEF TuiActive
      <4>3. RightAt(Classified(is_screen_locked, get_idle_seconds, FALSE, TuiActive), 0, PublishGap)
        BY <1>0, <4>1, <4>2, RightNow
      <4> QED
        BY <3>3, <4>3 DEF get_current_presence_state
    <3> QED
      BY <3>2, <3>3
  <2> HIDE DEF st
  <2> QED
    BY <1>0, <1>1, <1>3, <2>1, <2>2 DEF Loops, RightAt
<1> QED
  BY <1>2, <1>3

\* Every step keeps the invariant.
LEMMA PresenceStep ==
  ASSUME PresenceInv, [PresenceNext]_presenceVars
  PROVE  PresenceInv'
<1> USE SpanIs
<1>0. PresenceTyped /\ Ago
  BY DEF PresenceInv
<1>1. CASE UNCHANGED presenceVars
  BY <1>1 DEF presenceVars, PresenceInv, PresenceTyped, Ago, Awaits, RightAt, Loops, Span
<1>2. ASSUME PresenceNext PROVE PresenceTyped'
  BY <1>0, <1>2, PresenceTypes
<1>3. ASSUME NEW what \in Things, Passes(what)
      PROVE  PresenceInv'
  <2>1. PresenceNext
    BY <1>3 DEF PresenceNext
  <2> QED
    BY <1>2, <1>3, <2>1, TickKeeps DEF PresenceInv
<1>4. ASSUME NEW l \in Loggers, AppendsRow(l)
      PROVE  PresenceInv'
  <2>1. PresenceNext
    BY <1>4 DEF PresenceNext
  <2>2. UNCHANGED <<doing, ago, quartz, beat, silent, published>>
    BY <1>4 DEF AppendsRow
  <2>3. Ago'
    BY <1>0, <2>2 DEF Ago
  <2>4. ASSUME NEW d \in Daemons PROVE Loops(d)'
    <3>1. logger'[d].at = logger[d].at
      BY <1>0, <1>4 DEF AppendsRow, PresenceTyped, Threads
    <3>2. Loops(d)
      BY DEF PresenceInv
    <3> QED
      BY <2>2, <3>1, <3>2 DEF Loops, RightAt
  <2> QED
    BY <1>2, <1>4, <2>1, <2>3, <2>4, RowIsRight DEF PresenceInv
<1>5. ASSUME NEW d \in Daemons, PublishesPresence(d)
      PROVE  PresenceInv'
  <2>1. PresenceNext
    BY <1>5 DEF PresenceNext
  <2>2. UNCHANGED <<doing, ago, quartz, beat, logger, row>>
    BY <1>5 DEF PublishesPresence
  <2>3. Ago' /\ \A l \in Loggers : Awaits(logger[l])'
    BY <2>2 DEF PresenceInv, Ago, Awaits
  <2>4. (row.age <= Span => RightAt(row.state, row.age, Span + 1))'
    BY <2>2 DEF PresenceInv, RightAt, Span
  <2> QED
    BY <1>2, <1>5, <2>1, <2>3, <2>4, PublishedIsRight DEF PresenceInv
<1>6. ASSUME NEW l \in Loggers, LoggerStarts(l) \/ RowFails(l) \/ LoggerStops(l),
             PresenceNext
      PROVE  PresenceInv'
  <2>1. UNCHANGED <<doing, ago, quartz, beat, row, published>>
    BY <1>6 DEF LoggerStarts, RowFails, LoggerStops
  <2>2. Ago' /\ (row.age <= Span => RightAt(row.state, row.age, Span + 1))'
    BY <2>1 DEF PresenceInv, Ago, RightAt, Span
  <2>3. ASSUME NEW m \in Loggers PROVE Awaits(logger[m])'
    <3>1. PICK s \in LogSteps : logger' = [logger EXCEPT ![l] = [NotRunning EXCEPT !.at = s]]
      <4>1. NotRunning = [NotRunning EXCEPT !.at = "off"]
        BY DEF NotRunning
      <4> QED
        BY <1>6, <4>1 DEF LoggerStarts, RowFails, LoggerStops, LogSteps
    <3>2. logger'[m] = logger[m] \/ logger'[m] = [NotRunning EXCEPT !.at = s]
      BY <1>0, <3>1 DEF PresenceTyped
    <3>3. Awaits(logger[m])
      BY DEF PresenceInv
    <3> QED
      BY <2>1, <3>2, <3>3 DEF Awaits, NotRunning, NoTime
  <2>4. ASSUME NEW d \in Daemons PROVE Loops(d)'
    <3>1. Loops(d) /\ logger \in [Loggers -> Threads] /\ silent \in [Daemons -> Clocks] /\ d \in Loggers
      BY <1>0 DEF PresenceInv, PresenceTyped
    <3>2. CASE LoggerStarts(l) \/ RowFails(l)
      <4>1. silent' = silent /\ (logger'[d].at = "off" => logger[d].at = "off")
        BY <1>6, <3>1, <3>2 DEF LoggerStarts, RowFails, NotRunning
      <4> QED
        BY <2>1, <3>1, <4>1 DEF Loops, RightAt
    <3>3. CASE LoggerStops(l)
      <4>1. CASE d = l
        <5>1. silent'[d] = NoTime
          BY <3>1, <3>3, <4>1 DEF LoggerStops
        <5> QED
          BY <5>1 DEF Loops
      <4>2. CASE d # l
        <5>1. silent'[d] = silent[d] /\ logger'[d] = logger[d]
          BY <3>1, <3>3, <4>2 DEF LoggerStops
        <5> QED
          BY <2>1, <3>1, <5>1 DEF Loops, RightAt
      <4> QED
        BY <4>1, <4>2
    <3> QED
      BY <1>6, <3>2, <3>3
  <2> QED
    BY <1>2, <1>6, <2>2, <2>3, <2>4 DEF PresenceInv
<1> QED
  BY <1>1, <1>3, <1>4, <1>5, <1>6 DEF PresenceNext, StartsWithDaemon, StartsByHand

\* For any sampling period, lateness, idle limit and heartbeat of the TUI: a recent row,
\* and what a daemon published recently, is right about the user.
THEOREM PresenceTrue == PresenceSpec => []PresenceIsTrue
<1> USE SpanIs
<1>1. PresenceInit => PresenceInv
  <2> SUFFICES ASSUME PresenceInit PROVE PresenceInv
    OBVIOUS
  <2>1. Long.active \in Nat /\ Long.tui \in Nat /\ Long.asleep \in Nat /\ Long.row = Span + 1
    BY DEF Long
  <2>2. NotRunning \in Threads
    BY DEF NotRunning, Threads, LogSteps, Clocks
  <2>3. PresenceTyped
    BY <2>1, <2>2 DEF PresenceInit, PresenceTyped, Things, AtComputer, Clocks
  <2>4. Ago
    BY <2>1 DEF PresenceInit, Ago, Active
  <2>5. \A l \in Loggers : Awaits(logger[l])
    BY DEF PresenceInit, NotRunning, Awaits
  <2>6. \A d \in Daemons : Loops(d)
    BY DEF PresenceInit, Loops
  <2>7. ~(row.age <= Span)
    BY <2>1 DEF PresenceInit
  <2> QED
    BY <2>3, <2>4, <2>5, <2>6, <2>7 DEF PresenceInv
<1>2. PresenceInv /\ [PresenceNext]_presenceVars => PresenceInv'
  BY PresenceStep
<1>3. PresenceInv => PresenceIsTrue
  <2> SUFFICES ASSUME PresenceInv PROVE PresenceIsTrue
    OBVIOUS
  <2>0. /\ ago.active \in Nat /\ ago.tui \in Nat /\ ago.asleep \in Nat /\ ago.inactive \in Nat
        /\ row.age \in Nat /\ row.state \in 0 .. 4
    BY DEF PresenceInv, PresenceTyped
  <2>1. row.age <= Span =>
          /\ row.state = InTui => ago["tui"] <= Fresh + Span
          /\ row.state = AsleepState => ago["asleep"] <= 2 * Span + 1
          /\ quartz /\ CountsPresent => ago["active"] <= IdleAfter + Span
          /\ ago["inactive"] > 2 * Span + 1 => CountsPresent
    BY <2>0 DEF PresenceInv, RightAt, CountsPresent, AtComputer
  <2>2. ASSUME NEW d \in Daemons, silent[d] \in 0 .. MaxLate
        PROVE  /\ published[d] = InTui => ago["tui"] <= Fresh + MaxLate
               /\ published[d] = AsleepState => ago["asleep"] <= PublishGap + MaxLate
               /\ ago["inactive"] > PublishGap + MaxLate => published[d] >= AtComputer
    <3>1. silent[d] # NoTime /\ published[d] \in 0 .. 4
      BY <2>2 DEF NoTime, PresenceInv, PresenceTyped
    <3>2. RightAt(published[d], silent[d], PublishGap)
      BY <2>2, <3>1 DEF PresenceInv, Loops
    <3> QED
      BY <2>0, <2>2, <3>1, <3>2 DEF RightAt, AtComputer
  <2> QED
    BY <2>1, <2>2 DEF PresenceIsTrue
<1> QED
  BY <1>1, <1>2, <1>3, PTL DEF PresenceSpec

-----------------------------------------------------------------------------
(* What is typed into a pane *)

\* What is on a screen, where a call is, and what it holds.
ScreensShown == {"unborn", "loading", "trust", "perms", "accept", "input", "refused", "gone"}
Awaiting == {"wait", "sees trust", "sees perms", "sees accept"}
Steps == {"check", "cancel", "load", "paste", "type", "enter"}
Ats == {"unmade", "done"} \cup Awaiting \cup Steps
Texts == (Sends \X Nat) \cup {EmptyBuffer}
Records == [at : Ats, way : {"keys", "paste", "prompt"}, to : TmuxWindows \cup {""},
            pane : Panes \cup {0}, pieces : Nat, sent : Nat, enter : BOOLEAN,
            accepted : SUBSET Dialogs, told : BOOLEAN]
Calls == {c \in Records : c.at # "unmade" => c.to \in TmuxWindows}

\* The types.
PaneTyped ==
  /\ shownIn \in [TmuxWindows -> Panes \cup {0}]
  /\ screen \in [Panes -> ScreensShown]
  /\ answered \in [Panes -> SUBSET {"trust", "accept"}]
  /\ copying \subseteq Panes
  /\ inputLine \in [Panes -> Seq(Texts)]
  /\ buffer \in Texts
  /\ send \in [Sends -> Calls]
  /\ alone \in [Sends -> BOOLEAN]
  /\ DOMAIN entered = Panes

\* Panes are opened in order, and a window shows one that was opened.
InOrder ==
  /\ \E m \in 0 .. MaxPanes : \A p \in Panes : screen[p] # "unborn" <=> p <= m
  /\ \A n \in TmuxWindows : shownIn[n] # 0 => screen[shownIn[n]] # "unborn"

\* The line ends with the first k pieces of w.
HasTyped(line, w, k) ==
  k <= Len(line) /\ \A i \in 1 .. k : line[Len(line) - k + i] = Piece(w, i)

\* How far the call c is, by its way of sending; at the Enter all of it was sent.
Ready(p, c) ==
  /\ p \in Panes /\ c.to \in TmuxWindows
  /\ c.way = "keys" => c.at \in {"type", "enter"} /\ c.pane = p
  /\ c.way = "paste" => c.at \notin Awaiting \cup {"type"}
  /\ c.way = "prompt" => c.at # "type"
  /\ c.at \in {"check", "cancel"} \cup Awaiting => c.sent = 0 /\ c.pieces > 0
  /\ c.at \in {"load", "paste", "type"} => c.sent < c.pieces
  /\ c.at = "enter" => c.sent = c.pieces /\ c.pane = p
  /\ ~c.told

\* The pane p takes what c is about to send: its input line is there from the look at
\* copy mode on, copy mode is off from then on; a launcher has answered exactly the
\* dialogs that were answered, and acts on the one it saw.
Undisturbed(p, c) ==
  /\ c.at \in Steps => screen[p] = "input"
  /\ c.at \notin {"check", "cancel"} => p \notin copying
  /\ c.at \in Awaiting =>
       /\ screen[p] \in {"loading", "trust", "perms", "accept", "input"}
       /\ "trust" \in answered[p] => "trust" \in c.accepted
       /\ "accept" \in answered[p] => "perms" \in c.accepted
  /\ c.at = "sees trust" => screen[p] = "trust"
  /\ c.at = "sees perms" => screen[p] \in {"perms", "accept"}
  /\ c.at = "sees accept" => screen[p] = "accept"

\* What was sent is in the line; what is about to be pasted is in the buffer.
Arriving(w, p, c) ==
  /\ HasTyped(inputLine[p], w, c.sent)
  /\ c.at = "paste" => buffer = Piece(w, c.sent + 1)

\* What is so of a call c of w that types into the pane p.
Fine(w, p, c) == Ready(p, c) /\ Undisturbed(p, c) /\ Arriving(w, p, c)

\* A call under way that nothing disturbed is the only one.
Steady(w) ==
  /\ \A v \in Sends \ {w} : ~Underway(v)
  /\ Fine(w, shownIn[send[w].to], send[w])

\* The text of w was submitted at the end of a line.
Arrived(w) == send[w].enter =>
   /\ send[w].pane \in Panes
   /\ \E line \in entered[send[w].pane] : EndsWith(line, TextOf(w))

\* The inductive invariant.
PaneInv ==
  /\ PaneTyped /\ InOrder
  /\ \A w \in Sends :
       /\ send[w].at = "unmade" => send[w] = Resting /\ ~alone[w]
       /\ alone[w] /\ Underway(w) => Steady(w)
       /\ alone[w] /\ send[w].at = "done" /\ send[w].told => Arrived(w)

\* A piece appended to a line that ends with the first k makes it end with k + 1.
LEMMA OneMore ==
  ASSUME NEW line \in Seq(Texts), NEW w, NEW k \in Nat, HasTyped(line, w, k)
  PROVE  HasTyped(Append(line, Piece(w, k + 1)), w, k + 1)
<1> DEFINE more == Append(line, Piece(w, k + 1))
<1>1. Len(line) \in Nat /\ Len(more) = Len(line) + 1 /\ more[Len(line) + 1] = Piece(w, k + 1)
      /\ \A j \in 1 .. Len(line) : more[j] = line[j]
  OBVIOUS
<1> HIDE DEF more
<1>2. ASSUME NEW i \in 1 .. k + 1
      PROVE  more[Len(more) - (k + 1) + i] = Piece(w, i)
  <2>1. Len(more) - (k + 1) + i = Len(line) - k + i
    BY <1>1
  <2>2. CASE i = k + 1
    BY <2>1, <2>2, <1>1
  <2>3. CASE i # k + 1
    <3>1. i \in 1 .. k /\ Len(line) - k + i \in 1 .. Len(line)
      BY <2>3, <1>1 DEF HasTyped
    <3> QED
      BY <2>1, <3>1, <1>1 DEF HasTyped
  <2> QED
    BY <2>2, <2>3
<1>3. k + 1 <= Len(more)
  BY <1>1 DEF HasTyped
<1> QED
  BY <1>2, <1>3 DEF HasTyped, more

\* A line that ends with all pieces of a call ends with its text.
LEMMA TypedEnds ==
  ASSUME NEW line \in Seq(Texts), NEW w \in Sends, send[w].pieces \in Nat,
         HasTyped(line, w, send[w].pieces)
  PROVE  EndsWith(line, TextOf(w))
<1> DEFINE k == send[w].pieces
           text == TextOf(w)
           end == SubSeq(line, Len(line) - k + 1, Len(line))
<1>1. k \in Nat /\ Len(line) \in Nat /\ k <= Len(line)
  BY DEF HasTyped
<1>2. text \in Seq(Texts) /\ Len(text) = k /\ \A i \in 1 .. k : text[i] = Piece(w, i)
  <2>1. \A i \in 1 .. k : Piece(w, i) \in Texts
    BY <1>1 DEF Piece, Texts
  <2> HIDE DEF k
  <2>2. [i \in 1 .. k |-> Piece(w, i)] \in Seq(Texts)
    BY <2>1, <1>1
  <2>3. text = [i \in 1 .. k |-> Piece(w, i)]
    BY DEF TextOf, k
  <2> HIDE DEF text
  <2>4. \A i \in 1 .. k : text[i] = Piece(w, i)
    BY <2>3
  <2>5. Len(text) = k
    <3>1. DOMAIN text = 1 .. k
      BY <2>3
    <3>2. Len(text) \in Nat /\ DOMAIN text = 1 .. Len(text)
      BY <2>2, LenProperties
    <3>3. \A a \in Nat : \A b \in Nat : (1 .. a) = (1 .. b) => a = b
      <4> SUFFICES ASSUME NEW a \in Nat, NEW b \in Nat, (1 .. a) = (1 .. b), a < b
                   PROVE  FALSE
        OBVIOUS
      <4>1. b \in 1 .. b /\ b \notin 1 .. a
        OBVIOUS
      <4> QED
        BY <4>1
    <3> QED
      BY <1>1, <3>1, <3>2, <3>3
  <2> QED
    BY <2>2, <2>3, <2>4, <2>5
<1>3. end \in Seq(Texts) /\ Len(end) = k /\ \A i \in 1 .. k : end[i] = line[Len(line) - k + i]
  <2>1. \A i \in Len(line) - k + 1 .. Len(line) : i \in 1 .. Len(line) /\ line[i] \in Texts
    BY <1>1, ElementOfSeq
  <2>2. Len(line) - k + 1 \in Int /\ Len(line) \in Int /\ Len(line) - (Len(line) - k + 1) + 1 = k
        /\ (IF Len(line) - k + 1 <= Len(line) THEN k ELSE 0) = k
        /\ \A i \in 1 .. k : (Len(line) - k + 1) + i - 1 = Len(line) - k + i
    BY <1>1
  <2> HIDE DEF k
  <2>3. /\ end \in Seq(Texts)
        /\ Len(end) = IF Len(line) - k + 1 <= Len(line) THEN Len(line) - (Len(line) - k + 1) + 1 ELSE 0
        /\ \A i \in 1 .. Len(line) - (Len(line) - k + 1) + 1 : end[i] = line[(Len(line) - k + 1) + i - 1]
    BY <2>1, <2>2, SubSeqProperties
  <2> HIDE DEF end
  <2> QED
    BY <2>2, <2>3
<1>4. \A i \in 1 .. k : line[Len(line) - k + i] = Piece(w, i)
  BY DEF HasTyped
<1> HIDE DEF end, text, k
<1>5. end = text
  BY <1>2, <1>3, <1>4, SeqEqual
<1> QED
  BY <1>1, <1>2, <1>5 DEF EndsWith, end, text, k

\* What an Enter does in any pane keeps the types; panes stay opened and submitted
\* lines are never lost.
LEMMA EnteredIs ==
  ASSUME PaneTyped, NEW p \in Panes \cup {0}, Entered(p)
  PROVE  /\ screen' \in [Panes -> ScreensShown] /\ answered' \in [Panes -> SUBSET {"trust", "accept"}]
         /\ inputLine' \in [Panes -> Seq(Texts)] /\ DOMAIN entered' = Panes
         /\ \A q \in Panes : /\ screen'[q] = "unborn" <=> screen[q] = "unborn"
                             /\ entered[q] \subseteq entered'[q]
<1> USE DEF PaneTyped, ScreensShown
<1>1. CASE p = 0 \/ p \in copying
  BY <1>1 DEF Entered
<1>2. CASE p # 0 /\ p \notin copying /\ screen[p] = "input"
  <2>1. entered' = [entered EXCEPT ![p] = entered[p] \cup {inputLine[p]}]
        /\ inputLine' = [inputLine EXCEPT ![p] = <<>>] /\ UNCHANGED <<screen, answered>>
    BY <1>2 DEF Entered
  <2>2. <<>> \in Seq(Texts)
    OBVIOUS
  <2>3. DOMAIN entered' = Panes /\ \A q \in Panes : entered[q] \subseteq entered'[q]
    BY <1>2, <2>1
  <2> QED
    BY <2>1, <2>2, <2>3
<1>3. CASE p # 0 /\ p \notin copying /\ screen[p] \in {"trust", "accept"}
  <2>1. /\ screen' = [screen EXCEPT ![p] = "loading"]
        /\ answered' = [answered EXCEPT ![p] = answered[p] \cup {screen[p]}]
        /\ UNCHANGED <<inputLine, entered>>
    BY <1>3 DEF Entered
  <2>2. answered[p] \cup {screen[p]} \in SUBSET {"trust", "accept"}
    BY <1>3
  <2>3. answered' \in [Panes -> SUBSET {"trust", "accept"}]
    BY <2>1, <2>2
  <2>4. screen' \in [Panes -> ScreensShown] /\ \A q \in Panes : screen'[q] = "unborn" <=> screen[q] = "unborn"
    BY <1>3, <2>1
  <2> QED
    BY <2>1, <2>3, <2>4
<1>4. CASE p # 0 /\ p \notin copying /\ screen[p] = "perms"
  BY <1>4 DEF Entered
<1>5. CASE p # 0 /\ p \notin copying /\ screen[p] \notin {"input", "trust", "accept", "perms"}
  BY <1>5 DEF Entered
<1> QED
  BY <1>1, <1>2, <1>3, <1>4, <1>5

\* The panes opened so far are the first ones.
LEMMA OpenedIsInt ==
  ASSUME InOrder
  PROVE  /\ Cardinality(Opened) \in Nat
         /\ \A p \in Panes : screen[p] # "unborn" <=> p <= Cardinality(Opened)
<1>1. PICK m \in 0 .. MaxPanes : \A p \in Panes : screen[p] # "unborn" <=> p <= m
  BY DEF InOrder
<1>2. Opened = 1 .. m
  BY <1>1, PaneInputAssumption DEF Opened, Panes
<1>3. Cardinality(Opened) = m
  <2>1. Cardinality(1 .. m) = IF 1 > m THEN 0 ELSE m - 1 + 1
    BY <1>1, FS_Interval, PaneInputAssumption
  <2> QED
    BY <1>1, <1>2, <2>1, PaneInputAssumption
<1> QED
  BY <1>1, <1>3, PaneInputAssumption

\* A new window gets a pane that was not opened before.
LEMMA NextPane ==
  ASSUME InOrder, Cardinality(Opened) < MaxPanes
  PROVE  Cardinality(Opened) + 1 \in Panes /\ screen[Cardinality(Opened) + 1] = "unborn"
<1> DEFINE m == Cardinality(Opened)
<1>1. m \in Nat /\ \A p \in Panes : screen[p] # "unborn" <=> p <= m
  BY OpenedIsInt
<1> HIDE DEF m
<1>2. m + 1 \in Panes /\ ~(m + 1 <= m)
  BY <1>1, PaneInputAssumption DEF Panes, m
<1>3. screen[m + 1] = "unborn"
  BY <1>1, <1>2
<1> QED
  BY <1>2, <1>3 DEF m

\* The call w is now c; the others are where they were.
Becomes(w, c) ==
  /\ send' \in [Sends -> Calls] /\ send'[w] = c
  /\ \A v \in Sends \ {w} : send'[v] = send[v]

\* The fields of a call.
LEMMA Fields ==
  ASSUME NEW c \in Records
  PROVE  /\ c.at \in Ats /\ c.way \in {"keys", "paste", "prompt"} /\ c.to \in TmuxWindows \cup {""}
         /\ c.pane \in Panes \cup {0} /\ c.pieces \in Nat /\ c.sent \in Nat
         /\ c.accepted \in SUBSET Dialogs
BY DEF Records

\* One more piece.
LEMMA Succ == \A n \in Nat : n + 1 \in Nat
OBVIOUS

\* A call that has started stays one when it goes on or finishes.
LEMMA CallIs ==
  ASSUME NEW c \in Calls, c.at # "unmade"
  PROVE  /\ c.to \in TmuxWindows
         /\ \A at \in Ats : [c EXCEPT !.at = at] \in Calls
         /\ \A at \in Ats, told \in BOOLEAN : [c EXCEPT !.at = at, !.told = told] \in Calls
<1>1. c \in Records /\ c.to \in TmuxWindows
  BY DEF Calls
<1>2. ASSUME NEW at \in Ats
      PROVE  [c EXCEPT !.at = at] \in Records /\ [c EXCEPT !.at = at].to = c.to
  BY <1>1 DEF Records
<1>3. ASSUME NEW at \in Ats, NEW told \in BOOLEAN
      PROVE  [c EXCEPT !.at = at, !.told = told] \in Records
             /\ [c EXCEPT !.at = at, !.told = told].to = c.to
  BY <1>1 DEF Records
<1> QED
  BY <1>1, <1>2, <1>3 DEF Calls

\* What it is for a call to go on ...
LEMMA GoesIs ==
  ASSUME PaneTyped, NEW w \in Sends, NEW at \in Ats, send[w].at # "unmade", Goes(w, at)
  PROVE  Becomes(w, [send[w] EXCEPT !.at = at])
<1>1. send[w] \in Calls
  BY DEF PaneTyped
<1>2. send' = [send EXCEPT ![w] = [send[w] EXCEPT !.at = at]]
  BY DEF Goes, PaneTyped
<1> QED
  BY <1>1, <1>2, CallIs DEF PaneTyped, Becomes

\* ... to finish ...
LEMMA FinishesIs ==
  ASSUME PaneTyped, NEW w \in Sends, NEW told \in BOOLEAN, send[w].at # "unmade",
         Finishes(w, told)
  PROVE  Becomes(w, [send[w] EXCEPT !.at = "done", !.told = told])
<1>1. send[w] \in Calls /\ "done" \in Ats
  BY DEF PaneTyped, Ats
<1> QED
  BY <1>1, CallIs DEF PaneTyped, Becomes, Finishes

\* ... and to start.
LEMMA StartsIs ==
  ASSUME PaneTyped, NEW w \in Sends, NEW c, send' = [send EXCEPT ![w] = c],
         c \in Records, c.to \in TmuxWindows
  PROVE  Becomes(w, c)
<1>1. c \in Calls
  BY DEF Calls
<1> QED
  BY <1>1 DEF PaneTyped, Becomes

\* Every action of a call keeps the types, the panes and the submitted lines.
LEMMA CallTypes ==
  ASSUME PaneTyped, NEW w \in Sends, CallActs(w)
  PROVE  PaneTyped' /\ shownIn' = shownIn
         /\ \A q \in Panes : /\ screen'[q] = "unborn" <=> screen[q] = "unborn"
                             /\ entered[q] \subseteq entered'[q]
<1> DEFINE p == FirstPane(send[w].to)
<1>0. send[w] \in Records /\ send[w] \in Calls
  BY DEF PaneTyped, Calls
<1>1. CASE StartsPaste(w)
  <2>1. PICK n \in TmuxWindows, k \in 1 .. 2 :
          /\ send' = [send EXCEPT ![w] =
               [send[w] EXCEPT !.at = "check", !.way = "paste", !.to = n, !.pieces = k]]
          /\ alone' = Met(w, n, "paste")
    BY <1>1 DEF StartsPaste
  <2>2. alone' \in [Sends -> BOOLEAN]
    BY <2>1 DEF Met, PaneTyped
  <2>3. k \in Nat /\ "check" \in Ats
    BY <2>1 DEF Ats, Steps
  <2>4. /\ [send[w] EXCEPT !.at = "check", !.way = "paste", !.to = n, !.pieces = k] \in Records
        /\ [send[w] EXCEPT !.at = "check", !.way = "paste", !.to = n, !.pieces = k].to = n
    BY <1>0, <2>1, <2>3 DEF Records
  <2>5. send' \in [Sends -> Calls]
    BY <2>1, <2>4, StartsIs DEF Becomes
  <2> QED
    BY <1>1, <2>2, <2>5 DEF StartsPaste, PaneTyped, paneVars
<1>2. CASE StartsKeys(w)
  <2>1. PICK n \in TmuxWindows, text \in KeyTexts :
          /\ send' = [send EXCEPT ![w] =
               [send[w] EXCEPT
                  !.at = IF FirstPane(n) = 0 THEN "done" ELSE IF text[1] = 0 THEN "enter" ELSE "type",
                  !.way = "keys", !.to = n, !.pane = FirstPane(n), !.pieces = text[1],
                  !.enter = text[2]]]
          /\ alone' = Met(w, n, "keys")
    BY <1>2 DEF StartsKeys
  <2>2. alone' \in [Sends -> BOOLEAN]
    BY <2>1 DEF Met, PaneTyped
  <2>3. text[1] \in Nat /\ text[2] \in BOOLEAN
    <3>1. ASSUME NEW i \in Nat, NEW b \in BOOLEAN, text = <<i, b>>
          PROVE  text[1] \in Nat /\ text[2] \in BOOLEAN
      BY <3>1
    <3> QED
      BY <2>1, <3>1 DEF KeyTexts
  <2>4. FirstPane(n) \in Panes \cup {0}
    BY DEF FirstPane, PaneTyped
  <2> DEFINE at == IF FirstPane(n) = 0 THEN "done" ELSE IF text[1] = 0 THEN "enter" ELSE "type"
             c == [send[w] EXCEPT !.at = at, !.way = "keys", !.to = n, !.pane = FirstPane(n),
                                  !.pieces = text[1], !.enter = text[2]]
  <2>5. at \in Ats
    BY DEF Ats, Steps
  <2>6. send' = [send EXCEPT ![w] = c]
    BY <2>1
  <2> HIDE DEF at
  <2>7. c \in Records /\ c.to = n
    BY <1>0, <2>1, <2>3, <2>4, <2>5 DEF Records
  <2> HIDE DEF c
  <2>8. send' \in [Sends -> Calls]
    BY <2>1, <2>6, <2>7, StartsIs DEF Becomes
  <2> QED
    BY <1>2, <2>2, <2>8 DEF StartsKeys, PaneTyped, paneVars
<1>3. CASE StartsPrompt(w)
  <2>1. PICK n \in TmuxWindows, k \in 1 .. 2 :
          /\ send' = [send EXCEPT ![w] =
               [send[w] EXCEPT !.at = "wait", !.way = "prompt", !.to = n, !.pieces = k]]
          /\ alone' = Met(w, n, "prompt")
    BY <1>3 DEF StartsPrompt
  <2>2. alone' \in [Sends -> BOOLEAN]
    BY <2>1 DEF Met, PaneTyped
  <2>3. k \in Nat /\ "wait" \in Ats
    BY <2>1 DEF Ats, Awaiting
  <2>4. /\ [send[w] EXCEPT !.at = "wait", !.way = "prompt", !.to = n, !.pieces = k] \in Records
        /\ [send[w] EXCEPT !.at = "wait", !.way = "prompt", !.to = n, !.pieces = k].to = n
    BY <1>0, <2>1, <2>3 DEF Records
  <2>5. send' \in [Sends -> Calls]
    BY <2>1, <2>4, StartsIs DEF Becomes
  <2> QED
    BY <1>3, <2>2, <2>5 DEF StartsPrompt, PaneTyped, paneVars
<1>4. CASE ChecksCopyMode(w) \/ CancelsCopyMode(w) \/ MissesCopyMode(w)
  <2>1. PICK at \in {"cancel", "load"} : Goes(w, at)
    BY <1>4 DEF ChecksCopyMode, CancelsCopyMode, MissesCopyMode
  <2>2. at \in Ats /\ send[w].at # "unmade"
    BY <1>4, <2>1 DEF Ats, Steps, ChecksCopyMode, CancelsCopyMode, MissesCopyMode
  <2>3. send' \in [Sends -> Calls]
    BY <2>1, <2>2, GoesIs DEF Becomes
  <2> QED
    BY <1>4, <2>3 DEF ChecksCopyMode, CancelsCopyMode, MissesCopyMode, PaneTyped, paneVars
<1>5. CASE LoadsBuffer(w)
  <2>1. "paste" \in Ats
    BY DEF Ats, Steps
  <2>2. send' \in [Sends -> Calls]
    BY <1>5, <2>1, GoesIs DEF LoadsBuffer, Becomes
  <2>3. buffer' \in Texts
    <3>1. send[w].sent \in Nat
      BY <1>0, Fields
    <3> QED
      BY <1>5, <3>1, Succ DEF LoadsBuffer, Texts, Piece
  <2> QED
    BY <1>5, <2>2, <2>3 DEF LoadsBuffer, PaneTyped, paneVars
<1>6. CASE PastesBuffer(w)
  <2>1. CASE p = 0
    <3>1. send' \in [Sends -> Calls]
      BY <1>6, <2>1, FinishesIs DEF PastesBuffer, Becomes
    <3> QED
      BY <1>6, <2>1, <3>1 DEF PastesBuffer, PaneTyped
  <2>2. CASE p # 0
    <3> DEFINE at == IF send[w].sent + 1 < send[w].pieces THEN "load" ELSE "enter"
               c == [send[w] EXCEPT !.sent = send[w].sent + 1, !.pane = p, !.at = at]
    <3>1. /\ send' = [send EXCEPT ![w] = c]
          /\ Pasted(p, buffer) /\ UNCHANGED <<shownIn, screen, answered, copying, entered, buffer, alone>>
      BY <1>6, <2>2 DEF PastesBuffer
    <3>2. send[w].to \in TmuxWindows
      BY <1>0, <1>6, CallIs DEF PastesBuffer
    <3>3. p \in Panes
      BY <2>2, <3>2 DEF PaneTyped, FirstPane
    <3>4. at \in Ats
      BY DEF Ats, Steps
    <3>5. send[w].sent \in Nat
      BY <1>0, Fields
    <3> HIDE DEF at, p
    <3>8. c \in Records /\ c.to = send[w].to
      BY <1>0, <3>3, <3>4, <3>5, Succ DEF Records
    <3> HIDE DEF c
    <3>6. send' \in [Sends -> Calls]
      BY <3>1, <3>2, <3>8, StartsIs DEF Becomes
    <3>7. inputLine' \in [Panes -> Seq(Texts)]
      BY <3>1, <3>3 DEF Pasted, PaneTyped
    <3> QED
      BY <3>1, <3>6, <3>7 DEF PaneTyped
  <2> QED
    BY <2>1, <2>2
<1>7. CASE TypesKeys(w)
  <2> DEFINE k == send[w].sent + 1
             at == IF k < send[w].pieces THEN "type" ELSE IF send[w].enter THEN "enter" ELSE "done"
             told == ~send[w].enter /\ k = send[w].pieces
             c == [send[w] EXCEPT !.sent = k, !.told = told, !.at = at]
  <2>1. /\ send' = [send EXCEPT ![w] = c] /\ Typed(send[w].pane, Piece(w, k))
        /\ UNCHANGED <<shownIn, screen, answered, copying, entered, buffer, alone>>
    BY <1>7 DEF TypesKeys
  <2>2. at \in Ats
    BY DEF Ats, Steps
  <2>3. told \in BOOLEAN
    BY Zenon
  <2>4. k \in Nat /\ send[w].pane \in Panes \cup {0}
    <3>1. send[w].sent \in Nat /\ send[w].pane \in Panes \cup {0}
      BY <1>0, Fields
    <3> QED
      BY <3>1, Succ
  <2> HIDE DEF at, told, k
  <2>5. c \in Records /\ c.to = send[w].to
    BY <1>0, <2>2, <2>3, <2>4 DEF Records
  <2>6. send[w].to \in TmuxWindows
    BY <1>0, <1>7, CallIs DEF TypesKeys
  <2> HIDE DEF c
  <2>7. send' \in [Sends -> Calls]
    BY <2>1, <2>5, <2>6, StartsIs DEF Becomes
  <2>8. Piece(w, k) \in Texts
    BY <2>4 DEF Piece, Texts
  <2>9. inputLine' \in [Panes -> Seq(Texts)]
    BY <2>1, <2>4, <2>8 DEF Typed, PaneTyped
  <2> QED
    BY <2>1, <2>7, <2>9 DEF PaneTyped
<1>8. CASE PressesEnter(w)
  <2> DEFINE q == IF send[w].way = "keys" THEN send[w].pane ELSE p
  <2>1. Entered(q) /\ Finishes(w, q # 0) /\ UNCHANGED <<shownIn, copying, buffer, alone>>
        /\ send[w].at # "unmade"
    BY <1>8 DEF PressesEnter
  <2>2. q \in Panes \cup {0}
    <3>1. send[w].to \in TmuxWindows
      BY <1>0, <2>1, CallIs
    <3> QED
      BY <1>0, <3>1 DEF Records, PaneTyped, FirstPane
  <2>3. (q # 0) \in BOOLEAN
    OBVIOUS
  <2> HIDE DEF q
  <2>4. send' \in [Sends -> Calls]
    BY <2>1, <2>3, FinishesIs DEF Becomes
  <2> QED
    BY <2>1, <2>2, <2>4, EnteredIs DEF PaneTyped
<1>9. CASE PollsPane(w)
  <2>1. PICK at \in {"sees trust", "sees perms", "check", "wait"} : Goes(w, at)
    BY <1>9 DEF PollsPane, Answers
  <2>2. at \in Ats
    BY <2>1 DEF Ats, Steps, Awaiting
  <2>3. send' \in [Sends -> Calls]
    BY <1>9, <2>1, <2>2, GoesIs DEF Becomes, PollsPane
  <2> QED
    BY <1>9, <2>3 DEF PollsPane, PaneTyped, paneVars
<1>10. CASE AcceptsTrust(w) \/ AcceptsPerms(w)
  <2>1. PICK d \in Dialogs :
          /\ send' = [send EXCEPT ![w] =
               [send[w] EXCEPT !.at = "wait", !.accepted = send[w].accepted \cup {d}]]
          /\ Entered(p) /\ UNCHANGED <<shownIn, copying, buffer, alone>> /\ send[w].at # "unmade"
    BY <1>10 DEF AcceptsTrust, AcceptsPerms, Dialogs
  <2>2. send[w].to \in TmuxWindows
    BY <1>0, <2>1, CallIs
  <2>3. p \in Panes \cup {0}
    BY <2>2 DEF PaneTyped, FirstPane
  <2>4. "wait" \in Ats
    BY DEF Ats, Awaiting
  <2> DEFINE more == send[w].accepted \cup {d}
             c == [send[w] EXCEPT !.at = "wait", !.accepted = more]
  <2>5. more \in SUBSET Dialogs
    BY <1>0, <2>1 DEF Records
  <2> HIDE DEF more
  <2>6. c \in Records /\ c.to = send[w].to
    BY <1>0, <2>4, <2>5 DEF Records
  <2>7. send' = [send EXCEPT ![w] = c]
    BY <2>1 DEF more
  <2> HIDE DEF c, p
  <2>8. send' \in [Sends -> Calls]
    BY <2>2, <2>6, <2>7, StartsIs DEF Becomes
  <2> QED
    BY <2>1, <2>3, <2>8, EnteredIs DEF PaneTyped
<1>11. CASE MovesDown(w)
  <2>1. "sees accept" \in Ats
    BY DEF Ats, Awaiting
  <2>2. send' \in [Sends -> Calls]
    BY <1>11, <2>1, GoesIs DEF MovesDown, Becomes
  <2>3. screen' \in [Panes -> ScreensShown] /\ \A q \in Panes : screen'[q] = "unborn" <=> screen[q] = "unborn"
    BY <1>11 DEF MovesDown, PaneTyped, ScreensShown
  <2> QED
    BY <1>11, <2>2, <2>3 DEF MovesDown, PaneTyped
<1>12. CASE GivesUpWaiting(w)
  <2>1. "check" \in Ats
    BY DEF Ats, Steps
  <2>2. send' \in [Sends -> Calls]
    BY <1>12, <2>1, GoesIs DEF GivesUpWaiting, Becomes
  <2> QED
    BY <1>12, <2>2 DEF GivesUpWaiting, PaneTyped, paneVars
<1> QED
  BY <1>1, <1>2, <1>3, <1>4, <1>5, <1>6, <1>7, <1>8, <1>9, <1>10, <1>11, <1>12 DEF CallActs

\* A call that pastes, and that nothing disturbed, stays on its way: from the look at
\* copy mode through the buffer to the last piece (send_text_to_tmux_window).
LEMMA PastesKeep ==
  ASSUME PaneTyped, NEW w \in Sends, NEW p, p = shownIn[send[w].to], Fine(w, p, send[w]), Underway(w),
         \/ ChecksCopyMode(w) \/ CancelsCopyMode(w) \/ LoadsBuffer(w) \/ PastesBuffer(w)
  PROVE  \E d : d = send'[w] /\ d.to = send[w].to /\ d.at # "done" /\ Fine(w, p, d)'
<1>0. PICK c \in Records : c = send[w] /\ c \in Calls
  BY DEF PaneTyped, Calls
<1>1. p \in Panes /\ c.to \in TmuxWindows /\ p = shownIn[c.to] /\ p # 0 /\ Fine(w, p, c) /\ FirstPane(c.to) = p
  BY <1>0 DEF Fine, Ready, Panes, FirstPane
<1>2. c.sent \in Nat /\ c.pieces \in Nat
  BY Fields
<1>3. CASE ChecksCopyMode(w)
  <2>1. PICK at \in {"cancel", "load"} : Goes(w, at) /\ (at = "load" => p \notin copying)
    BY <1>0, <1>1, <1>3 DEF ChecksCopyMode
  <2>2. c.at = "check" /\ UNCHANGED <<paneVars, buffer>>
    BY <1>0, <1>3 DEF ChecksCopyMode
  <2>3. at \in Ats
    BY <2>1 DEF Ats, Steps
  <2>4. PICK d : d = send'[w] /\ d = [c EXCEPT !.at = at]
    BY <1>0, <2>1, <2>2, <2>3, GoesIs DEF Becomes
  <2>5. /\ d.at = at /\ d.way = c.way /\ d.to = c.to /\ d.pane = c.pane /\ d.pieces = c.pieces
        /\ d.sent = c.sent /\ d.accepted = c.accepted /\ d.told = c.told
    BY <2>4 DEF Records
  <2>6. Ready(p, d)
    BY <1>1, <1>2, <2>1, <2>2, <2>5 DEF Fine, Ready, Awaiting
  <2>7. Undisturbed(p, d)'
    BY <1>1, <2>1, <2>2, <2>5 DEF Fine, Undisturbed, Awaiting, Steps, paneVars
  <2>8. Arriving(w, p, d)'
    BY <1>1, <2>1, <2>2, <2>5 DEF Fine, Arriving, HasTyped, paneVars
  <2> QED
    BY <1>0, <2>1, <2>4, <2>5, <2>6, <2>7, <2>8 DEF Fine
<1>4. CASE CancelsCopyMode(w)
  <2>1. /\ c.at = "cancel" /\ Goes(w, "load") /\ copying' = copying \ {p}
        /\ UNCHANGED <<screen, answered, inputLine, buffer>>
    BY <1>0, <1>1, <1>4 DEF CancelsCopyMode
  <2>3. "load" \in Ats
    BY DEF Ats, Steps
  <2>4. PICK d : d = send'[w] /\ d = [c EXCEPT !.at = "load"]
    BY <1>0, <2>1, <2>3, GoesIs DEF Becomes
  <2>5. /\ d.at = "load" /\ d.way = c.way /\ d.to = c.to /\ d.pane = c.pane /\ d.pieces = c.pieces
        /\ d.sent = c.sent /\ d.accepted = c.accepted /\ d.told = c.told
    BY <2>4 DEF Records
  <2>6. Ready(p, d)
    BY <1>1, <1>2, <2>1, <2>5 DEF Fine, Ready, Awaiting
  <2>7. Undisturbed(p, d)'
    BY <1>1, <2>1, <2>5 DEF Fine, Undisturbed, Awaiting, Steps
  <2>8. Arriving(w, p, d)'
    BY <1>1, <2>1, <2>5 DEF Fine, Arriving, HasTyped
  <2> QED
    BY <1>0, <2>1, <2>4, <2>5, <2>6, <2>7, <2>8 DEF Fine
<1>5. CASE LoadsBuffer(w)
  <2>1. /\ c.at = "load" /\ Goes(w, "paste") /\ buffer' = Piece(w, c.sent + 1)
        /\ UNCHANGED <<copying, screen, answered, inputLine>>
    BY <1>0, <1>1, <1>5 DEF LoadsBuffer, paneVars
  <2>3. "paste" \in Ats
    BY DEF Ats, Steps
  <2>4. PICK d : d = send'[w] /\ d = [c EXCEPT !.at = "paste"]
    BY <1>0, <2>1, <2>3, GoesIs DEF Becomes
  <2>5. /\ d.at = "paste" /\ d.way = c.way /\ d.to = c.to /\ d.pane = c.pane /\ d.pieces = c.pieces
        /\ d.sent = c.sent /\ d.accepted = c.accepted /\ d.told = c.told
    BY <2>4 DEF Records
  <2>6. Ready(p, d)
    BY <1>1, <1>2, <2>1, <2>5 DEF Fine, Ready, Awaiting
  <2>7. Undisturbed(p, d)'
    BY <1>1, <2>1, <2>5 DEF Fine, Undisturbed, Awaiting, Steps
  <2>8. Arriving(w, p, d)'
    BY <1>1, <2>1, <2>5 DEF Fine, Arriving, HasTyped
  <2> QED
    BY <1>0, <2>1, <2>4, <2>5, <2>6, <2>7, <2>8 DEF Fine
<1>6. CASE PastesBuffer(w)
  <2> DEFINE at == IF c.sent + 1 < c.pieces THEN "load" ELSE "enter"
  <2>1. /\ c.at = "paste" /\ Pasted(p, buffer) /\ UNCHANGED <<copying, screen, answered, buffer>>
        /\ send' = [send EXCEPT ![w] = [c EXCEPT !.sent = c.sent + 1, !.pane = p, !.at = at]]
    BY <1>0, <1>1, <1>6 DEF PastesBuffer
  <2>2. c.sent < c.pieces /\ screen[p] = "input" /\ buffer = Piece(w, c.sent + 1)
    BY <1>1, <2>1 DEF Fine, Ready, Undisturbed, Arriving, Steps
  <2>3. (at = "load" /\ c.sent + 1 < c.pieces) \/ (at = "enter" /\ c.sent + 1 = c.pieces)
    <3>1. \A a \in Nat : \A b \in Nat : a < b => a + 1 < b \/ a + 1 = b
      OBVIOUS
    <3> QED
      BY <1>2, <2>2, <3>1
  <2> HIDE DEF at
  <2>4. PICK d : d = send'[w] /\ d = [c EXCEPT !.sent = c.sent + 1, !.pane = p, !.at = at]
    BY <2>1 DEF PaneTyped
  <2>5. /\ d.at = at /\ d.way = c.way /\ d.to = c.to /\ d.pane = p /\ d.pieces = c.pieces
        /\ d.sent = c.sent + 1 /\ d.accepted = c.accepted /\ d.told = c.told
    BY <2>4 DEF Records
  <2>6. Ready(p, d)
    BY <1>1, <1>2, <2>1, <2>3, <2>5 DEF Fine, Ready, Awaiting
  <2>7. Undisturbed(p, d)'
    BY <1>1, <2>1, <2>2, <2>3, <2>5 DEF Fine, Undisturbed, Awaiting, Steps
  <2>8. Arriving(w, p, d)'
    <3>1. inputLine'[p] = Append(inputLine[p], Piece(w, c.sent + 1)) /\ inputLine[p] \in Seq(Texts)
      BY <1>1, <2>1, <2>2 DEF Pasted, PaneTyped
    <3>2. HasTyped(inputLine[p], w, c.sent)
      BY <1>1 DEF Fine, Arriving
    <3>3. HasTyped(inputLine'[p], w, c.sent + 1)
      BY <1>2, <3>1, <3>2, OneMore
    <3> QED
      BY <2>3, <2>5, <3>3 DEF Arriving
  <2> QED
    BY <1>0, <2>3, <2>4, <2>5, <2>6, <2>7, <2>8 DEF Fine
<1> QED
  BY <1>3, <1>4, <1>5, <1>6

\* A launcher that nothing disturbed answers the dialog that is there, in order, and
\* none twice, until it sees the input line (_wait_for_prompt).
LEMMA LaunchKeeps ==
  ASSUME PaneTyped, NEW w \in Sends, NEW p, p = shownIn[send[w].to], Fine(w, p, send[w]), Underway(w),
         \/ PollsPane(w) \/ AcceptsTrust(w) \/ MovesDown(w) \/ AcceptsPerms(w)
  PROVE  \E d : d = send'[w] /\ d.to = send[w].to /\ d.at # "done" /\ Fine(w, p, d)'
<1>0. PICK c \in Records : c = send[w] /\ c \in Calls
  BY DEF PaneTyped, Calls
<1>1. p \in Panes /\ c.to \in TmuxWindows /\ p = shownIn[c.to] /\ p # 0 /\ Fine(w, p, c) /\ FirstPane(c.to) = p
  BY <1>0 DEF Fine, Ready, Panes, FirstPane
<1>2. c.sent \in Nat /\ c.pieces \in Nat /\ c.accepted \in SUBSET Dialogs
  BY Fields
<1>3. c.at \in Awaiting /\ c.way = "prompt" /\ c.sent = 0 /\ c.pieces > 0 /\ ~c.told /\ p \notin copying
  <2>1. c.at \in Awaiting
    BY <1>0 DEF PollsPane, AcceptsTrust, MovesDown, AcceptsPerms, Awaiting
  <2> QED
    BY <1>0, <1>1, <2>1, Fields DEF Fine, Ready, Undisturbed, Awaiting
<1>4. \A line : line \in Seq(Texts) => HasTyped(line, w, 0)
  BY DEF HasTyped
<1>5. screen[p] \in {"loading", "trust", "perms", "accept", "input"}
      /\ ("trust" \in answered[p] => "trust" \in c.accepted)
      /\ ("accept" \in answered[p] => "perms" \in c.accepted)
      /\ (c.at = "sees trust" => screen[p] = "trust")
      /\ (c.at = "sees perms" => screen[p] \in {"perms", "accept"})
      /\ (c.at = "sees accept" => screen[p] = "accept")
  BY <1>1, <1>3 DEF Fine, Undisturbed
<1>6. answered[p] \in SUBSET {"trust", "accept"}
  BY <1>1 DEF PaneTyped
<1>7. CASE PollsPane(w)
  <2>1. PICK content \in Contents(p) : Goes(w, Answers(content, c.accepted))
    BY <1>0, <1>1, <1>7 DEF PollsPane
  <2>2. c.at = "wait" /\ UNCHANGED <<shownIn, screen, answered, copying, inputLine, buffer>>
    BY <1>0, <1>7 DEF PollsPane, paneVars
  <2>3. PICK left \in SUBSET answered[p] : content = {screen[p]} \cup left
    BY <2>1 DEF Contents
  <2>4. PICK at : at = Answers(content, c.accepted)
    OBVIOUS
  <2>5. /\ at \in {"wait", "check", "sees trust", "sees perms"}
        /\ at = "sees trust" => screen[p] = "trust"
        /\ at = "sees perms" => screen[p] \in {"perms", "accept"}
        /\ at = "check" => screen[p] = "input"
    BY <1>5, <1>6, <2>3, <2>4 DEF Answers
  <2>6. at \in Ats
    BY <2>5 DEF Ats, Steps, Awaiting
  <2>7. PICK d : d = send'[w] /\ d = [c EXCEPT !.at = at]
    BY <1>0, <2>1, <2>2, <2>4, <2>6, GoesIs DEF Becomes
  <2>8. /\ d.at = at /\ d.way = c.way /\ d.to = c.to /\ d.pane = c.pane /\ d.pieces = c.pieces
        /\ d.sent = c.sent /\ d.accepted = c.accepted /\ d.told = c.told
    BY <2>7 DEF Records
  <2>9. Ready(p, d)
    BY <1>1, <1>3, <2>5, <2>8 DEF Ready, Awaiting
  <2>10. Undisturbed(p, d)'
    BY <1>3, <1>5, <2>2, <2>5, <2>8 DEF Undisturbed, Awaiting, Steps
  <2>11. Arriving(w, p, d)'
    BY <1>1, <1>3, <1>4, <2>2, <2>5, <2>8 DEF Arriving, PaneTyped
  <2> QED
    BY <1>0, <2>5, <2>7, <2>8, <2>9, <2>10, <2>11 DEF Fine
<1>8. ASSUME NEW name \in Dialogs, NEW shown \in {"trust", "accept"},
             c.at \in {"sees trust", "sees accept"}, screen[p] = shown, name = "trust" <=> shown = "trust",
             send' = [send EXCEPT ![w] = [c EXCEPT !.at = "wait", !.accepted = c.accepted \cup {name}]],
             Entered(p), UNCHANGED <<shownIn, copying, buffer>>
      PROVE  \E d : d = send'[w] /\ d.to = c.to /\ d.at # "done" /\ Fine(w, p, d)'
  <2>1. /\ screen' = [screen EXCEPT ![p] = "loading"]
        /\ answered' = [answered EXCEPT ![p] = answered[p] \cup {screen[p]}]
        /\ inputLine' = inputLine
    BY <1>1, <1>3, <1>8 DEF Entered
  <2>2. screen'[p] = "loading" /\ answered'[p] = answered[p] \cup {shown}
    BY <1>1, <1>8, <2>1 DEF PaneTyped
  <2>3. PICK d : d = send'[w] /\ d = [c EXCEPT !.at = "wait", !.accepted = c.accepted \cup {name}]
    BY <1>8 DEF PaneTyped
  <2>4. /\ d.at = "wait" /\ d.way = c.way /\ d.to = c.to /\ d.pane = c.pane /\ d.pieces = c.pieces
        /\ d.sent = c.sent /\ d.accepted = c.accepted \cup {name} /\ d.told = c.told
    BY <2>3 DEF Records
  <2>5. Ready(p, d)
    BY <1>1, <1>3, <2>4 DEF Ready, Awaiting
  <2>6. name = "trust" \/ name = "perms"
    BY <1>8 DEF Dialogs
  <2>7. Undisturbed(p, d)'
    BY <1>3, <1>5, <1>8, <2>2, <2>4, <2>6 DEF Undisturbed, Awaiting, Steps
  <2>8. Arriving(w, p, d)'
    BY <1>1, <1>3, <1>4, <2>1, <2>4 DEF Arriving, PaneTyped
  <2> QED
    BY <2>3, <2>4, <2>5, <2>7, <2>8 DEF Fine
<1>9. CASE AcceptsTrust(w)
  <2>1. /\ c.at = "sees trust" /\ Entered(p) /\ UNCHANGED <<shownIn, copying, buffer>>
        /\ send' = [send EXCEPT ![w] = [c EXCEPT !.at = "wait", !.accepted = c.accepted \cup {"trust"}]]
    BY <1>0, <1>1, <1>9 DEF AcceptsTrust
  <2>2. screen[p] = "trust" /\ "trust" \in Dialogs
    BY <1>5, <2>1 DEF Dialogs
  <2> QED
    BY <1>0, <1>8, <2>1, <2>2
<1>10. CASE AcceptsPerms(w)
  <2>1. /\ c.at = "sees accept" /\ Entered(p) /\ UNCHANGED <<shownIn, copying, buffer>>
        /\ send' = [send EXCEPT ![w] = [c EXCEPT !.at = "wait", !.accepted = c.accepted \cup {"perms"}]]
    BY <1>0, <1>1, <1>10 DEF AcceptsPerms
  <2>2. screen[p] = "accept" /\ "perms" \in Dialogs
    BY <1>5, <2>1 DEF Dialogs
  <2> QED
    BY <1>0, <1>8, <2>1, <2>2
<1>11. CASE MovesDown(w)
  <2>1. /\ c.at = "sees perms" /\ Goes(w, "sees accept")
        /\ screen' = IF p # 0 /\ p \notin copying /\ screen[p] = "perms"
                     THEN [screen EXCEPT ![p] = "accept"] ELSE screen
        /\ UNCHANGED <<shownIn, answered, copying, inputLine, buffer>>
    BY <1>0, <1>1, <1>11 DEF MovesDown
  <2>2. screen'[p] = "accept"
    BY <1>1, <1>3, <1>5, <2>1 DEF PaneTyped
  <2>3. "sees accept" \in Ats
    BY DEF Ats, Awaiting
  <2>4. PICK d : d = send'[w] /\ d = [c EXCEPT !.at = "sees accept"]
    BY <1>0, <2>1, <2>3, GoesIs DEF Becomes
  <2>5. /\ d.at = "sees accept" /\ d.way = c.way /\ d.to = c.to /\ d.pane = c.pane /\ d.pieces = c.pieces
        /\ d.sent = c.sent /\ d.accepted = c.accepted /\ d.told = c.told
    BY <2>4 DEF Records
  <2>6. Ready(p, d)
    BY <1>1, <1>3, <2>5 DEF Ready, Awaiting
  <2>7. Undisturbed(p, d)'
    BY <1>3, <1>5, <2>1, <2>2, <2>5 DEF Undisturbed, Awaiting, Steps
  <2>8. Arriving(w, p, d)'
    BY <1>1, <1>3, <1>4, <2>1, <2>5 DEF Arriving, PaneTyped
  <2> QED
    BY <1>0, <2>4, <2>5, <2>6, <2>7, <2>8 DEF Fine
<1> QED
  BY <1>7, <1>9, <1>10, <1>11

\* Keys typed into the input line of a pane out of copy mode are in it; a call without
\* an Enter ends there (send_keys_to_pane).
LEMMA KeysKeep ==
  ASSUME PaneTyped, NEW w \in Sends, NEW p, p = shownIn[send[w].to], Fine(w, p, send[w]), Underway(w),
         TypesKeys(w)
  PROVE  \E d : /\ d = send'[w] /\ d.to = send[w].to
                /\ d.at # "done" => Fine(w, p, d)'
                /\ d.at = "done" => ~d.enter
<1>0. PICK c \in Records : c = send[w] /\ c \in Calls
  BY DEF PaneTyped, Calls
<1>1. p \in Panes /\ c.to \in TmuxWindows /\ p = shownIn[c.to] /\ p # 0 /\ Fine(w, p, c)
  BY <1>0 DEF Fine, Ready, Panes
<1>2. c.sent \in Nat /\ c.pieces \in Nat
  BY Fields
<1> DEFINE at == IF c.sent + 1 < c.pieces THEN "type" ELSE IF c.enter THEN "enter" ELSE "done"
           told == ~c.enter /\ c.sent + 1 = c.pieces
<1>3. /\ c.at = "type" /\ Typed(c.pane, Piece(w, c.sent + 1))
      /\ UNCHANGED <<screen, answered, copying, buffer>>
      /\ send' = [send EXCEPT ![w] = [c EXCEPT !.sent = c.sent + 1, !.told = told, !.at = at]]
  BY <1>0, TypesKeys(w) DEF TypesKeys
<1>4. c.way = "keys" /\ c.pane = p /\ c.sent < c.pieces /\ screen[p] = "input" /\ p \notin copying
  BY <1>1, <1>3, Fields DEF Fine, Ready, Undisturbed, Steps
<1>5. \/ at = "type" /\ c.sent + 1 < c.pieces /\ ~told
      \/ at = "enter" /\ c.sent + 1 = c.pieces /\ ~told
      \/ at = "done" /\ ~c.enter
  <2>1. \A a \in Nat : \A b \in Nat : a < b => a + 1 < b \/ a + 1 = b
    OBVIOUS
  <2>2. \A a \in Nat : \A b \in Nat : a + 1 < b => a + 1 # b
    OBVIOUS
  <2> QED
    BY <1>2, <1>4, <2>1, <2>2
<1> HIDE DEF at, told
<1>6. PICK d : d = send'[w] /\ d = [c EXCEPT !.sent = c.sent + 1, !.told = told, !.at = at]
  BY <1>3 DEF PaneTyped
<1>7. /\ d.at = at /\ d.way = c.way /\ d.to = c.to /\ d.pane = c.pane /\ d.pieces = c.pieces
      /\ d.sent = c.sent + 1 /\ d.accepted = c.accepted /\ d.enter = c.enter
  BY <1>6 DEF Records
<1>8. d.told = told
  BY <1>6 DEF Records
<1>9. ASSUME d.at # "done"
      PROVE  Fine(w, p, d)'
  <2>1. Ready(p, d)
    BY <1>1, <1>2, <1>4, <1>5, <1>7, <1>8, <1>9 DEF Ready, Awaiting
  <2>2. Undisturbed(p, d)'
    BY <1>1, <1>3, <1>4, <1>5, <1>7, <1>9 DEF Undisturbed, Awaiting, Steps
  <2>3. Arriving(w, p, d)'
    <3>1. inputLine'[p] = Append(inputLine[p], Piece(w, c.sent + 1)) /\ inputLine[p] \in Seq(Texts)
      BY <1>1, <1>3, <1>4 DEF Typed, PaneTyped
    <3>2. HasTyped(inputLine[p], w, c.sent)
      BY <1>1 DEF Fine, Arriving
    <3>3. HasTyped(inputLine'[p], w, c.sent + 1)
      BY <1>2, <3>1, <3>2, OneMore
    <3> QED
      BY <1>5, <1>7, <1>9, <3>3 DEF Arriving
  <2> QED
    BY <2>1, <2>2, <2>3 DEF Fine
<1>10. d.at = "done" => ~d.enter
  BY <1>5, <1>7
<1> QED
  BY <1>0, <1>6, <1>7, <1>9, <1>10

\* The Enter of such a call submits a line that ends with its text.
LEMMA EnterSubmits ==
  ASSUME PaneTyped, NEW w \in Sends, NEW p, p = shownIn[send[w].to], Fine(w, p, send[w]), Underway(w),
         PressesEnter(w)
  PROVE  \E d : d = send'[w] /\ d.to = send[w].to /\ d.at = "done" /\ Arrived(w)'
<1>0. PICK c \in Records : c = send[w] /\ c \in Calls
  BY DEF PaneTyped, Calls
<1>1. p \in Panes /\ c.to \in TmuxWindows /\ p = shownIn[c.to] /\ p # 0 /\ Fine(w, p, c) /\ FirstPane(c.to) = p
  BY <1>0 DEF Fine, Ready, Panes, FirstPane
<1>2. c.sent \in Nat /\ c.pieces \in Nat
  BY Fields
<1>3. c.at = "enter"
  BY <1>0 DEF PressesEnter
<1>4. c.pane = p /\ c.sent = c.pieces /\ screen[p] = "input" /\ p \notin copying
      /\ HasTyped(inputLine[p], w, c.pieces)
  BY <1>1, <1>3 DEF Fine, Ready, Undisturbed, Arriving, Steps
<1>5. Entered(p) /\ Finishes(w, p # 0)
  BY <1>0, <1>1, <1>4 DEF PressesEnter
<1>6. (p # 0) \in BOOLEAN /\ send[w].at # "unmade"
  BY <1>0, <1>3
<1>7. PICK d : d = send'[w] /\ d = [c EXCEPT !.at = "done", !.told = (p # 0)]
  BY <1>0, <1>5, <1>6, FinishesIs DEF Becomes
<1>8. d.at = "done" /\ d.to = c.to /\ d.pane = c.pane /\ d.pieces = c.pieces /\ d.enter = c.enter
  BY <1>7 DEF Records
<1>9. inputLine[p] \in entered'[p]
  <2>1. entered' = [entered EXCEPT ![p] = entered[p] \cup {inputLine[p]}]
    BY <1>1, <1>4, <1>5 DEF Entered
  <2> QED
    BY <1>1, <2>1 DEF PaneTyped
<1>10. EndsWith(inputLine[p], TextOf(w))
  <2>1. inputLine[p] \in Seq(Texts)
    BY <1>1 DEF PaneTyped
  <2> QED
    BY <1>0, <1>2, <1>4, <2>1, TypedEnds
<1>11. PICK line, text : line = inputLine[p] /\ text = TextOf(w)
  OBVIOUS
<1>12. text = TextOf(w)'
  BY <1>0, <1>7, <1>8, <1>11 DEF TextOf
<1>13. send'[w].pane = p /\ send'[w].enter = c.enter
  BY <1>4, <1>7, <1>8
<1>14. EndsWith(line, text) /\ line \in entered'[p]
  BY <1>9, <1>10, <1>11
<1>15. Arrived(w)'
  BY <1>1, <1>12, <1>13, <1>14 DEF Arrived, EndsWith
<1> QED
  BY <1>0, <1>7, <1>8, <1>15

\* A call that starts is alone only if no other is under way and the pane is ready; the
\* others under way are not alone any more.
LEMMA MetIs ==
  ASSUME PaneTyped, NEW w \in Sends, NEW n, NEW way, alone' = Met(w, n, way)
  PROVE  /\ alone'[w] => /\ \A v \in Sends \ {w} : ~Underway(v)
                         /\ shownIn[n] # 0
                         /\ way # "prompt" => screen[shownIn[n]] = "input"
                         /\ way # "paste" => shownIn[n] \notin copying
         /\ \A v \in Sends \ {w} : alone'[v] => alone[v] /\ ~Underway(v)
<1>1. alone'[w] = (/\ {v \in Sends \ {w} : Underway(v)} = {}
                   /\ shownIn[n] # 0
                   /\ way # "prompt" => screen[shownIn[n]] = "input"
                   /\ way # "paste" => shownIn[n] \notin copying)
  BY DEF Met
<1>2. ASSUME NEW v \in Sends \ {w}
      PROVE  alone'[v] = (alone[v] /\ v \notin {u \in Sends \ {w} : Underway(u)})
  BY DEF Met
<1> QED
  BY <1>1, <1>2

\* A call that starts alone starts on its way.
LEMMA StartsFine ==
  ASSUME PaneTyped, NEW w \in Sends, send[w] = Resting, alone'[w],
         StartsPaste(w) \/ StartsKeys(w) \/ StartsPrompt(w)
  PROVE  \E d : /\ d = send'[w] /\ d.at # "done" /\ \A v \in Sends \ {w} : ~Underway(v)
                /\ Fine(w, shownIn[d.to], d)'
<1>0. PICK c \in Records : c = send[w] /\ c = Resting
  BY DEF PaneTyped, Calls
<1>1. c.sent = 0 /\ ~c.told /\ c.accepted = {}
  <2>1. Resting.told = FALSE
    BY Zenon DEF Resting
  <2>2. ~Resting.told
    BY <2>1, Zenon
  <2>3. Resting.sent = 0 /\ Resting.accepted = {}
    BY DEF Resting
  <2> HIDE DEF Resting
  <2> QED
    BY <1>0, <2>2, <2>3, Zenon
<1>2. \A line : line \in Seq(Texts) => HasTyped(line, w, 0)
  BY DEF HasTyped
<1>3. CASE StartsPaste(w)
  <2>1. PICK n \in TmuxWindows, k \in 1 .. 2 :
          /\ send' = [send EXCEPT ![w] = [c EXCEPT !.at = "check", !.way = "paste", !.to = n, !.pieces = k]]
          /\ alone' = Met(w, n, "paste")
    BY <1>0, <1>3 DEF StartsPaste
  <2>2. PICK d : d = send'[w] /\ d = [c EXCEPT !.at = "check", !.way = "paste", !.to = n, !.pieces = k]
    BY <2>1 DEF PaneTyped
  <2>3. d.at = "check" /\ d.way = "paste" /\ d.to = n /\ d.pieces = k /\ d.sent = 0 /\ ~d.told
    BY <1>1, <2>2 DEF Records
  <2>4. PICK p : p = shownIn[n]
    OBVIOUS
  <2>5. p \in Panes /\ screen[p] = "input" /\ \A v \in Sends \ {w} : ~Underway(v)
    BY <2>1, <2>4, MetIs DEF PaneTyped
  <2>6. Ready(p, d)
    BY <2>1, <2>3, <2>5 DEF Ready, Awaiting
  <2>7. UNCHANGED <<shownIn, screen, copying, answered, inputLine, buffer>>
    BY <1>3 DEF StartsPaste, paneVars
  <2>8. Undisturbed(p, d)' /\ Arriving(w, p, d)'
    BY <1>2, <2>3, <2>5, <2>7 DEF Undisturbed, Arriving, Awaiting, PaneTyped
  <2>9. Fine(w, p, d)' /\ p = shownIn'[d.to]
    BY <2>3, <2>4, <2>6, <2>7, <2>8 DEF Fine
  <2>10. Fine(w, shownIn[d.to], d)'
    BY <2>9
  <2> QED
    BY <2>2, <2>3, <2>5, <2>10
<1>4. CASE StartsKeys(w)
  <2>1. PICK n \in TmuxWindows, text \in KeyTexts :
          /\ send' = [send EXCEPT ![w] =
               [c EXCEPT
                  !.at = IF FirstPane(n) = 0 THEN "done" ELSE IF text[1] = 0 THEN "enter" ELSE "type",
                  !.way = "keys", !.to = n, !.pane = FirstPane(n), !.pieces = text[1],
                  !.enter = text[2]]]
          /\ alone' = Met(w, n, "keys")
    BY <1>0, <1>4 DEF StartsKeys
  <2>2. PICK p : p = shownIn[n] /\ p = FirstPane(n)
    BY DEF FirstPane
  <2>3. p \in Panes /\ p # 0 /\ screen[p] = "input" /\ p \notin copying
        /\ \A v \in Sends \ {w} : ~Underway(v)
    <3>1. shownIn[n] # 0 /\ screen[shownIn[n]] = "input" /\ shownIn[n] \notin copying
          /\ \A v \in Sends \ {w} : ~Underway(v)
      <4>1. "keys" # "prompt" /\ "keys" # "paste"
        OBVIOUS
      <4> QED
        BY <2>1, <4>1, MetIs, Zenon
    <3>2. p \in Panes \cup {0}
      BY <2>2 DEF PaneTyped
    <3> QED
      BY <2>2, <3>1, <3>2
  <2>4. PICK k : k = text[1] /\ k \in Nat
    <3>1. ASSUME NEW i \in Nat, NEW b \in BOOLEAN, text = <<i, b>>
          PROVE  text[1] \in Nat
      BY <3>1
    <3> QED
      BY <2>1, <3>1 DEF KeyTexts
  <2>5. PICK at : at = IF k = 0 THEN "enter" ELSE "type"
    OBVIOUS
  <2>6. PICK d : d = send'[w] /\ d = [c EXCEPT !.at = at, !.way = "keys", !.to = n, !.pane = p, !.pieces = k,
                                               !.enter = text[2]]
    BY <2>1, <2>2, <2>3, <2>4, <2>5 DEF PaneTyped
  <2>7. d.at = at /\ d.way = "keys" /\ d.to = n /\ d.pane = p /\ d.pieces = k /\ d.sent = 0 /\ ~d.told
    BY <1>1, <2>6 DEF Records
  <2>8. Ready(p, d)
    BY <2>1, <2>3, <2>4, <2>5, <2>7 DEF Ready, Awaiting
  <2>9. UNCHANGED <<shownIn, screen, copying, answered, inputLine, buffer>>
    BY <1>4 DEF StartsKeys, paneVars
  <2>10. Undisturbed(p, d)' /\ Arriving(w, p, d)'
    BY <1>2, <2>3, <2>5, <2>7, <2>9 DEF Undisturbed, Arriving, Awaiting, PaneTyped
  <2>11. Fine(w, p, d)' /\ p = shownIn'[d.to]
    BY <2>2, <2>7, <2>8, <2>9, <2>10 DEF Fine
  <2>12. Fine(w, shownIn[d.to], d)'
    BY <2>11
  <2> QED
    BY <2>3, <2>5, <2>6, <2>7, <2>12
<1>5. CASE StartsPrompt(w)
  <2>1. PICK n \in TmuxWindows, k \in 1 .. 2 :
          /\ screen[FirstPane(n)] = "loading" /\ answered[FirstPane(n)] = {}
          /\ send' = [send EXCEPT ![w] = [c EXCEPT !.at = "wait", !.way = "prompt", !.to = n, !.pieces = k]]
          /\ alone' = Met(w, n, "prompt")
    BY <1>0, <1>5 DEF StartsPrompt
  <2>2. PICK d : d = send'[w] /\ d = [c EXCEPT !.at = "wait", !.way = "prompt", !.to = n, !.pieces = k]
    BY <2>1 DEF PaneTyped
  <2>3. d.at = "wait" /\ d.way = "prompt" /\ d.to = n /\ d.pieces = k /\ d.sent = 0 /\ ~d.told
    BY <1>1, <2>2 DEF Records
  <2>4. PICK p : p = shownIn[n] /\ p = FirstPane(n)
    BY DEF FirstPane
  <2>5. p \in Panes /\ p \notin copying /\ \A v \in Sends \ {w} : ~Underway(v)
    <3>1. shownIn[n] # 0 /\ shownIn[n] \notin copying /\ \A v \in Sends \ {w} : ~Underway(v)
      <4>1. "prompt" # "paste"
        OBVIOUS
      <4> QED
        BY <2>1, <4>1, MetIs, Zenon
    <3> QED
      BY <2>4, <3>1 DEF PaneTyped
  <2>6. Ready(p, d)
    BY <2>1, <2>3, <2>5 DEF Ready, Awaiting
  <2>7. UNCHANGED <<shownIn, screen, copying, answered, inputLine, buffer>>
    BY <1>5 DEF StartsPrompt, paneVars
  <2>8. Undisturbed(p, d)' /\ Arriving(w, p, d)'
    BY <1>2, <2>1, <2>3, <2>4, <2>5, <2>7 DEF Undisturbed, Arriving, Awaiting, Steps, PaneTyped
  <2>9. Fine(w, p, d)' /\ p = shownIn'[d.to]
    BY <2>3, <2>4, <2>6, <2>7, <2>8 DEF Fine
  <2>10. Fine(w, shownIn[d.to], d)'
    BY <2>9
  <2> QED
    BY <2>2, <2>3, <2>5, <2>10
<1> QED
  BY <1>3, <1>4, <1>5

\* The actions of a call that has started.
GoesOn(w) ==
  \/ ChecksCopyMode(w) \/ CancelsCopyMode(w) \/ MissesCopyMode(w)
  \/ LoadsBuffer(w) \/ PastesBuffer(w)
  \/ TypesKeys(w) \/ PressesEnter(w)
  \/ PollsPane(w) \/ AcceptsTrust(w) \/ MovesDown(w) \/ AcceptsPerms(w) \/ GivesUpWaiting(w)

Begins(w) == StartsPaste(w) \/ StartsKeys(w) \/ StartsPrompt(w)

\* A call's action leaves the other calls where they are, and only a start makes a call
\* alone.
LEMMA CallFrame ==
  ASSUME PaneTyped, NEW w \in Sends, CallActs(w)
  PROVE  /\ \A v \in Sends \ {w} : send'[v] = send[v]
         /\ send'[w].at # "unmade"
         /\ \/ Begins(w) /\ send[w].at = "unmade"
            \/ GoesOn(w) /\ Underway(w) /\ \A v \in Sends : alone'[v] => alone[v]
<1>0. send[w] \in Records /\ send[w].at \in Ats
  BY Fields DEF PaneTyped, Calls
<1>1. CASE Begins(w)
  <2>1. send[w].at = "unmade"
    BY <1>1 DEF Begins, StartsPaste, StartsKeys, StartsPrompt
  <2>2. PICK c : send' = [send EXCEPT ![w] = c] /\ c.at # "unmade"
    <3>1. ASSUME NEW k, NEW n
          PROVE  /\ [send[w] EXCEPT !.at = "check", !.way = "paste", !.to = n, !.pieces = k].at # "unmade"
                 /\ [send[w] EXCEPT !.at = "wait", !.way = "prompt", !.to = n, !.pieces = k].at # "unmade"
      BY <1>0 DEF Records
    <3>2. CASE StartsPaste(w)
      BY <3>1, <3>2 DEF StartsPaste
    <3>3. CASE StartsPrompt(w)
      <4>1. PICK n, k : send' = [send EXCEPT ![w] =
                          [send[w] EXCEPT !.at = "wait", !.way = "prompt", !.to = n, !.pieces = k]]
        BY <3>3 DEF StartsPrompt
      <4> QED
        BY <3>1, <4>1
    <3>4. CASE StartsKeys(w)
      <4>1. PICK n, text :
              send' = [send EXCEPT ![w] =
               [send[w] EXCEPT
                  !.at = IF FirstPane(n) = 0 THEN "done" ELSE IF text[1] = 0 THEN "enter" ELSE "type",
                  !.way = "keys", !.to = n, !.pane = FirstPane(n), !.pieces = text[1],
                  !.enter = text[2]]]
        BY <3>4 DEF StartsKeys
      <4>2. PICK at : at = (IF FirstPane(n) = 0 THEN "done" ELSE IF text[1] = 0 THEN "enter" ELSE "type")
                      /\ at # "unmade"
        OBVIOUS
      <4>3. [send[w] EXCEPT !.at = at, !.way = "keys", !.to = n, !.pane = FirstPane(n), !.pieces = text[1],
                            !.enter = text[2]].at = at
        BY <1>0 DEF Records
      <4> QED
        <5>1. PICK c : c = [send[w] EXCEPT !.at = at, !.way = "keys", !.to = n, !.pane = FirstPane(n), !.pieces = text[1],
                            !.enter = text[2]]
          OBVIOUS
        <5>2. send' = [send EXCEPT ![w] = c]
          BY <4>1, <4>2, <5>1
        <5> QED
          <6>1. c.at # "unmade"
            BY <4>2, <4>3, <5>1
          <6> QED
            BY <5>2, <6>1, Zenon
    <3> QED
      BY <1>1, <3>2, <3>3, <3>4 DEF Begins
  <2> QED
    BY <1>1, <2>1, <2>2 DEF PaneTyped
<1>2. CASE GoesOn(w)
  <2> DEFINE Frame == (\A v \in Sends \ {w} : send'[v] = send[v]) /\ send'[w].at # "unmade"
  <2>1. Underway(w)
    BY <1>2 DEF GoesOn, Underway, ChecksCopyMode, CancelsCopyMode, MissesCopyMode, LoadsBuffer, PastesBuffer,
       TypesKeys, PressesEnter,
                PollsPane, AcceptsTrust, MovesDown, AcceptsPerms, GivesUpWaiting
  <2>2. \A v \in Sends : alone'[v] => alone[v]
    BY <1>2 DEF GoesOn, ChecksCopyMode, CancelsCopyMode, MissesCopyMode, LoadsBuffer, PastesBuffer, TypesKeys,
       PressesEnter,
                PollsPane, AcceptsTrust, MovesDown, AcceptsPerms, GivesUpWaiting, PaneTyped
  <2>3. ASSUME NEW at, Goes(w, at), at \in Ats, at # "unmade"
        PROVE  Frame
    <3>1. [send[w] EXCEPT !.at = at].at = at
      BY <1>0 DEF Records
    <3> QED
      BY <2>1, <2>3, <3>1, GoesIs DEF Becomes, Underway
  <2>4. ASSUME NEW c, send' = [send EXCEPT ![w] = c], c.at # "unmade"
        PROVE  Frame
    BY <2>4 DEF PaneTyped
  <2> HIDE DEF Frame
  <2>5. ASSUME ChecksCopyMode(w) \/ CancelsCopyMode(w) \/ MissesCopyMode(w) \/ LoadsBuffer(w) \/ GivesUpWaiting(w) \/ MovesDown(w) \/ PollsPane(w)
        PROVE  Frame
    <3>1. PICK at \in {"load", "cancel", "paste", "check", "wait", "sees trust", "sees perms", "sees accept"} : Goes(w, at)
      BY <2>5 DEF ChecksCopyMode, CancelsCopyMode, MissesCopyMode, LoadsBuffer, GivesUpWaiting, MovesDown, PollsPane,
         Answers
    <3>2. at \in Ats /\ at # "unmade"
      BY <3>1 DEF Ats, Awaiting, Steps
    <3> QED
      BY <2>3, <3>1, <3>2
  <2>6. ASSUME AcceptsTrust(w) \/ AcceptsPerms(w)
        PROVE  Frame
    <3>1. PICK more : send' = [send EXCEPT ![w] = [send[w] EXCEPT !.at = "wait", !.accepted = more]]
      BY <2>6 DEF AcceptsTrust, AcceptsPerms
    <3>2. [send[w] EXCEPT !.at = "wait", !.accepted = more].at = "wait"
      BY <1>0 DEF Records
    <3> QED
      BY <2>4, <3>1, <3>2
  <2>7. ASSUME NEW told, Finishes(w, told)
        PROVE  Frame
    <3>1. [send[w] EXCEPT !.at = "done", !.told = told].at = "done"
      BY <1>0 DEF Records
    <3> QED
      BY <2>4, <2>7, <3>1 DEF Finishes
  <2>8. ASSUME PressesEnter(w)
        PROVE  Frame
    BY <2>7, <2>8 DEF PressesEnter
  <2>9. ASSUME PastesBuffer(w)
        PROVE  Frame
    <3>1. CASE FirstPane(send[w].to) = 0
      BY <2>7, <2>9, <3>1 DEF PastesBuffer
    <3>2. CASE FirstPane(send[w].to) # 0
      <4>1. PICK at, k, p : /\ send' = [send EXCEPT ![w] = [send[w] EXCEPT !.sent = k, !.pane = p, !.at = at]]
                            /\ at \in {"load", "enter"}
        BY <2>9, <3>2 DEF PastesBuffer
      <4>2. [send[w] EXCEPT !.sent = k, !.pane = p, !.at = at].at = at
        BY <1>0 DEF Records
      <4> QED
        BY <2>4, <4>1, <4>2
    <3> QED
      BY <3>1, <3>2
  <2>10. ASSUME TypesKeys(w)
        PROVE  Frame
    <3>1. PICK at, k, told : /\ send' = [send EXCEPT ![w] = [send[w] EXCEPT !.sent = k, !.told = told, !.at = at]]
                             /\ at \in {"type", "enter", "done"}
      BY <2>10 DEF TypesKeys
    <3>2. [send[w] EXCEPT !.sent = k, !.told = told, !.at = at].at = at
      BY <1>0 DEF Records
    <3> QED
      BY <2>4, <3>1, <3>2
  <2>11. Frame
    BY <1>2, <2>5, <2>6, <2>8, <2>9, <2>10 DEF GoesOn
  <2> QED
    BY <1>2, <2>1, <2>2, <2>11 DEF Frame
<1> QED
  BY <1>1, <1>2 DEF CallActs, Begins, GoesOn

\* A text that was submitted stays submitted.
LEMMA ArrivedStays ==
  ASSUME NEW w \in Sends, send'[w] = send[w], Arrived(w),
         \A q \in Panes : entered[q] \subseteq entered'[q]
  PROVE  Arrived(w)'
<1>1. PICK c : c = send[w] /\ c = send'[w]
  OBVIOUS
<1>2. CASE c.enter
  <2>1. PICK text, line : text = TextOf(w) /\ c.pane \in Panes /\ line \in entered[c.pane] /\ EndsWith(line, text)
    BY <1>1, <1>2 DEF Arrived
  <2>2. line \in entered'[c.pane]
    BY <2>1
  <2>3. text = TextOf(w)'
    BY <1>1, <2>1 DEF TextOf
  <2> QED
    BY <1>1, <2>1, <2>2, <2>3 DEF Arrived, EndsWith
<1>3. CASE ~c.enter
  BY <1>1, <1>3 DEF Arrived
<1> QED
  BY <1>2, <1>3

\* Every action of a call keeps the invariant.
LEMMA CallStep ==
  ASSUME PaneInv, NEW w \in Sends, CallActs(w)
  PROVE  PaneInv'
<1>1. PaneTyped' /\ shownIn' = shownIn
      /\ \A q \in Panes : /\ screen'[q] = "unborn" <=> screen[q] = "unborn"
                          /\ entered[q] \subseteq entered'[q]
  BY CallTypes DEF PaneInv
<1>2. InOrder'
  <2>1. \E m \in 0 .. MaxPanes : \A p \in Panes : screen'[p] # "unborn" <=> p <= m
    BY <1>1 DEF PaneInv, InOrder
  <2>2. ASSUME NEW n \in TmuxWindows, shownIn[n] # 0
        PROVE  screen'[shownIn[n]] # "unborn"
    <3>1. shownIn[n] \in Panes /\ screen[shownIn[n]] # "unborn"
      BY <2>2 DEF PaneInv, InOrder, PaneTyped
    <3> QED
      BY <1>1, <3>1
  <2> QED
    BY <1>1, <2>1, <2>2 DEF InOrder
<1>3. /\ \A v \in Sends \ {w} : send'[v] = send[v]
      /\ send'[w].at # "unmade"
      /\ \/ Begins(w) /\ send[w].at = "unmade"
         \/ GoesOn(w) /\ Underway(w) /\ \A v \in Sends : alone'[v] => alone[v]
  BY CallFrame DEF PaneInv
<1>4. ASSUME NEW v \in Sends \ {w}
      PROVE  /\ send'[v].at = "unmade" => send'[v] = Resting /\ ~alone'[v]
             /\ alone'[v] => ~Underway(v)'
             /\ alone'[v] /\ send'[v].at = "done" /\ send'[v].told => Arrived(v)'
  <2>1. send'[v] = send[v]
    BY <1>3
  <2>2. Underway(v)' = Underway(v)
    BY <2>1 DEF Underway
  <2>3. (alone'[v] => alone[v]) /\ (alone'[v] => ~Underway(v))
    <3>1. CASE Begins(w)
      <4>1. PICK n, way : alone' = Met(w, n, way)
        BY <3>1 DEF Begins, StartsPaste, StartsKeys, StartsPrompt
      <4> QED
        BY <4>1, MetIs DEF PaneInv
    <3>2. CASE GoesOn(w) /\ Underway(w) /\ (alone'[v] => alone[v])
      <4>1. alone[v] /\ Underway(v) => ~Underway(w)
        BY DEF PaneInv, Steady
      <4> QED
        BY <3>2, <4>1
    <3> QED
      BY <1>3, <3>1, <3>2
  <2>4. send[v].at = "unmade" => send[v] = Resting /\ ~alone[v]
    BY DEF PaneInv
  <2>5. alone[v] /\ send[v].at = "done" /\ send[v].told => Arrived(v)
    BY DEF PaneInv
  <2>6. Arrived(v) => Arrived(v)'
    BY <1>1, <2>1, ArrivedStays
  <2> QED
    BY <2>1, <2>2, <2>3, <2>4, <2>5, <2>6
<1>5. ASSUME alone'[w]
      PROVE  /\ \A v \in Sends \ {w} : ~Underway(v)
             /\ \E d : /\ d = send'[w]
                       /\ d.at # "done" => Fine(w, shownIn[d.to], d)'
                       /\ d.at = "done" => ~d.enter \/ Arrived(w)'
  <2>1. CASE Begins(w) /\ send[w].at = "unmade"
    <3>1. send[w] = Resting
      BY <2>1 DEF PaneInv
    <3>2. PICK d : /\ d = send'[w] /\ d.at # "done" /\ \A v \in Sends \ {w} : ~Underway(v)
                   /\ Fine(w, shownIn[d.to], d)'
      BY <1>5, <2>1, <3>1, StartsFine DEF Begins, PaneInv
    <3> QED
      BY <3>2
  <2>2. CASE GoesOn(w) /\ Underway(w) /\ alone[w]
    <3>1. PICK p : p = shownIn[send[w].to] /\ p = shownIn'[send[w].to] /\ Fine(w, p, send[w])
                   /\ \A v \in Sends \ {w} : ~Underway(v)
      BY <1>1, <2>2 DEF PaneInv, Steady
    <3>2. PaneTyped
      BY DEF PaneInv
    <3>3. CASE ChecksCopyMode(w) \/ CancelsCopyMode(w) \/ LoadsBuffer(w) \/ PastesBuffer(w)
               \/ PollsPane(w) \/ AcceptsTrust(w) \/ MovesDown(w) \/ AcceptsPerms(w)
      <4>1. PICK d : d = send'[w] /\ d.to = send[w].to /\ d.at # "done" /\ Fine(w, p, d)'
        BY <2>2, <3>1, <3>2, <3>3, PastesKeep, LaunchKeeps
      <4>2. p = shownIn'[d.to]
        BY <3>1, <4>1
      <4>3. Fine(w, shownIn[d.to], d)'
        BY <4>1, <4>2
      <4> QED
        BY <3>1, <4>1, <4>3
    <3>4. CASE TypesKeys(w)
      <4>1. PICK d : /\ d = send'[w] /\ d.to = send[w].to
                     /\ d.at # "done" => Fine(w, p, d)'
                     /\ d.at = "done" => ~d.enter
        BY <2>2, <3>1, <3>2, <3>4, KeysKeep
      <4>2. p = shownIn'[d.to]
        BY <3>1, <4>1
      <4>3. d.at # "done" => Fine(w, shownIn[d.to], d)'
        BY <4>1, <4>2
      <4> QED
        BY <3>1, <4>1, <4>3
    <3>5. CASE PressesEnter(w)
      <4>1. PICK d : d = send'[w] /\ d.to = send[w].to /\ d.at = "done" /\ Arrived(w)'
        BY <2>2, <3>1, <3>2, <3>5, EnterSubmits
      <4> QED
        BY <3>1, <4>1
    <3>6. CASE GivesUpWaiting(w) \/ MissesCopyMode(w)
      BY <1>5, <3>2, <3>6 DEF GivesUpWaiting, MissesCopyMode, PaneTyped
    <3> QED
      BY <2>2, <3>3, <3>4, <3>5, <3>6 DEF GoesOn
  <2> QED
    BY <1>3, <1>5, <2>1, <2>2
<1>6. /\ send'[w].at = "unmade" => send'[w] = Resting /\ ~alone'[w]
      /\ alone'[w] /\ Underway(w)' => Steady(w)'
      /\ alone'[w] /\ send'[w].at = "done" /\ send'[w].told => Arrived(w)'
  <2>1. ASSUME alone'[w], Underway(w)'
        PROVE  Steady(w)'
    <3>1. PICK d : d = send'[w] /\ (d.at # "done" => Fine(w, shownIn[d.to], d)')
      BY <1>5, <2>1
    <3>2. d.at # "done"
      BY <2>1, <3>1 DEF Underway
    <3>3. Fine(w, shownIn[send[w].to], send[w])'
      BY <3>1, <3>2
    <3>4. \A v \in Sends \ {w} : ~Underway(v)'
      BY <1>3, <1>5, <2>1 DEF Underway
    <3> QED
      BY <3>3, <3>4 DEF Steady
  <2>2. ASSUME alone'[w], send'[w].at = "done"
        PROVE  Arrived(w)'
    <3>1. PICK d : d = send'[w] /\ (d.at = "done" => ~d.enter \/ Arrived(w)')
      BY <1>5, <2>2
    <3>2. CASE ~d.enter
      BY <3>1, <3>2 DEF Arrived
    <3> QED
      BY <2>2, <3>1, <3>2
  <2> QED
    BY <1>3, <2>1, <2>2
<1> QED
  BY <1>1, <1>2, <1>4, <1>6 DEF PaneInv

\* What happens in the panes on its own.
PaneActs ==
  \/ \E p \in Panes : ClaudeShows(p) \/ UserScrolls(p) \/ UserLeavesCopyMode(p)
  \/ \E n \in TmuxWindows : OpensWindow(n) \/ WindowCloses(n)

\* What happens in the panes on its own keeps the types and the calls.
LEMMA PaneTypes ==
  ASSUME PaneTyped, InOrder, PaneActs
  PROVE  PaneTyped' /\ InOrder' /\ send' = send /\ entered' = entered
         /\ \A v \in Sends : alone'[v] => alone[v]
<1> USE DEF PaneTyped
<1>1. ASSUME NEW p \in Panes, ClaudeShows(p)
      PROVE  PaneTyped' /\ InOrder' /\ send' = send /\ entered' = entered
             /\ \A v \in Sends : alone'[v] => alone[v]
  <2>1. PICK next \in {"trust", "perms", "input"} : screen' = [screen EXCEPT ![p] = next]
    BY <1>1 DEF ClaudeShows
  <2>2. screen' \in [Panes -> ScreensShown] /\ \A q \in Panes : screen'[q] = "unborn" <=> screen[q] = "unborn"
    BY <1>1, <2>1 DEF ScreensShown, ClaudeShows
  <2>3. InOrder'
    BY <1>1, <2>2 DEF InOrder, ClaudeShows
  <2> QED
    BY <1>1, <2>2, <2>3 DEF ClaudeShows
<1>2. ASSUME NEW p \in Panes, UserScrolls(p) \/ UserLeavesCopyMode(p)
      PROVE  PaneTyped' /\ InOrder' /\ send' = send /\ entered' = entered
             /\ \A v \in Sends : alone'[v] => alone[v]
  <2>1. alone' \in [Sends -> BOOLEAN] /\ \A v \in Sends : alone'[v] => alone[v]
    BY <1>2 DEF UserScrolls, UserLeavesCopyMode
  <2> QED
    BY <1>2, <2>1 DEF UserScrolls, UserLeavesCopyMode, InOrder
<1>3. ASSUME NEW n \in TmuxWindows, OpensWindow(n)
      PROVE  PaneTyped' /\ InOrder' /\ send' = send /\ entered' = entered
             /\ \A v \in Sends : alone'[v] => alone[v]
  <2>1. PICK m : /\ m = Cardinality(Opened) /\ m \in Nat /\ m + 1 \in Panes /\ screen[m + 1] = "unborn"
                 /\ \A p \in Panes : screen[p] # "unborn" <=> p <= m
    BY <1>3, NextPane, OpenedIsInt DEF OpensWindow
  <2>2. screen' = [screen EXCEPT ![m + 1] = "loading"] /\ shownIn' = [shownIn EXCEPT ![n] = m + 1]
    BY <1>3, <2>1 DEF OpensWindow
  <2>3. screen' \in [Panes -> ScreensShown] /\ shownIn' \in [TmuxWindows -> Panes \cup {0}]
    BY <2>1, <2>2 DEF ScreensShown
  <2>4. InOrder'
    <3>1. m + 1 \in 0 .. MaxPanes /\ m \in Int
      BY <2>1, PaneInputAssumption DEF Panes
    <3>2. \A p \in Panes : screen'[p] # "unborn" <=> p <= m + 1
      <4>1. ASSUME NEW p \in Panes
            PROVE  screen'[p] # "unborn" <=> p <= m + 1
        <5>1. CASE p = m + 1
          BY <2>1, <2>2, <3>1, <5>1
        <5>2. CASE p # m + 1
          <6>1. screen'[p] = screen[p] /\ (p <= m + 1 <=> p <= m)
            BY <2>2, <3>1, <5>2 DEF Panes
          <6> QED
            BY <2>1, <6>1
        <5> QED
          BY <5>1, <5>2
      <4> QED
        BY <4>1
    <3>3. \A k \in TmuxWindows : shownIn'[k] # 0 => screen'[shownIn'[k]] # "unborn"
      BY <2>1, <2>2 DEF InOrder
    <3> QED
      BY <3>1, <3>2, <3>3 DEF InOrder
  <2> QED
    BY <1>3, <2>3, <2>4 DEF OpensWindow
<1>4. ASSUME NEW n \in TmuxWindows, WindowCloses(n)
      PROVE  PaneTyped' /\ InOrder' /\ send' = send /\ entered' = entered
             /\ \A v \in Sends : alone'[v] => alone[v]
  <2>1. shownIn[n] \in Panes /\ screen' = [screen EXCEPT ![shownIn[n]] = "gone"]
        /\ shownIn' = [shownIn EXCEPT ![n] = 0]
    BY <1>4 DEF WindowCloses
  <2>2. screen' \in [Panes -> ScreensShown] /\ shownIn' \in [TmuxWindows -> Panes \cup {0}]
    BY <2>1 DEF ScreensShown
  <2>3. alone' \in [Sends -> BOOLEAN] /\ \A v \in Sends : alone'[v] => alone[v]
    BY <1>4 DEF WindowCloses
  <2>4. \A p \in Panes : screen'[p] = "unborn" <=> screen[p] = "unborn"
    BY <1>4, <2>1 DEF WindowCloses, InOrder
  <2>5. InOrder'
    BY <2>1, <2>4 DEF InOrder
  <2> QED
    BY <1>4, <2>2, <2>3, <2>5 DEF WindowCloses
<1> QED
  BY <1>1, <1>2, <1>3, <1>4 DEF PaneActs

\* What happens in the panes on its own, Claude's dialogs, scrolling and windows, keeps
\* a call that stays alone on its way.
LEMMA PanesKeep ==
  ASSUME PaneTyped, InOrder, PaneActs, NEW w \in Sends, NEW c, c = send[w], NEW p, p = shownIn[c.to],
         Underway(w), alone'[w], Fine(w, p, c)
  PROVE  p = shownIn'[c.to] /\ Fine(w, p, c)'
<1>1. /\ p \in Panes /\ p # 0 /\ c.to \in TmuxWindows /\ Ready(p, c)
      /\ c.at \in Steps => screen[p] = "input"
      /\ c.at \notin {"check", "cancel"} => p \notin copying
      /\ c.at \in Awaiting \cup Steps
  <2>1. c.at \in Ats
    BY Fields DEF PaneTyped, Calls
  <2>2. c.at \in Awaiting \cup Steps
    BY <2>1 DEF Underway, Ats
  <2>3. p \in Panes /\ p # 0 /\ c.to \in TmuxWindows /\ Ready(p, c)
    BY DEF Fine, Ready, Panes
  <2> QED
    BY <2>2, <2>3 DEF Fine, Undisturbed
<1>2. ASSUME NEW q \in Panes, ClaudeShows(q)
      PROVE  p = shownIn'[c.to] /\ Fine(w, p, c)'
  <2>1. PICK next \in {"trust", "perms", "input"} : screen' = [screen EXCEPT ![q] = next]
    BY <1>2 DEF ClaudeShows
  <2>2. screen[q] = "loading" /\ UNCHANGED <<shownIn, answered, copying, inputLine, buffer>>
    BY <1>2 DEF ClaudeShows
  <2>3. Undisturbed(p, c)'
    <3>1. CASE p = q
      <4>1. screen'[p] = next /\ c.at \notin Steps
        BY <1>1, <2>1, <2>2, <3>1 DEF PaneTyped
      <4> QED
        BY <1>1, <2>1, <2>2, <3>1, <4>1 DEF Fine, Undisturbed
    <3>2. CASE p # q
      <4>1. screen'[p] = screen[p]
        BY <1>1, <2>1, <3>2 DEF PaneTyped
      <4> QED
        BY <1>1, <2>2, <4>1 DEF Fine, Undisturbed
    <3> QED
      BY <3>1, <3>2
  <2>4. Arriving(w, p, c)'
    BY <2>2 DEF Fine, Arriving
  <2> QED
    BY <1>1, <2>2, <2>3, <2>4 DEF Fine
<1>3. ASSUME NEW q \in Panes, UserScrolls(q)
      PROVE  p = shownIn'[c.to] /\ Fine(w, p, c)'
  <2>1. UNCHANGED <<shownIn, screen, answered, inputLine, buffer>>
    BY <1>3 DEF UserScrolls
  <2>2. c.at = "check"
    BY <1>3, alone'[w] DEF UserScrolls, PaneTyped
  <2>3. Undisturbed(p, c)'
    BY <1>1, <2>1, <2>2 DEF Fine, Undisturbed, Awaiting
  <2>4. Arriving(w, p, c)'
    BY <2>1 DEF Fine, Arriving
  <2> QED
    BY <1>1, <2>1, <2>3, <2>4 DEF Fine
<1>4. ASSUME NEW q \in Panes, UserLeavesCopyMode(q)
      PROVE  p = shownIn'[c.to] /\ Fine(w, p, c)'
  <2>1. UNCHANGED <<shownIn, screen, answered, inputLine, buffer>> /\ copying' = copying \ {q}
    BY <1>4 DEF UserLeavesCopyMode
  <2>3. Undisturbed(p, c)'
    BY <1>1, <2>1 DEF Fine, Undisturbed
  <2>4. Arriving(w, p, c)'
    BY <2>1 DEF Fine, Arriving
  <2> QED
    BY <1>1, <2>1, <2>3, <2>4 DEF Fine
<1>5. ASSUME NEW n \in TmuxWindows, OpensWindow(n)
      PROVE  p = shownIn'[c.to] /\ Fine(w, p, c)'
  <2>1. PICK new \in Panes : /\ screen[new] = "unborn" /\ screen' = [screen EXCEPT ![new] = "loading"]
                             /\ shownIn' = [shownIn EXCEPT ![n] = new]
    BY <1>5, NextPane DEF OpensWindow
  <2>2. new # p
    BY <1>1, <2>1 DEF InOrder
  <2>3. shownIn[n] = 0 /\ UNCHANGED <<answered, copying, inputLine, buffer>>
    BY <1>5 DEF OpensWindow
  <2>4. p = shownIn'[c.to] /\ screen'[p] = screen[p]
    BY <1>1, <2>1, <2>2, <2>3 DEF PaneTyped
  <2>5. Undisturbed(p, c)'
    BY <1>1, <2>3, <2>4 DEF Fine, Undisturbed
  <2>6. Arriving(w, p, c)'
    BY <2>3 DEF Fine, Arriving
  <2> QED
    BY <1>1, <2>4, <2>5, <2>6 DEF Fine
<1>6. ASSUME NEW n \in TmuxWindows, WindowCloses(n)
      PROVE  FALSE
  BY <1>6, Underway(w), alone'[w] DEF WindowCloses, PaneTyped
<1> QED
  BY <1>2, <1>3, <1>4, <1>5, <1>6 DEF PaneActs

\* Every step keeps the invariant.
LEMMA PaneStep ==
  ASSUME PaneInv, [PaneInputNext]_inputVars
  PROVE  PaneInv'
<1>1. CASE \E w \in Sends : CallActs(w)
  BY <1>1, CallStep
<1>2. CASE PaneActs
  <2>1. PaneTyped' /\ InOrder' /\ send' = send /\ entered' = entered
        /\ \A v \in Sends : alone'[v] => alone[v]
    BY <1>2, PaneTypes DEF PaneInv
  <2>2. ASSUME NEW w \in Sends
        PROVE  /\ send'[w].at = "unmade" => send'[w] = Resting /\ ~alone'[w]
               /\ alone'[w] /\ Underway(w)' => Steady(w)'
               /\ alone'[w] /\ send'[w].at = "done" /\ send'[w].told => Arrived(w)'
    <3>1. Underway(w)' = Underway(w) /\ send'[w] = send[w] /\ (alone'[w] => alone[w])
          /\ \A v \in Sends : Underway(v)' = Underway(v)
      BY <2>1 DEF Underway
    <3>2. send[w].at = "unmade" => send[w] = Resting /\ ~alone[w]
      BY DEF PaneInv
    <3>3. alone[w] /\ send[w].at = "done" /\ send[w].told => Arrived(w)
      BY DEF PaneInv
    <3>4. Arrived(w) => Arrived(w)'
      BY <2>1, <3>1, ArrivedStays
    <3>5. ASSUME alone'[w], Underway(w)
          PROVE  Steady(w)'
      <4>1. PICK c, p : c = send[w] /\ p = shownIn[c.to]
        OBVIOUS
      <4>2. Fine(w, p, c) /\ \A v \in Sends \ {w} : ~Underway(v)
        BY <3>1, <3>5, <4>1 DEF PaneInv, Steady
      <4>3. p = shownIn'[c.to] /\ Fine(w, p, c)'
        BY <1>2, <3>5, <4>1, <4>2, PanesKeep DEF PaneInv
      <4>4. c = send'[w]
        BY <3>1, <4>1
      <4>5. Fine(w, shownIn[send[w].to], send[w])'
        BY <4>3, <4>4
      <4>6. \A v \in Sends \ {w} : ~Underway(v)'
        BY <3>1, <4>2
      <4> QED
        BY <4>5, <4>6 DEF Steady
    <3> QED
      BY <3>1, <3>2, <3>3, <3>4, <3>5
  <2> QED
    BY <2>1, <2>2 DEF PaneInv
<1>3. CASE UNCHANGED inputVars
  BY <1>3 DEF inputVars, paneVars, PaneInv, PaneTyped, InOrder, Steady, Fine, Undisturbed, Arriving,
     Underway,
              Arrived, EndsWith, TextOf
<1> QED
  BY <1>1, <1>2, <1>3 DEF PaneInputNext, PaneActs

\* For any number of calls, windows and panes: a call that reports success and was
\* neither met by another call, nor scrolled over after its look at copy mode, nor
\* deprived of its window, has submitted its text, whole, to its agent; and a launcher
\* that nobody disturbs never makes Claude refuse its warning.
THEOREM TextArrives == PaneInputSpec => []UndisturbedTextArrives
<1>1. PaneInputInit => PaneInv
  <2> SUFFICES ASSUME PaneInputInit
               PROVE  PaneInv
    OBVIOUS
  <2>1. Resting \in Calls
    <3>1. Resting \in Records
      BY DEF Resting, Records, Ats
    <3> QED
      BY <3>1 DEF Calls, Resting
  <2>2. PaneTyped
    <3>1. <<>> \in Seq(Texts) /\ EmptyBuffer \in Texts
      BY DEF Texts
    <3>2. send \in [Sends -> Calls] /\ alone \in [Sends -> BOOLEAN]
      BY <2>1 DEF PaneInputInit
    <3> QED
      BY <3>1, <3>2 DEF PaneInputInit, PaneTyped, ScreensShown
  <2>3. InOrder
    <3>1. 0 \in 0 .. MaxPanes /\ \A p \in Panes : ~(p <= 0)
      BY PaneInputAssumption DEF Panes
    <3> QED
      BY <3>1 DEF InOrder, PaneInputInit
  <2>4. \A w \in Sends : send[w] = Resting /\ ~alone[w] /\ send[w].at = "unmade"
    BY DEF PaneInputInit, Resting
  <2> QED
    BY <2>2, <2>3, <2>4 DEF PaneInv
<1>2. PaneInv => UndisturbedTextArrives
  <2> SUFFICES ASSUME PaneInv, NEW w \in Sends
               PROVE  /\ alone[w] /\ send[w].told /\ send[w].enter =>
                           \E line \in entered[send[w].pane] : EndsWith(line, TextOf(w))
                      /\ alone[w] /\ send[w].way = "prompt" /\ Underway(w) =>
                           screen[FirstPane(send[w].to)] # "refused"
    BY DEF UndisturbedTextArrives
  <2>1. /\ send[w].at = "unmade" => ~alone[w]
        /\ alone[w] /\ Underway(w) => Steady(w)
        /\ alone[w] /\ send[w].at = "done" /\ send[w].told => Arrived(w)
    BY DEF PaneInv
  <2>2. ASSUME alone[w], Underway(w)
        PROVE  ~send[w].told /\ screen[FirstPane(send[w].to)] # "refused"
    <3>1. PICK c, p : c = send[w] /\ p = shownIn[c.to] /\ Fine(w, p, c) /\ FirstPane(c.to) = p
      BY <2>1, <2>2 DEF Steady, FirstPane
    <3>2. c.at \in Awaiting \cup Steps
      BY <2>2, <3>1, Fields DEF PaneInv, PaneTyped, Calls, Ats, Underway
    <3> QED
      BY <3>1, <3>2 DEF Fine, Ready, Undisturbed
  <2> QED
    BY <2>1, <2>2 DEF Underway, Arrived
<1>3. PaneInv /\ [PaneInputNext]_inputVars => PaneInv'
  BY PaneStep
<1> QED
  BY <1>1, <1>2, <1>3, PTL DEF PaneInputSpec

-----------------------------------------------------------------------------
(* Timelines *)

\* g filters the first m of the entries, and all before.
Filters(g, m, e, c) ==
  g = [i \in 0 .. m |-> IF i = 0 THEN <<>>
                        ELSE IF e[i].at >= c THEN Append(g[i - 1], e[i]) ELSE g[i - 1]]

\* There is a filter of any number of entries.
LEMMA FilterExists ==
  ASSUME NEW e, NEW c, NEW n \in Nat
  PROVE  \E g : Filters(g, n, e, c)
<1> DEFINE Bad == {m \in 0 .. n : ~ \E g : Filters(g, m, e, c)}
<1>1. SUFFICES ASSUME Bad # {} PROVE FALSE
  OBVIOUS
<1>2. PICK m \in Bad : \A k \in Bad : m <= k
  <2>1. IsFiniteSet(0 .. n) /\ Bad \subseteq 0 .. n
    BY FS_Interval
  <2>2. IsFiniteSet(Bad) /\ Bad \subseteq Int
    BY <2>1, FS_Subset
  <2> HIDE DEF Bad
  <2> QED
    BY <1>1, <2>2, MinIsIn
<1>3. m \in 0 .. n /\ ~ \E g : Filters(g, m, e, c)
  OBVIOUS
<1>4. CASE m = 0
  <2>1. Filters([i \in 0 .. 0 |-> <<>>], 0, e, c)
    BY DEF Filters
  <2> QED
    BY <1>3, <1>4, <2>1
<1>5. CASE m # 0
  <2>1. m - 1 \in 0 .. n /\ m - 1 \notin Bad
    BY <1>2, <1>3, <1>5
  <2>2. PICK h : Filters(h, m - 1, e, c)
    BY <2>1
  <2> DEFINE g == [i \in 0 .. m |-> IF i < m THEN h[i]
                                    ELSE IF e[m].at >= c THEN Append(h[m - 1], e[m]) ELSE h[m - 1]]
  <2>3. \A i \in 0 .. m : g[i] = IF i = 0 THEN <<>>
                                 ELSE IF e[i].at >= c THEN Append(g[i - 1], e[i]) ELSE g[i - 1]
    <3> TAKE i \in 0 .. m
    <3>1. CASE i = 0
      BY <1>3, <1>5, <2>2, <3>1 DEF Filters
    <3>2. CASE i \in 1 .. m - 1
      <4>1. g[i] = h[i] /\ g[i - 1] = h[i - 1] /\ i \in 0 .. m - 1 /\ i # 0
        BY <1>3, <3>2
      <4>2. h[i] = IF e[i].at >= c THEN Append(h[i - 1], e[i]) ELSE h[i - 1]
        BY <2>2, <4>1 DEF Filters
      <4> QED
        BY <4>1, <4>2
    <3>3. CASE i = m
      BY <1>3, <1>5, <3>3
    <3> QED
      BY <1>3, <3>1, <3>2, <3>3
  <2>4. Filters(g, m, e, c)
    <3>1. g = [i \in 0 .. m |-> g[i]]
      OBVIOUS
    <3> HIDE DEF g
    <3> QED
      BY <2>3, <3>1 DEF Filters
  <2> QED
    BY <1>3, <2>4
<1> QED
  BY <1>4, <1>5

\* F are the entries of e up to m that are not before c, in their order: pos says where each stands in e.
Selects(pos, F, e, m, c) ==
  /\ pos \in [1 .. Len(F) -> 1 .. m]
  /\ \A p \in 1 .. Len(F) : F[p] = e[pos[p]] /\ e[pos[p]].at >= c
  /\ \A p, q \in 1 .. Len(F) : p < q => pos[p] < pos[q]
  /\ \A i \in 1 .. m : e[i].at >= c => \E p \in 1 .. Len(F) : pos[p] = i

\* An entry that is not before the cutoff is selected after the others.
LEMMA SelectsMore ==
  ASSUME NEW X, NEW F \in Seq(X), NEW e, NEW m \in Nat \ {0}, e[m] \in X, NEW c, e[m].at >= c,
         NEW pos, Selects(pos, F, e, m - 1, c)
  PROVE  \E p : Selects(p, Append(F, e[m]), e, m, c)
<1> DEFINE G == Append(F, e[m])
           new == [p \in 1 .. Len(G) |-> IF p <= Len(F) THEN pos[p] ELSE m]
<1>1. Len(F) \in Nat /\ Len(G) = Len(F) + 1 /\ G[Len(F) + 1] = e[m] /\ \A p \in 1 .. Len(F) : G[p] = F[p]
  BY LenProperties, AppendProperties
<1> HIDE DEF G
<1>2. new \in [1 .. Len(G) -> 1 .. m]
  BY <1>1 DEF Selects
<1>3. \A p \in 1 .. Len(G) : G[p] = e[new[p]] /\ e[new[p]].at >= c
  BY <1>1 DEF Selects
<1>4. \A p, q \in 1 .. Len(G) : p < q => new[p] < new[q]
  BY <1>1 DEF Selects
<1>5. \A i \in 1 .. m : e[i].at >= c => \E p \in 1 .. Len(G) : new[p] = i
  <2> SUFFICES ASSUME NEW i \in 1 .. m, e[i].at >= c PROVE \E p \in 1 .. Len(G) : new[p] = i
    OBVIOUS
  <2>1. CASE i = m
    BY <1>1, <2>1
  <2>2. CASE i # m
    <3>1. PICK p \in 1 .. Len(F) : pos[p] = i
      BY <2>2 DEF Selects
    <3>2. p \in 1 .. Len(G) /\ new[p] = i
      BY <1>1, <3>1
    <3> QED
      BY <3>2
  <2> QED
    BY <2>1, <2>2
<1> HIDE DEF new
<1>6. Selects(new, G, e, m, c)
  BY <1>2, <1>3, <1>4, <1>5 DEF Selects
<1> QED
  BY <1>6 DEF G

\* A filter selects the entries that are not before the cutoff, in their order.
LEMMA FilterSelects ==
  ASSUME NEW X, NEW e \in Seq(X), NEW c, NEW g, Filters(g, Len(e), e, c), NEW n \in 0 .. Len(e)
  PROVE  g[n] \in Seq(X) /\ \E pos : Selects(pos, g[n], e, n, c)
<1> DEFINE Bad == {m \in 0 .. Len(e) : ~ (g[m] \in Seq(X) /\ \E pos : Selects(pos, g[m], e, m, c))}
<1>1. SUFFICES ASSUME Bad # {} PROVE FALSE
  OBVIOUS
<1>0. Len(e) \in Nat /\ \A i \in 1 .. Len(e) : e[i] \in X
  BY LenProperties, ElementOfSeq
<1>2. PICK m \in Bad : \A k \in Bad : m <= k
  <2>1. IsFiniteSet(0 .. Len(e)) /\ Bad \subseteq 0 .. Len(e)
    BY <1>0, FS_Interval
  <2>2. IsFiniteSet(Bad) /\ Bad \subseteq Int
    BY <1>0, <2>1, FS_Subset
  <2> HIDE DEF Bad
  <2> QED
    BY <1>1, <2>2, MinIsIn
<1>3. m \in 0 .. Len(e) /\ ~ (g[m] \in Seq(X) /\ \E pos : Selects(pos, g[m], e, m, c))
  OBVIOUS
<1>4. g[m] = IF m = 0 THEN <<>> ELSE IF e[m].at >= c THEN Append(g[m - 1], e[m]) ELSE g[m - 1]
  BY <1>3 DEF Filters
<1>5. CASE m = 0
  <2>1. g[m] = <<>> /\ <<>> \in Seq(X) /\ Len(<<>>) = 0
    BY <1>4, <1>5, EmptySeq
  <2>2. Selects([p \in 1 .. 0 |-> 1], <<>>, e, 0, c)
    BY <2>1 DEF Selects
  <2> QED
    BY <1>3, <1>5, <2>1, <2>2
<1>6. CASE m # 0
  <2>1. m - 1 \in 0 .. Len(e) /\ m - 1 \notin Bad /\ m \in Nat \ {0} /\ e[m] \in X
    BY <1>0, <1>2, <1>3, <1>6
  <2>2. g[m - 1] \in Seq(X)
    BY <2>1
  <2>3. PICK pos : Selects(pos, g[m - 1], e, m - 1, c)
    BY <2>1
  <2>4. CASE e[m].at >= c
    <3>1. g[m] = Append(g[m - 1], e[m]) /\ g[m] \in Seq(X)
      BY <1>4, <1>6, <2>1, <2>2, <2>4, AppendProperties
    <3>2. \E p : Selects(p, g[m], e, m, c)
      BY <2>1, <2>2, <2>3, <2>4, <3>1, SelectsMore
    <3> QED
      BY <1>3, <3>1, <3>2
  <2>5. CASE ~ e[m].at >= c
    <3>1. g[m] = g[m - 1]
      BY <1>4, <1>6, <2>5
    <3>2. Len(g[m - 1]) \in Nat
      BY <2>2, LenProperties
    <3>3. \A i \in 1 .. m : e[i].at >= c => i \in 1 .. m - 1
      BY <2>1, <2>5
    <3>4. pos \in [1 .. Len(g[m - 1]) -> 1 .. m]
      BY <2>1, <2>3 DEF Selects
    <3>5. Selects(pos, g[m], e, m, c)
      BY <2>3, <3>1, <3>3, <3>4 DEF Selects
    <3> QED
      BY <1>3, <2>2, <3>1, <3>5
  <2> QED
    BY <2>4, <2>5
<1> QED
  BY <1>5, <1>6

\* Since (_filter, _seek_to_cutoff) does.
LEMMA SinceSelects ==
  ASSUME NEW X, NEW e \in Seq(X), NEW c
  PROVE  Since(e, c) \in Seq(X) /\ \E pos : Selects(pos, Since(e, c), e, Len(e), c)
<1>1. Len(e) \in Nat
  BY LenProperties
<1>2. PICK h : Filters(h, Len(e), e, c)
  BY <1>1, FilterExists
<1>3. \E g : Filters(g, Len(e), e, c) /\ Since(e, c) = g[Len(e)]
  BY <1>2 DEF Since, Filters
<1> QED
  BY <1>1, <1>3, FilterSelects

Row == [at : Nat, status : Nat]

\* The log: rows in the order of time, none later than now.
LogTyped ==
  /\ time \in Nat /\ log \in Seq(Row)
  /\ \A j \in 1 .. Len(log) : log[j].status = j /\ log[j].at <= time
  /\ \A j, k \in 1 .. Len(log) : j <= k => log[j].at <= log[k].at

\* Some entries are of the first n rows, all those from c on, each row followed by every later one.
Covers(entries, n, c) ==
  /\ n \in 0 .. Len(log) /\ entries \in Seq(Row)
  /\ \A p \in 1 .. Len(entries) : entries[p].status \in 1 .. n /\ entries[p] = log[entries[p].status]
  /\ \A j \in 1 .. n : log[j].at >= c => \E p \in 1 .. Len(entries) : entries[p] = log[j]
  /\ \A p \in 1 .. Len(entries), k \in 1 .. n :
       entries[p].status < k => \E q \in 1 .. Len(entries) : p < q /\ entries[q] = log[k]

\* The rows of the log.
LEMMA LogRows ==
  ASSUME LogTyped
  PROVE  Len(log) \in Nat /\ \A j \in 1 .. Len(log) : log[j] \in Row /\ log[j].at \in Nat
<1>1. log \in Seq(Row)
  BY DEF LogTyped
<1>2. Len(log) \in Nat /\ \A j \in 1 .. Len(log) : log[j] \in Row
  BY <1>1, LenProperties, ElementOfSeq
<1> QED
  BY <1>2 DEF Row

\* What covers rows from a time on covers them from any later time.
LEMMA CoversLater ==
  ASSUME LogTyped, NEW e, NEW n, NEW c \in Int, Covers(e, n, c), NEW d \in Int, c <= d
  PROVE  Covers(e, n, d)
<1>1. \A j \in 1 .. n : j \in 1 .. Len(log) /\ log[j].at \in Nat
  BY LogRows DEF Covers
<1>2. \A j \in 1 .. n : log[j].at >= d => log[j].at >= c
  BY <1>1
<1> QED
  BY <1>2 DEF Covers

\* The whole file covers itself.
LEMMA CoversAll ==
  ASSUME LogTyped, NEW c \in Int
  PROVE  Covers(log, Len(log), c)
<1>1. Len(log) \in Nat /\ log \in Seq(Row)
  BY LenProperties DEF LogTyped
<1>2. \A j \in 1 .. Len(log) : log[j].status = j
  BY DEF LogTyped
<1> QED
  BY <1>1, <1>2 DEF Covers

\* Filtering what covers rows from c on, by a later cutoff, covers them from there, and
\* leaves nothing before it.
LEMMA SinceCovers ==
  ASSUME LogTyped, NEW e, NEW n, NEW c \in Int, Covers(e, n, c), NEW d \in Int, c <= d
  PROVE  Covers(Since(e, d), n, d) /\ \A p \in 1 .. Len(Since(e, d)) : Since(e, d)[p].at >= d
<1> DEFINE F == Since(e, d)
<1>1. F \in Seq(Row) /\ \E pos : Selects(pos, F, e, Len(e), d)
  BY SinceSelects DEF Covers
<1> HIDE DEF F
<1>2. PICK pos : Selects(pos, F, e, Len(e), d)
  BY <1>1
<1>3. \A p \in 1 .. Len(F) : pos[p] \in 1 .. Len(e) /\ F[p] = e[pos[p]] /\ F[p].at >= d
  BY <1>2 DEF Selects
<1>4. \A j \in 1 .. n : j \in 1 .. Len(log) /\ log[j].at \in Nat
  BY LogRows DEF Covers
<1>5. Len(F) \in Nat /\ Len(e) \in Nat
  BY <1>1, LenProperties DEF Covers
<1>6. \A i \in 1 .. Len(e) : e[i].at >= d => \E p \in 1 .. Len(F) : pos[p] = i /\ F[p] = e[i]
  BY <1>2 DEF Selects
<1>7. \A p \in 1 .. Len(F) : F[p].status \in 1 .. n /\ F[p] = log[F[p].status]
  BY <1>3 DEF Covers
<1>8. ASSUME NEW j \in 1 .. n, log[j].at >= d PROVE \E p \in 1 .. Len(F) : F[p] = log[j]
  <2>1. log[j].at >= c
    BY <1>4, <1>8
  <2>2. PICK i \in 1 .. Len(e) : e[i] = log[j]
    BY <2>1 DEF Covers
  <2> QED
    BY <1>6, <1>8, <2>2
<1>9. ASSUME NEW p \in 1 .. Len(F), NEW k \in 1 .. n, F[p].status < k
      PROVE  \E q \in 1 .. Len(F) : p < q /\ F[q] = log[k]
  <2>1. PICK i \in 1 .. Len(e) : pos[p] < i /\ e[i] = log[k]
    BY <1>3, <1>9 DEF Covers
  <2>2. log[k].at >= d
    <3>1. F[p].status \in 1 .. n /\ F[p] = log[F[p].status] /\ F[p].at >= d
      BY <1>3, <1>7
    <3>2. log[F[p].status].at <= log[k].at
      BY <1>4, <1>9, <3>1 DEF LogTyped
    <3> QED
      BY <1>4, <3>1, <3>2
  <2>3. PICK q \in 1 .. Len(F) : pos[q] = i /\ F[q] = e[i]
    BY <1>6, <2>1, <2>2
  <2>4. p < q
    <3>1. q < p => pos[q] < pos[p]
      BY <1>2 DEF Selects
    <3>2. pos[p] \in Nat /\ pos[q] \in Nat /\ pos[p] < pos[q]
      BY <1>3, <1>5, <2>1, <2>3
    <3> QED
      BY <1>5, <3>1, <3>2
  <2> QED
    BY <2>1, <2>3, <2>4
<1>10. Covers(F, n, d)
  BY <1>1, <1>7, <1>8, <1>9 DEF Covers
<1> QED
  BY <1>3, <1>10 DEF F

\* What was kept covers the first n rows; with the file read again from o, which is not
\* beyond them, it covers all, though rows may be there twice (_incremental_read).
LEMMA TailCovers ==
  ASSUME LogTyped, NEW e, NEW n, NEW c \in Int, Covers(e, n, c), NEW o \in 0 .. n
  PROVE  Covers(e \o SubSeq(log, o + 1, Len(log)), Len(log), c)
<1> DEFINE t == SubSeq(log, o + 1, Len(log))
           F == e \o t
           E == Len(e)
<1>1. Len(log) \in Nat /\ n \in 0 .. Len(log) /\ o \in Nat /\ E \in Nat /\ e \in Seq(Row) /\ \A j \in 1 .. Len(log) : log[j] \in Row
  BY LenProperties, ElementOfSeq DEF LogTyped, Covers
<1>2. t \in Seq(Row) /\ Len(t) = Len(log) - o /\ \A i \in 1 .. Len(log) - o : t[i] = log[o + i]
  <2>1. \A i \in o + 1 .. Len(log) : log[i] \in Row
    BY <1>1
  <2> QED
    BY <1>1, <2>1, SubSeqProperties
<1> HIDE DEF t
<1>3. /\ F \in Seq(Row) /\ Len(F) = E + Len(log) - o
      /\ \A i \in 1 .. E : F[i] = e[i]
      /\ \A i \in 1 .. Len(log) - o : F[E + i] = log[o + i]
  <2>1. /\ F \in Seq(Row) /\ Len(F) = E + Len(t)
        /\ \A i \in 1 .. E + Len(t) : F[i] = IF i <= E THEN e[i] ELSE t[i - E]
    BY <1>1, <1>2, ConcatProperties
  <2> HIDE DEF F, E
  <2>2. \A i \in 1 .. E : F[i] = e[i]
    <3>1. \A i \in 1 .. E : i \in 1 .. E + Len(t) /\ i <= E
      BY <1>1, <1>2
    <3> QED
      BY <2>1, <3>1
  <2>3. \A i \in 1 .. Len(log) - o : F[E + i] = log[o + i]
    <3> TAKE i \in 1 .. Len(log) - o
    <3>1. E + i \in 1 .. E + Len(t) /\ ~ E + i <= E /\ (E + i) - E = i
      BY <1>1, <1>2
    <3> QED
      BY <1>2, <2>1, <3>1
  <2> QED
    BY <1>1, <1>2, <2>1, <2>2, <2>3
<1> HIDE DEF F
<1>4. \A k \in 1 .. Len(log) : k > o => E + (k - o) \in E + 1 .. Len(F) /\ F[E + (k - o)] = log[k]
  <2> SUFFICES ASSUME NEW k \in 1 .. Len(log), k > o
               PROVE  E + (k - o) \in E + 1 .. Len(F) /\ F[E + (k - o)] = log[k]
    OBVIOUS
  <2>1. k - o \in 1 .. Len(log) - o /\ o + (k - o) = k
    BY <1>1
  <2> HIDE DEF E
  <2>2. F[E + (k - o)] = log[o + (k - o)]
    BY <1>3, <2>1
  <2>3. E + (k - o) \in E + 1 .. Len(F)
    BY <1>1, <1>3, <2>1
  <2> QED
    BY <2>1, <2>2, <2>3
<1> HIDE DEF E
<1>5. \A p \in 1 .. Len(F) : \/ p \in 1 .. E /\ F[p] = e[p]
                             \/ \E j \in 1 .. Len(log) : p = E + (j - o) /\ j > o /\ F[p] = log[j]
  <2> TAKE p \in 1 .. Len(F)
  <2>0. p \in Int
    BY <1>1, <1>3
  <2>1. CASE p <= E
    <3>1. p \in 1 .. E
      BY <1>1, <2>0, <2>1
    <3> QED
      BY <1>3, <3>1
  <2>2. CASE ~ p <= E
    <3>1. p - E \in 1 .. Len(log) - o /\ o + (p - E) \in 1 .. Len(log) /\ p = E + (o + (p - E) - o) /\ o + (p - E) > o
      BY <1>1, <1>3, <2>2
    <3> QED
      BY <1>4, <3>1
  <2> QED
    BY <2>1, <2>2
<1>6. \A p \in 1 .. Len(F) : F[p].status \in 1 .. Len(log) /\ F[p] = log[F[p].status]
  <2>1. \A p \in 1 .. E : e[p].status \in 1 .. Len(log) /\ e[p] = log[e[p].status]
    BY <1>1 DEF Covers, E
  <2>2. \A j \in 1 .. Len(log) : log[j].status = j
    BY DEF LogTyped
  <2> QED
    BY <1>5, <2>1, <2>2
<1>7. ASSUME NEW j \in 1 .. Len(log), log[j].at >= c PROVE \E p \in 1 .. Len(F) : F[p] = log[j]
  <2>1. CASE j > o
    BY <1>1, <1>3, <1>4, <2>1
  <2>2. CASE ~ j > o
    <3>1. j \in 1 .. n
      BY <1>1, <2>2
    <3>2. PICK p \in 1 .. E : e[p] = log[j]
      BY <1>7, <3>1 DEF Covers, E
    <3>3. p \in 1 .. Len(F) /\ F[p] = e[p]
      BY <1>1, <1>3
    <3> QED
      BY <3>2, <3>3
  <2> QED
    BY <2>1, <2>2
<1>8. ASSUME NEW p \in 1 .. Len(F), NEW k \in 1 .. Len(log), F[p].status < k
      PROVE  \E q \in 1 .. Len(F) : p < q /\ F[q] = log[k]
  <2>1. CASE p \in 1 .. E /\ F[p] = e[p]
    <3>1. CASE k > o
      <4>2. E + (k - o) \in E + 1 .. Len(F)
        BY <1>4, <3>1
      <4>3. o \in Int /\ E \in Nat /\ k \in Int /\ Len(F) \in Int
        BY <1>1, <1>3
      <4>1. E + (k - o) \in 1 .. Len(F) /\ p < E + (k - o)
        BY <2>1, <4>2, <4>3
      <4> QED
        BY <1>4, <3>1, <4>1
    <3>2. CASE ~ k > o
      <4>1. k \in 1 .. n
        BY <1>1, <3>2
      <4>2. PICK q \in 1 .. E : p < q /\ e[q] = log[k]
        BY <1>8, <2>1, <4>1 DEF Covers, E
      <4>3. q \in 1 .. Len(F) /\ F[q] = e[q]
        BY <1>1, <1>3
      <4> QED
        BY <4>2, <4>3
    <3> QED
      BY <3>1, <3>2
  <2>2. ASSUME NEW j \in 1 .. Len(log), p = E + (j - o), j > o, F[p] = log[j]
        PROVE  \E q \in 1 .. Len(F) : p < q /\ F[q] = log[k]
    <3>1. j < k
      BY <1>8, <2>2 DEF LogTyped
    <3>3. o \in Int /\ E \in Nat /\ j \in Int /\ k \in Int
      BY <1>1, <2>2
    <3>4. k > o /\ p < E + (k - o)
      BY <2>2, <3>1, <3>3
    <3>5. E + (k - o) \in E + 1 .. Len(F)
      BY <1>4, <3>4
    <3>2. k > o /\ E + (k - o) \in 1 .. Len(F) /\ p < E + (k - o)
      BY <1>1, <1>3, <3>3, <3>4, <3>5
    <3> QED
      BY <1>4, <3>2
  <2> QED
    BY <1>5, <2>1, <2>2
<1>9. Covers(F, Len(log), c)
  BY <1>1, <1>3, <1>6, <1>7, <1>8 DEF Covers
<1> QED
  BY <1>9 DEF F, t

\* The status of the last of some rows is its place in the log.
LEMMA LatestRow ==
  ASSUME LogTyped, NEW Q, Q \subseteq 1 .. Len(log)
  PROVE  /\ Latest(log, Q) = IF Q = {} THEN 0 ELSE Max(Q)
         /\ Q # {} => Max(Q) \in Q /\ \A j \in Q : j <= Max(Q)
<1>1. IsFiniteSet(Q) /\ Q \subseteq Int
  <2>1. Len(log) \in Nat /\ IsFiniteSet(1 .. Len(log))
    BY LogRows, FS_Interval
  <2>2. IsFiniteSet(Q)
    BY <2>1, FS_Subset
  <2>3. Q \subseteq Int
    BY <2>1
  <2> QED
    BY <2>2, <2>3
<1>2. Q # {} => Max(Q) \in Q /\ \A j \in Q : j <= Max(Q)
  BY <1>1, MaxIsIn
<1>3. Q # {} => log[Max(Q)].status = Max(Q)
  BY <1>2 DEF LogTyped
<1> QED
  BY <1>2, <1>3 DEF Latest, NoRow

\* The last entry that is of some rows is that of the last of these rows.
LEMMA LatestSame ==
  ASSUME LogTyped, NEW D, NEW n, NEW c \in Int, Covers(D, n, c)
  PROVE  \A Q \in SUBSET (1 .. n) : (\A j \in Q : log[j].at >= c)
           => Latest(D, {p \in 1 .. Len(D) : D[p].status \in Q}) = Latest(log, Q)
<1> SUFFICES ASSUME NEW Q \in SUBSET (1 .. n), \A j \in Q : log[j].at >= c
             PROVE  Latest(D, {p \in 1 .. Len(D) : D[p].status \in Q}) = Latest(log, Q)
  OBVIOUS
<1> DEFINE P == {p \in 1 .. Len(D) : D[p].status \in Q}
<1>1. Len(log) \in Nat /\ n \in 0 .. Len(log) /\ D \in Seq(Row) /\ Q \subseteq 1 .. Len(log)
  BY LogRows DEF Covers
<1>2. Latest(log, Q) = (IF Q = {} THEN 0 ELSE Max(Q)) /\ (Q # {} => Max(Q) \in Q /\ \A j \in Q : j <= Max(Q))
  BY <1>1, LatestRow
<1>3. CASE Q = {}
  BY <1>2, <1>3 DEF Latest, NoRow
<1>4. CASE Q # {}
  <2> DEFINE m == Max(Q)
  <2>1. m \in Q /\ \A j \in Q : j <= m
    BY <1>2, <1>4
  <2> HIDE DEF m
  <2>2. log[m].status = m /\ m \in 1 .. n
    BY <1>1, <2>1 DEF LogTyped
  <2>3. PICK p \in 1 .. Len(D) : D[p] = log[m]
    BY <2>1, <2>2 DEF Covers
  <2>4. p \in P
    BY <2>1, <2>2, <2>3
  <2>5. IsFiniteSet(P) /\ P \subseteq Int
    <3>1. Len(D) \in Nat /\ IsFiniteSet(1 .. Len(D)) /\ P \subseteq 1 .. Len(D)
      BY <1>1, LenProperties, FS_Interval
    <3> QED
      BY <3>1, FS_Subset
  <2> DEFINE z == Max(P)
  <2>6. z \in P /\ \A x \in P : x <= z
    BY <2>4, <2>5, MaxIsIn
  <2>7. Latest(D, P) = D[z].status
    BY <2>4 DEF Latest
  <2> HIDE DEF z
  <2>8. z \in 1 .. Len(D) /\ D[z].status \in Q
    BY <2>6
  <2>9. D[z].status = m
    <3> SUFFICES ASSUME D[z].status # m PROVE FALSE
      OBVIOUS
    <3> DEFINE r == D[z].status
    <3>0. r \in Q /\ r \in Int /\ m \in Int /\ r <= m /\ r # m
      <4>1. \A j \in Q : j \in Int
        BY <1>1
      <4> QED
        BY <2>1, <2>8, <4>1
    <3> HIDE DEF r
    <3>4. r < m
      BY <3>0
    <3>1. D[z].status < m
      BY <3>4 DEF r
    <3>2. PICK q \in 1 .. Len(D) : z < q /\ D[q] = log[m]
      BY <2>2, <2>8, <3>1 DEF Covers
    <3>3. q \in P
      BY <2>1, <2>2, <3>2
    <3> QED
      BY <2>5, <2>6, <3>2, <3>3
  <2> QED
    BY <1>2, <1>4, <2>7, <2>9 DEF m
<1> QED
  BY <1>3, <1>4

\* Of two sets of rows the later one is taken first.
LEMMA LatestOf ==
  ASSUME LogTyped, NEW P, P \subseteq 1 .. Len(log), NEW Q, Q \subseteq 1 .. Len(log),
         \A j \in P, k \in Q : log[j].at < log[k].at
  PROVE  Latest(log, P \cup Q) = IF Latest(log, Q) # NoRow THEN Latest(log, Q) ELSE Latest(log, P)
<1>0. Len(log) \in Nat /\ \A j \in 1 .. Len(log) : log[j].at \in Nat
  BY LogRows
<1>1. Latest(log, Q) = (IF Q = {} THEN 0 ELSE Max(Q)) /\ (Q # {} => Max(Q) \in Q /\ \A j \in Q : j <= Max(Q))
  BY LatestRow
<1>2. CASE Q = {}
  <2>1. P \cup Q = P
    BY <1>2
  <2> QED
    BY <1>1, <1>2, <2>1 DEF NoRow
<1>3. CASE Q # {}
  <2> DEFINE U == P \cup Q
  <2>1. U \subseteq 1 .. Len(log) /\ U # {}
    BY <1>3
  <2> HIDE DEF U
  <2>2. Latest(log, U) = Max(U) /\ Max(U) \in U /\ \A j \in U : j <= Max(U)
    BY <2>1, LatestRow
  <2>3. \A j \in P : j < Max(Q)
    <3> TAKE j \in P
    <3>1. log[j].at < log[Max(Q)].at /\ j \in 1 .. Len(log) /\ Max(Q) \in 1 .. Len(log)
      BY <1>1, <1>3
    <3>2. Max(Q) <= j => log[Max(Q)].at <= log[j].at
      BY <3>1 DEF LogTyped
    <3> QED
      BY <1>0, <3>1, <3>2
  <2> DEFINE q == Max(Q)
             u == Max(U)
  <2>4. q \in U /\ q \in Nat /\ q # 0 /\ u \in Nat
    <3>1. \A j \in 1 .. Len(log) : j \in Nat /\ j # 0
      BY <1>0
    <3>2. q \in Q /\ u \in U
      BY <1>1, <1>3, <2>2
    <3>3. q \in U /\ q \in 1 .. Len(log) /\ u \in 1 .. Len(log)
      BY <2>1, <3>2 DEF U
    <3> QED
      BY <3>1, <3>3
  <2>5. \A j \in U : j <= q
    <3>1. \A j \in P : j \in Int /\ j < q
      BY <1>0, <2>3
    <3>2. \A j \in Q : j <= q
      BY <1>1, <1>3
    <3> HIDE DEF q
    <3>3. \A j \in P : j <= q
      BY <2>4, <3>1
    <3> QED
      BY <3>2, <3>3 DEF U
  <2>6. q <= u /\ u <= q
    BY <2>2, <2>4, <2>5
  <2>7. Max(U) = Max(Q) /\ Max(Q) # 0
    <3> HIDE DEF q, u
    <3>1. q = u
      BY <2>4, <2>6
    <3> QED
      BY <2>4, <3>1 DEF q, u
  <2> QED
    BY <1>1, <1>3, <2>2, <2>7 DEF NoRow, U
<1> QED
  BY <1>2, <1>3

\* The slot of a row is i when it is in the i-th part of the scope.
LEMMA DivIs ==
  ASSUME NEW y \in Nat, NEW s \in Nat \ {0}, NEW i \in Nat
  PROVE  y \div s = i <=> i * s <= y /\ y < (i + 1) * s
  OBVIOUS

\* Multiplying by a natural number keeps the order, ...
LEMMA TimesMonotone ==
  ASSUME NEW x \in Int, NEW y \in Int, x <= y, NEW w \in Nat
  PROVE  x * w \in Int /\ y * w \in Int /\ x * w <= y * w
  OBVIOUS

\* ... and by a positive one the sign.
LEMMA TimesNegative ==
  ASSUME NEW x \in Int, NEW w \in Nat \ {0}
  PROVE  (x < 0 => x * w < 0) /\ (x >= 0 => x * w >= 0) /\ x * w \in Int
  OBVIOUS

\* A slot begins where the one before it ends.
LEMMA NextSlot ==
  ASSUME NEW i \in Nat, NEW s \in Nat \ {0}
  PROVE  (i + 1) * s = i * s + s /\ i * s \in Nat /\ (i + 1) * s \in Nat
  OBVIOUS

\* What is carried forward, from own[i] and at the start from first, is determined.
Carries(f, own, earliest) ==
  f = [i \in Slots |-> IF own[i] # NoRow THEN own[i] ELSE IF i = 0 THEN earliest ELSE f[i - 1]]

\* What is carried forward is determined by what it is carried from.
LEMMA CarriedOnce ==
  ASSUME NEW f, NEW g, NEW own, NEW earliest, Carries(f, own, earliest), Carries(g, own, earliest)
  PROVE  f = g
<1> DEFINE Bad == {i \in Slots : f[i] # g[i]}
<1>0. Slots = 0 .. Width - 1 /\ Width - 1 \in Nat
  BY TimelineAssumption DEF Slots
<1>1. SUFFICES ASSUME Bad # {} PROVE FALSE
  <2>1. f = [i \in Slots |-> f[i]] /\ g = [i \in Slots |-> g[i]]
    BY DEF Carries
  <2> QED
    BY <1>1, <2>1
<1>2. PICK m \in Bad : \A k \in Bad : m <= k
  <2>1. IsFiniteSet(0 .. Width - 1) /\ Bad \subseteq 0 .. Width - 1
    BY <1>0, FS_Interval
  <2>2. IsFiniteSet(Bad)
    BY <2>1, FS_Subset
  <2>3. Bad \subseteq Int
    BY <1>0, <2>1
  <2> HIDE DEF Bad
  <2> QED
    BY <1>1, <2>2, <2>3, MinIsIn
<1>3. m \in Slots /\ f[m] # g[m]
  OBVIOUS
<1>4. f[m] = (IF own[m] # NoRow THEN own[m] ELSE IF m = 0 THEN earliest ELSE f[m - 1])
  BY <1>3 DEF Carries
<1>5. g[m] = (IF own[m] # NoRow THEN own[m] ELSE IF m = 0 THEN earliest ELSE g[m - 1])
  BY <1>3 DEF Carries
<1>6. m # 0 => m - 1 \in Slots /\ m - 1 \notin Bad
  BY <1>0, <1>2, <1>3
<1> QED
  BY <1>3, <1>4, <1>5, <1>6

\* Slots filled from entries that cover the first n rows, each from its own rows or the
\* slot before it, show in each the last of the first n rows up to its end.
LEMMA SlotsTrue ==
  ASSUME LogTyped, NEW D, NEW n, Covers(D, n, drawn.at - drawn.scope),
         drawn.scope \in Nat \ {0}, drawn.at \in Nat, drawn.at <= time,
         \A p \in 1 .. Len(D) : D[p].at >= drawn.at - drawn.scope
  PROVE  BuildTimelineSlots(D, drawn.scope) = TrueSlots(n)
<1> DEFINE s == drawn.scope
           c == drawn.at - drawn.scope
           start == time - drawn.scope
           x(j) == log[j].at - start
           Q(i) == {j \in 1 .. n : log[j].at >= c /\ log[j].at >= start /\ (x(j) * Width) \div s = i}
           Early == {j \in 1 .. n : log[j].at >= c /\ log[j].at < start}
           S(i) == {j \in 1 .. n : log[j].at >= c /\ x(j) * Width < (i + 1) * s}
           own == [i \in Slots |-> Latest(log, Q(i))]
           earliest == Latest(log, Early)
<1>0. Slots = 0 .. Width - 1 /\ Width \in Nat \ {0}
  BY TimelineAssumption DEF Slots
<1>1. /\ Len(log) \in Nat /\ n \in 0 .. Len(log) /\ D \in Seq(Row) /\ DOMAIN D = 1 .. Len(D)
      /\ \A j \in 1 .. n : j \in 1 .. Len(log) /\ log[j].at \in Nat
  BY LogRows, LenProperties DEF Covers
<1>2. c \in Int /\ start \in Int /\ c <= start /\ s \in Nat \ {0} /\ time \in Nat
  BY DEF LogTyped
<1>3. \A p \in 1 .. Len(D) : D[p].status \in 1 .. n /\ D[p] = log[D[p].status] /\ D[p].at >= c
  BY DEF Covers
<1>25. \A U \in SUBSET (1 .. n) : (\A j \in U : log[j].at >= c)
           => Latest(D, {p \in 1 .. Len(D) : D[p].status \in U}) = Latest(log, U)
  <2>1. LogTyped /\ c \in Int /\ Covers(D, n, c)
    BY <1>2
  <2> HIDE DEF c
  <2> QED
    BY <2>1, LatestSame
<1>4. \A i \in Slots : Latest(D, {j \in DOMAIN D : D[j].at >= start /\ ((D[j].at - start) * Width) \div s = i}) = own[i]
  <2> TAKE i \in Slots
  <2> DEFINE P == {j \in DOMAIN D : D[j].at >= start /\ ((D[j].at - start) * Width) \div s = i}
  <2>1. P = {p \in 1 .. Len(D) : D[p].status \in Q(i)}
    BY <1>1, <1>3
  <2>2. Q(i) \subseteq 1 .. n /\ \A j \in Q(i) : log[j].at >= c
    OBVIOUS
  <2> HIDE DEF P, Q, c
  <2>3. Latest(D, P) = Latest(log, Q(i))
    BY <1>25, <2>1, <2>2
  <2> QED
    BY <2>3 DEF P
<1>5. Latest(D, {j \in DOMAIN D : D[j].at < start}) = earliest
  <2> DEFINE P == {j \in DOMAIN D : D[j].at < start}
  <2>1. P = {p \in 1 .. Len(D) : D[p].status \in Early}
    BY <1>1, <1>3
  <2>2. Early \subseteq 1 .. n /\ \A j \in Early : log[j].at >= c
    OBVIOUS
  <2> HIDE DEF P, Early, c
  <2>3. Latest(D, P) = Latest(log, Early)
    BY <1>25, <2>1, <2>2
  <2> QED
    BY <2>3 DEF P
<1>6. \A j \in 1 .. n : /\ x(j) \in Int /\ x(j) * Width \in Int
                        /\ log[j].at >= start <=> x(j) >= 0
                        /\ x(j) < 0 => x(j) * Width < 0
                        /\ x(j) >= 0 => x(j) * Width \in Nat
  <2> TAKE j \in 1 .. n
  <2>1. x(j) \in Int /\ (log[j].at >= start <=> x(j) >= 0)
    <3>1. PICK a : a = log[j].at /\ a \in Nat
      BY <1>1
    <3>2. PICK b : b = start /\ b \in Int
      BY <1>2
    <3>3. x(j) = a - b
      BY <3>1, <3>2
    <3> HIDE DEF start, x
    <3> QED
      BY <3>1, <3>2, <3>3
  <2> HIDE DEF x
  <2> QED
    BY <1>0, <2>1, TimesNegative
<1>7. \A i \in Slots : i \in Nat /\ (i + 1) * s = i * s + s /\ i * s \in Nat
  BY <1>0, <1>2, NextSlot
<1>8. \A i \in Slots : \A j \in 1 .. n :
        j \in Q(i) <=> log[j].at >= c /\ x(j) >= 0 /\ i * s <= x(j) * Width /\ x(j) * Width < (i + 1) * s
  <2> TAKE i \in Slots
  <2> TAKE j \in 1 .. n
  <2>1. x(j) >= 0 => ((x(j) * Width) \div s = i <=> i * s <= x(j) * Width /\ x(j) * Width < (i + 1) * s)
    BY <1>2, <1>6, <1>7, DivIs
  <2>2. j \in Q(i) <=> log[j].at >= c /\ log[j].at >= start /\ (x(j) * Width) \div s = i
    OBVIOUS
  <2> HIDE DEF x, Q
  <2> QED
    BY <1>6, <2>1, <2>2
<1>15. \A i \in Slots : \A j \in 1 .. n : j \in S(i) <=> log[j].at >= c /\ x(j) * Width < (i + 1) * s
  OBVIOUS
<1>16. \A j \in 1 .. n : j \in Early <=> log[j].at >= c /\ x(j) < 0
  <2> TAKE j \in 1 .. n
  <2>1. log[j].at < start <=> ~ log[j].at >= start
    BY <1>1, <1>2
  <2>2. j \in Early <=> log[j].at >= c /\ log[j].at < start
    OBVIOUS
  <2> HIDE DEF x, Early
  <2>3. log[j].at >= start <=> x(j) >= 0
    BY <1>6
  <2> QED
    BY <1>6, <2>1, <2>2, <2>3
<1>17. Early \subseteq 1 .. n /\ \A i \in Slots : S(i) \subseteq 1 .. n /\ Q(i) \subseteq 1 .. n
  OBVIOUS
<1> HIDE DEF x, Q, Early, S
<1>18. 0 \in Slots
  BY <1>0
<1>9. S(0) = Early \cup Q(0)
  <2>1. \A j \in 1 .. n : j \in S(0) <=> j \in Early \/ j \in Q(0)
    <3> TAKE j \in 1 .. n
    <3>1. 0 * s = 0 /\ (0 + 1) * s = s
      BY <1>2
    <3>2. j \in S(0) <=> log[j].at >= c /\ x(j) * Width < s
      BY <1>15, <1>18, <3>1
    <3>3. j \in Q(0) <=> log[j].at >= c /\ x(j) >= 0 /\ 0 <= x(j) * Width /\ x(j) * Width < s
      BY <1>8, <1>18, <3>1
    <3> QED
      BY <1>2, <1>6, <1>16, <3>2, <3>3
  <2> QED
    BY <1>17, <1>18, <2>1
<1>10. \A i \in Slots : i # 0 => i - 1 \in Slots /\ S(i) = S(i - 1) \cup Q(i)
  <2> SUFFICES ASSUME NEW i \in Slots, i # 0 PROVE i - 1 \in Slots /\ S(i) = S(i - 1) \cup Q(i)
    OBVIOUS
  <2>1. i - 1 \in Slots /\ (i - 1) + 1 = i
    BY <1>0
  <2>2. \A j \in 1 .. n : j \in S(i) <=> j \in S(i - 1) \/ j \in Q(i)
    <3> TAKE j \in 1 .. n
    <3>1. j \in S(i) <=> log[j].at >= c /\ x(j) * Width < (i + 1) * s
      BY <1>15
    <3>2. j \in S(i - 1) <=> log[j].at >= c /\ x(j) * Width < i * s
      BY <1>15, <2>1
    <3>3. j \in Q(i) <=> log[j].at >= c /\ x(j) >= 0 /\ i * s <= x(j) * Width /\ x(j) * Width < (i + 1) * s
      BY <1>8
    <3>4. \A X, u, v \in Int : u \in Nat /\ v = u + s => (X < v <=> X < u \/ (u <= X /\ X < v))
      BY <1>2
    <3>5. x(j) * Width \in Int /\ i * s \in Nat /\ (i + 1) * s \in Int /\ (i + 1) * s = i * s + s
      BY <1>2, <1>6, <1>7
    <3>6. x(j) * Width < (i + 1) * s <=> x(j) * Width < i * s \/ (i * s <= x(j) * Width /\ x(j) * Width < (i + 1) * s)
      BY <3>4, <3>5
    <3>7. i * s <= x(j) * Width => x(j) >= 0
      BY <1>6, <3>5
    <3> HIDE DEF c, s, start, own, earliest
    <3>8. ASSUME j \in S(i) PROVE j \in S(i - 1) \/ j \in Q(i)
      BY <3>8, <3>1, <3>2, <3>3, <3>6, <3>7
    <3>9. ASSUME j \in S(i - 1) PROVE j \in S(i)
      BY <3>9, <3>1, <3>2, <3>3, <3>6, <3>7
    <3>10. ASSUME j \in Q(i) PROVE j \in S(i)
      BY <3>10, <3>1, <3>2, <3>3, <3>6, <3>7
    <3> QED
      BY <3>8, <3>9, <3>10
  <2>3. S(i) \subseteq 1 .. n /\ S(i - 1) \subseteq 1 .. n /\ Q(i) \subseteq 1 .. n
    BY <1>17, <2>1
  <2>4. \A j : j \in S(i) <=> j \in S(i - 1) \/ j \in Q(i)
    BY ONLY <2>2, <2>3
  <2>5. S(i) = S(i - 1) \cup Q(i)
    BY ONLY <2>4
  <2> QED
    BY <2>1, <2>5
<1>19. \A j, k \in 1 .. n : x(j) < x(k) => log[j].at < log[k].at
  <2> TAKE j, k \in 1 .. n
  <2>1. PICK a : a = log[j].at /\ a \in Nat
    BY <1>1
  <2>2. PICK b : b = log[k].at /\ b \in Nat
    BY <1>1
  <2>3. PICK d : d = start /\ d \in Int
    BY <1>2
  <2>4. x(j) = a - d /\ x(k) = b - d
    BY <2>1, <2>2, <2>3 DEF x
  <2>5. a - d < b - d => a < b
    BY <2>1, <2>2, <2>3
  <2> QED
    BY <2>1, <2>2, <2>4, <2>5
<1>20. \A j, k \in 1 .. n : x(j) * Width < x(k) * Width => x(j) < x(k)
  <2> TAKE j, k \in 1 .. n
  <2>1. x(j) \in Int /\ x(k) \in Int /\ x(j) * Width \in Int /\ x(k) * Width \in Int
    BY <1>6
  <2>2. x(k) <= x(j) => x(k) * Width <= x(j) * Width
    BY <1>0, <2>1, TimesMonotone
  <2> QED
    BY <2>1, <2>2
<1>11. \A j \in Early, k \in Q(0) : log[j].at < log[k].at
  <2> TAKE j \in Early, k \in Q(0)
  <2>1. j \in 1 .. n /\ k \in 1 .. n
    BY <1>17, <1>18
  <2>2. x(j) < 0 /\ x(k) >= 0
    BY <1>8, <1>16, <1>18, <2>1
  <2>3. x(j) < x(k)
    BY <1>6, <2>1, <2>2
  <2> QED
    BY <1>19, <2>1, <2>3
<1>12. \A i \in Slots : i # 0 => \A j \in S(i - 1), k \in Q(i) : log[j].at < log[k].at
  <2> SUFFICES ASSUME NEW i \in Slots, i # 0, NEW j \in S(i - 1), NEW k \in Q(i) PROVE log[j].at < log[k].at
    OBVIOUS
  <2>1. i - 1 \in Slots /\ (i - 1) + 1 = i
    BY <1>0
  <2>2. j \in 1 .. n /\ k \in 1 .. n
    BY <1>17, <2>1
  <2>3. x(j) * Width < i * s
    BY <1>15, <2>1, <2>2
  <2>4. i * s <= x(k) * Width
    BY <1>8, <2>2
  <2>5. x(j) * Width < x(k) * Width
    BY <1>6, <1>7, <2>2, <2>3, <2>4
  <2> QED
    BY <1>19, <1>20, <2>2, <2>5
<1>21. TrueSlots(n) = [i \in Slots |-> Latest(log, S(i))]
  BY DEF TrueSlots, S, x
<1>22. 1 .. n \subseteq 1 .. Len(log)
  BY <1>1
<1>13. Carries(TrueSlots(n), own, earliest)
  <2>1. \A i \in Slots : Latest(log, S(i)) = IF own[i] # NoRow THEN own[i] ELSE IF i = 0 THEN earliest ELSE Latest(log, S(i - 1))
    <3> TAKE i \in Slots
    <3>1. own[i] = Latest(log, Q(i))
      OBVIOUS
    <3> HIDE DEF own
    <3>2. CASE i = 0
      <4>1. Early \subseteq 1 .. Len(log) /\ Q(0) \subseteq 1 .. Len(log)
        BY <1>17, <1>18, <1>22
      <4>2. Latest(log, Early \cup Q(0)) = IF Latest(log, Q(0)) # NoRow THEN Latest(log, Q(0)) ELSE Latest(log, Early)
        BY <1>11, <4>1, LatestOf
      <4> QED
        BY <1>9, <3>1, <3>2, <4>2
    <3>3. CASE i # 0
      <4>1. S(i - 1) \subseteq 1 .. Len(log) /\ Q(i) \subseteq 1 .. Len(log)
        BY <1>10, <1>17, <1>22, <3>3
      <4>2. \A j \in S(i - 1), k \in Q(i) : log[j].at < log[k].at
        BY <1>12, <3>3
      <4>3. Latest(log, S(i - 1) \cup Q(i)) = IF Latest(log, Q(i)) # NoRow THEN Latest(log, Q(i)) ELSE Latest(log, S(i - 1))
        BY <4>1, <4>2, LatestOf
      <4> QED
        BY <1>10, <3>1, <3>3, <4>3
    <3> QED
      BY <3>2, <3>3
  <2> DEFINE T == TrueSlots(n)
  <2>2. T = [i \in Slots |-> T[i]] /\ \A i \in Slots : T[i] = Latest(log, S(i))
    BY <1>21
  <2> HIDE DEF T, own, earliest
  <2>3. \A i \in Slots : T[i] = IF own[i] # NoRow THEN own[i] ELSE IF i = 0 THEN earliest ELSE T[i - 1]
    <3> TAKE i \in Slots
    <3>1. i # 0 => T[i - 1] = Latest(log, S(i - 1))
      BY <1>10, <2>2
    <3> QED
      BY <2>1, <2>2, <3>1
  <2>4. Carries(T, own, earliest)
    BY <2>2, <2>3 DEF Carries
  <2> QED
    BY <2>4 DEF T
<1>14. Carries(BuildTimelineSlots(D, s), own, earliest)
  <2> DEFINE Own(i) == Latest(D, {j \in DOMAIN D : D[j].at >= start /\ ((D[j].at - start) * Width) \div s = i})
             First == Latest(D, {j \in DOMAIN D : D[j].at < start})
             Is(f) == f = [i \in Slots |-> IF Own(i) # NoRow THEN Own(i) ELSE IF i = 0 THEN First ELSE f[i - 1]]
  <2>1. \A f : Is(f) <=> Carries(f, own, earliest)
    <3> TAKE f
    <3>1. [i \in Slots |-> IF Own(i) # NoRow THEN Own(i) ELSE IF i = 0 THEN First ELSE f[i - 1]]
        = [i \in Slots |-> IF own[i] # NoRow THEN own[i] ELSE IF i = 0 THEN earliest ELSE f[i - 1]]
      <4>1. \A i \in Slots : Own(i) = own[i]
        BY <1>4
      <4>2. First = earliest
        BY <1>5
      <4> HIDE DEF Own, First, own, earliest
      <4> QED
        BY <4>1, <4>2
    <3> HIDE DEF Own, First, own, earliest
    <3> QED
      BY <3>1 DEF Carries
  <2>2. BuildTimelineSlots(D, s) = CHOOSE f : Is(f)
    BY DEF BuildTimelineSlots
  <2>3. \E f : Is(f)
    BY <1>13, <2>1
  <2> HIDE DEF Is
  <2>4. Is(CHOOSE f : Is(f))
    BY <2>3
  <2> QED
    BY <2>1, <2>2, <2>4
<1> QED
  BY <1>13, <1>14, CarriedOnce

\* A thread that looked at the file saw rows, and asked for a scope there is.
ReadingTyped ==
  /\ reading \in [HistoryThreads -> [at : {"idle", "stat"}, scope : Nat, size : Nat]]
  /\ \A k \in HistoryThreads : reading[k].at = "stat" => reading[k].scope \in Scopes /\ reading[k].size \in 1 .. Len(log)

\* What was kept is taken to be read up to where it is read on from.
CacheTyped ==
  /\ cache.size \in 0 .. Len(log) /\ cache.offset = cache.size
  /\ cache.scope \in Nat /\ (cache.size > 0 => cache.scope > 0)
  /\ unread \in BOOLEAN

\* Unless a read of the end failed, what is kept is the file at some moment since its
\* size was looked at, as far back as it is asked for.
CacheTrue ==
  ~unread => \E n \in cache.size .. Len(log) : Covers(cache.entries, n, time - cache.scope)

\* What was drawn was drawn before now.
DrawnTyped == drawn.scope \in Nat /\ drawn.at \in Nat /\ drawn.at <= time

\* What was drawn is the file at some moment of the read, and reaches no further back
\* than it was asked for.
DrawnTrue ==
  drawn.scope > 0 /\ drawn.whole =>
    \E n \in drawn.low .. drawn.high :
      /\ Covers(drawn.entries, n, drawn.at - drawn.scope)
      /\ \A p \in 1 .. Len(drawn.entries) : drawn.entries[p].at >= drawn.at - drawn.scope

\* The inductive invariant.
TimelineInv == LogTyped /\ ReadingTyped /\ CacheTyped /\ CacheTrue /\ DrawnTyped /\ DrawnTrue

\* A drawn history that covers rows makes a true timeline, at once or later.
LEMMA TimelineTrueNow ==
  ASSUME TimelineInv
  PROVE  TimelineIsTrue
<1> SUFFICES ASSUME drawn.scope > 0 /\ drawn.whole
             PROVE  \E n \in drawn.low .. drawn.high : BuildTimelineSlots(drawn.entries, drawn.scope) = TrueSlots(n)
  BY DEF TimelineIsTrue
<1>1. PICK n \in drawn.low .. drawn.high :
        /\ Covers(drawn.entries, n, drawn.at - drawn.scope)
        /\ \A p \in 1 .. Len(drawn.entries) : drawn.entries[p].at >= drawn.at - drawn.scope
  BY DEF TimelineInv, DrawnTrue
<1>2. LogTyped /\ drawn.scope \in Nat \ {0} /\ drawn.at \in Nat /\ drawn.at <= time
  BY DEF TimelineInv, DrawnTyped
<1>3. BuildTimelineSlots(drawn.entries, drawn.scope) = TrueSlots(n)
  BY <1>1, <1>2, SlotsTrue
<1> QED
  BY <1>3

\* The empty file, and nothing kept or drawn.
LEMMA TimelineStarts ==
  ASSUME TimelineInit
  PROVE  TimelineInv
<1>1. log = <<>> /\ Len(log) = 0 /\ log \in Seq(Row) /\ time = 0
  BY EmptySeq DEF TimelineInit
<1>2. LogTyped
  BY <1>1 DEF LogTyped
<1>3. ReadingTyped
  BY DEF TimelineInit, ReadingTyped, Waiting
<1>4. CacheTyped
  <2>1. cache.size = 0 /\ cache.offset = 0 /\ cache.scope = 0 /\ unread = FALSE
    BY DEF TimelineInit
  <2>2. 0 \in 0 .. Len(log)
    BY <1>1
  <2>3. unread \in BOOLEAN
    BY <2>1
  <2>4. cache.scope \in Nat /\ ~ cache.size > 0
    BY <2>1
  <2>5. cache.size \in 0 .. Len(log) /\ cache.offset = cache.size
    BY <2>1, <2>2
  <2> QED
    BY <2>3, <2>4, <2>5 DEF CacheTyped
<1>5. CacheTrue
  <2>1. cache.entries = log /\ cache.size = 0 /\ cache.scope = 0
    BY <1>1 DEF TimelineInit
  <2>2. Covers(log, Len(log), 0)
    BY <1>2, CoversAll
  <2> QED
    BY <1>1, <2>1, <2>2 DEF CacheTrue
<1>6. DrawnTyped /\ DrawnTrue
  BY <1>1 DEF TimelineInit, DrawnTyped, DrawnTrue
<1> QED
  BY <1>2, <1>3, <1>4, <1>5, <1>6 DEF TimelineInv

\* A row more (log_agent_status) leaves what is kept and drawn true.
LEMMA LogGrows ==
  ASSUME TimelineInv, LogAgentStatus
  PROVE  TimelineInv'
<1> DEFINE r == [at |-> time, status |-> Len(log) + 1]
<1>1. /\ log' = Append(log, r) /\ UNCHANGED <<time, cache, reading, unread, drawn>>
  BY DEF LogAgentStatus
<1>2. LogTyped
  BY DEF TimelineInv
<1>3. Len(log) \in Nat /\ r \in Row /\ time \in Nat /\ log \in Seq(Row) /\ r.at = time /\ r.status = Len(log) + 1
  BY <1>2, LogRows DEF LogTyped, Row
<1> HIDE DEF r
<1>4. /\ log' \in Seq(Row) /\ Len(log') = Len(log) + 1
      /\ log'[Len(log) + 1] = r /\ \A j \in 1 .. Len(log) : log'[j] = log[j]
  BY <1>1, <1>3, AppendProperties
<1>5. LogTyped'
  <2>1. \A j \in 1 .. Len(log) : log[j].at \in Nat /\ log[j].at <= time /\ log[j].status = j
    BY <1>2, LogRows DEF LogTyped
  <2>2. \A j \in 1 .. Len(log') : j \in 1 .. Len(log) \/ j = Len(log) + 1
    BY <1>3, <1>4
  <2>3. \A j \in 1 .. Len(log') : log'[j].status = j /\ log'[j].at <= time
    BY <1>3, <1>4, <2>1, <2>2
  <2>4. \A j, k \in 1 .. Len(log') : j <= k => log'[j].at <= log'[k].at
    <3> SUFFICES ASSUME NEW j \in 1 .. Len(log'), NEW k \in 1 .. Len(log'), j <= k PROVE log'[j].at <= log'[k].at
      OBVIOUS
    <3>1. CASE k \in 1 .. Len(log)
      <4>1. j \in 1 .. Len(log)
        BY <1>3, <2>2, <3>1
      <4> QED
        BY <1>2, <1>4, <3>1, <4>1 DEF LogTyped
    <3>2. CASE k = Len(log) + 1
      BY <1>3, <1>4, <2>3, <3>2
    <3> QED
      BY <2>2, <3>1, <3>2
  <2> QED
    BY <1>1, <1>3, <1>4, <2>3, <2>4 DEF LogTyped
<1>6. ReadingTyped' /\ CacheTyped' /\ DrawnTyped'
  <2>1. \A m \in 1 .. Len(log) : m \in 1 .. Len(log')
    BY <1>3, <1>4
  <2>2. \A m \in 0 .. Len(log) : m \in 0 .. Len(log')
    BY <1>3, <1>4
  <2> QED
    BY <1>1, <2>1, <2>2 DEF TimelineInv, ReadingTyped, CacheTyped, DrawnTyped
<1>7. \A e, n, c : Covers(e, n, c) => Covers(e, n, c)'
  <2> SUFFICES ASSUME NEW e, NEW n, NEW c, Covers(e, n, c) PROVE Covers(e, n, c)'
    OBVIOUS
  <2>1. n \in 0 .. Len(log) /\ n \in 0 .. Len(log')
    BY <1>3, <1>4 DEF Covers
  <2>2. \A j \in 1 .. n : j \in 1 .. Len(log)
    BY <1>3, <2>1
  <2>3. \A j \in 1 .. n : log'[j] = log[j]
    BY <1>4, <2>2
  <2> QED
    BY <2>1, <2>3 DEF Covers
<1>8. CacheTrue'
  <2>1. \A n \in cache.size .. Len(log) : n \in cache.size .. Len(log')
    BY <1>3, <1>4
  <2> QED
    BY <1>1, <1>7, <2>1 DEF TimelineInv, CacheTrue
<1>9. DrawnTrue'
  BY <1>1, <1>7 DEF TimelineInv, DrawnTrue
<1> QED
  BY <1>5, <1>6, <1>8, <1>9 DEF TimelineInv

\* As time passes less is in scope.
LEMMA TimePasses ==
  ASSUME TimelineInv, ClockAdvances
  PROVE  TimelineInv'
<1>1. time \in Nat /\ time' = time + 1 /\ UNCHANGED <<log, cache, reading, unread, drawn>>
  BY DEF ClockAdvances, TimelineInv, LogTyped
<1>2. \A e, n, c : Covers(e, n, c) => Covers(e, n, c)'
  BY <1>1 DEF Covers
<1>3. LogTyped'
  <2>1. \A j \in 1 .. Len(log) : log[j].at <= time + 1
    BY <1>1, LogRows DEF TimelineInv, LogTyped
  <2> QED
    BY <1>1, <2>1 DEF TimelineInv, LogTyped
<1>4. ReadingTyped' /\ CacheTyped' /\ DrawnTyped'
  BY <1>1 DEF TimelineInv, ReadingTyped, CacheTyped, DrawnTyped
<1>5. CacheTrue'
  <2> SUFFICES ASSUME ~unread
               PROVE  CacheTrue'
    BY <1>1 DEF CacheTrue
  <2>1. PICK n \in cache.size .. Len(log) : Covers(cache.entries, n, time - cache.scope)
    BY DEF TimelineInv, CacheTrue
  <2>2. time - cache.scope \in Int /\ (time + 1) - cache.scope \in Int /\ time - cache.scope <= (time + 1) - cache.scope
    BY <1>1 DEF TimelineInv, CacheTyped
  <2>3. Covers(cache.entries, n, (time + 1) - cache.scope)
    BY <2>1, <2>2, CoversLater DEF TimelineInv
  <2> QED
    BY <1>1, <1>2, <2>3 DEF CacheTrue
<1>6. DrawnTrue'
  BY <1>1, <1>2 DEF TimelineInv, DrawnTrue
<1> QED
  BY <1>3, <1>4, <1>5, <1>6 DEF TimelineInv

\* A read that answers from entries which cover the file, from before the cutoff it was
\* asked for, answers truly.
LEMMA AnswerTrue ==
  ASSUME TimelineInv, NEW k \in HistoryThreads, reading[k].at = "stat", UNCHANGED <<time, log>>,
         NEW entries, NEW whole, Returns(k, entries, whole),
         whole => \E n \in reading[k].size .. Len(log) : \E c \in Int :
                    c <= time - reading[k].scope /\ Covers(entries, n, c)
  PROVE  LogTyped' /\ ReadingTyped' /\ DrawnTyped' /\ DrawnTrue'
<1> DEFINE s == reading[k].scope
           E == Since(entries, time - s)
<1>1. /\ drawn'.entries = E /\ drawn'.scope = s /\ drawn'.at = time /\ drawn'.low = reading[k].size
      /\ drawn'.high = Len(log) /\ drawn'.whole = whole
      /\ reading' = [reading EXCEPT ![k] = Waiting]
  BY DEF Returns
<1>2. s \in Nat /\ time \in Nat
  BY DEF TimelineInv, ReadingTyped, LogTyped
<1>3. LogTyped'
  BY DEF TimelineInv, LogTyped
<1>4. ReadingTyped'
  BY <1>1 DEF TimelineInv, ReadingTyped, Waiting
<1>5. DrawnTyped'
  BY <1>1, <1>2 DEF DrawnTyped
<1>6. DrawnTrue'
  <2> SUFFICES ASSUME whole
               PROVE  DrawnTrue'
    BY <1>1 DEF DrawnTrue
  <2>1. PICK n \in reading[k].size .. Len(log) : \E c \in Int : c <= time - s /\ Covers(entries, n, c)
    OBVIOUS
  <2>2. PICK c \in Int : c <= time - s /\ Covers(entries, n, c)
    BY <2>1
  <2>3. time - s \in Int
    BY <1>2
  <2>4. Covers(E, n, time - s) /\ \A p \in 1 .. Len(E) : E[p].at >= time - s
    BY <2>2, <2>3, SinceCovers DEF TimelineInv
  <2> HIDE DEF E, s
  <2>5. \A x, y : Covers(x, n, y) => Covers(x, n, y)'
    BY DEF Covers
  <2> QED
    BY <1>1, <2>4, <2>5 DEF DrawnTrue
<1> QED
  BY <1>3, <1>4, <1>5, <1>6

\* What was kept answers when the size is the same and no more was asked for.
LEMMA CacheAnswers ==
  ASSUME TimelineInv, NEW k \in HistoryThreads, AnswersFromCache(k)
  PROVE  TimelineInv'
<1>1. /\ reading[k].at = "stat" /\ ~FileChanged(k) /\ ~HoursExpanded(k)
      /\ Returns(k, cache.entries, ~unread) /\ UNCHANGED <<time, log, cache, unread>>
  BY DEF AnswersFromCache
<1>2. /\ reading[k].size = cache.size /\ cache.size \in Nat /\ cache.size > 0 /\ cache.scope \in Nat
      /\ reading[k].scope \in Nat /\ reading[k].scope <= cache.scope /\ time \in Nat
  <2>1. Len(log) \in Nat
    BY LogRows DEF TimelineInv
  <2>2. reading[k].size \in 1 .. Len(log) /\ reading[k].scope \in Nat /\ reading[k].size = cache.size
    BY <1>1 DEF TimelineInv, ReadingTyped, FileChanged
  <2>3. cache.size \in Nat /\ cache.size > 0
    BY <2>1, <2>2
  <2> QED
    BY <1>1, <2>2, <2>3 DEF TimelineInv, CacheTyped, LogTyped, HoursExpanded
<1>3. ~unread => \E n \in reading[k].size .. Len(log) : \E c \in Int :
                   c <= time - reading[k].scope /\ Covers(cache.entries, n, c)
  <2>1. time - cache.scope \in Int /\ time - cache.scope <= time - reading[k].scope
    BY <1>2
  <2> QED
    BY <1>2, <2>1 DEF TimelineInv, CacheTrue
<1>4. LogTyped' /\ ReadingTyped' /\ DrawnTyped' /\ DrawnTrue'
  BY <1>1, <1>3, AnswerTrue
<1>5. CacheTyped' /\ CacheTrue'
  BY <1>1 DEF TimelineInv, CacheTyped, CacheTrue, Covers
<1> QED
  BY <1>4, <1>5 DEF TimelineInv

\* Reading on from the size that was kept leaves out no row, also if another thread
\* read in between, or more than stat saw is read.
LEMMA TailIsRead ==
  ASSUME TimelineInv, NEW k \in HistoryThreads, ReadsTail(k)
  PROVE  TimelineInv'
<1> DEFINE kept == Since(cache.entries, time - cache.scope)
<1>1. reading[k].at = "stat" /\ Incremental(k) /\ UNCHANGED <<time, log>>
  BY DEF ReadsTail
<1>2. PICK tail \in {SubSeq(log, cache.offset + 1, Len(log))} \cup {<<>>} :
        /\ unread' = (unread \/ tail = <<>>)
        /\ cache' = [entries |-> kept \o tail, size |-> reading[k].size, scope |-> cache.scope,
                     offset |-> reading[k].size]
        /\ Returns(k, kept \o tail, ~unread')
  BY DEF ReadsTail
<1>3. /\ Len(log) \in Nat /\ time \in Nat /\ cache.scope \in Nat \ {0} /\ cache.size \in Nat /\ cache.offset = cache.size
      /\ cache.size \in 0 .. Len(log)
      /\ reading[k].size \in 1 .. Len(log) /\ reading[k].scope \in Nat /\ reading[k].scope <= cache.scope
  <2>1. Len(log) \in Nat
    BY LogRows DEF TimelineInv
  <2>2. reading[k].size \in 1 .. Len(log) /\ reading[k].scope \in Nat
    BY <1>1 DEF TimelineInv, ReadingTyped
  <2>3. cache.size \in 0 .. Len(log) /\ cache.offset = cache.size /\ cache.offset > 0 /\ cache.scope \in Nat
    BY <1>1 DEF TimelineInv, CacheTyped, Incremental
  <2>4. cache.scope > 0
    BY <2>3 DEF TimelineInv, CacheTyped
  <2>5. reading[k].scope <= cache.scope
    BY <1>1, <2>2, <2>3, <2>4 DEF Incremental, HoursExpanded
  <2>6. time \in Nat
    BY DEF TimelineInv, LogTyped
  <2> QED
    BY <2>1, <2>2, <2>3, <2>4, <2>5, <2>6
<1>4. ~unread' => Covers(kept \o tail, Len(log), time - cache.scope)
  <2> SUFFICES ASSUME ~unread' PROVE Covers(kept \o tail, Len(log), time - cache.scope)
    OBVIOUS
  <2>1. ~unread /\ tail = SubSeq(log, cache.size + 1, Len(log))
    BY <1>2, <1>3
  <2>2. PICK n \in cache.size .. Len(log) : Covers(cache.entries, n, time - cache.scope)
    BY <2>1 DEF TimelineInv, CacheTrue
  <2>3. time - cache.scope \in Int /\ time - cache.scope <= time - cache.scope /\ cache.size \in 0 .. n
    BY <1>3, <2>2
  <2>4. Covers(kept, n, time - cache.scope)
    BY <2>2, <2>3, SinceCovers DEF TimelineInv
  <2> HIDE DEF kept
  <2> QED
    BY <2>1, <2>3, <2>4, TailCovers DEF TimelineInv
<1> HIDE DEF kept
<1>5. LogTyped' /\ ReadingTyped' /\ DrawnTyped' /\ DrawnTrue'
  <2>1. ~unread' => \E n \in reading[k].size .. Len(log) : \E c \in Int :
                     c <= time - reading[k].scope /\ Covers(kept \o tail, n, c)
    <3>1. time - cache.scope \in Int /\ time - cache.scope <= time - reading[k].scope
      BY <1>3
    <3>2. Len(log) \in reading[k].size .. Len(log)
      BY <1>3
    <3> QED
      BY <1>4, <3>1, <3>2
  <2>2. PICK whole : whole = ~unread'
    OBVIOUS
  <2>3. Returns(k, kept \o tail, whole)
    BY <1>2, <2>2 DEF Returns
  <2> QED
    BY <1>1, <2>1, <2>2, <2>3, AnswerTrue
<1>6. CacheTyped'
  <2>1. unread \in BOOLEAN /\ unread' \in BOOLEAN
    BY <1>2 DEF TimelineInv, CacheTyped
  <2>2. reading[k].size \in 0 .. Len(log)
    BY <1>3
  <2> QED
    BY <1>1, <1>2, <1>3, <2>1, <2>2 DEF CacheTyped
<1>7. CacheTrue'
  <2>1. Len(log) \in reading[k].size .. Len(log)
    BY <1>3
  <2>2. \A x, y : Covers(x, Len(log), y) => Covers(x, Len(log), y)'
    BY <1>1 DEF Covers
  <2>3. /\ cache'.entries = kept \o tail /\ cache'.size = reading[k].size /\ cache'.scope = cache.scope
    BY <1>2
  <2> QED
    BY <1>1, <1>4, <2>1, <2>2, <2>3 DEF CacheTrue
<1> QED
  BY <1>5, <1>6, <1>7 DEF TimelineInv

\* A full read covers all that is in scope.
LEMMA AllIsRead ==
  ASSUME TimelineInv, NEW k \in HistoryThreads, ReadsAll(k)
  PROVE  TimelineInv'
<1> DEFINE s == reading[k].scope
           E == Since(log, time - s)
<1>1. /\ reading[k].at = "stat" /\ UNCHANGED <<time, log>> /\ unread' = FALSE
      /\ cache' = [entries |-> E, size |-> reading[k].size, scope |-> s, offset |-> reading[k].size]
      /\ Returns(k, E, TRUE)
  BY DEF ReadsAll
<1>2. /\ Len(log) \in Nat /\ time \in Nat /\ s \in Nat \ {0} /\ reading[k].size \in 1 .. Len(log)
  <2>1. s \in Scopes /\ reading[k].size \in 1 .. Len(log) /\ time \in Nat
    BY <1>1 DEF TimelineInv, ReadingTyped, LogTyped
  <2> HIDE DEF s
  <2> QED
    BY <2>1, TimelineAssumption, LogRows DEF TimelineInv
<1>3. Covers(E, Len(log), time - s)
  <2>1. time - s \in Int /\ time - s <= time - s
    BY <1>2
  <2>2. Covers(log, Len(log), time - s)
    BY <2>1, CoversAll DEF TimelineInv
  <2> QED
    BY <2>1, <2>2, SinceCovers DEF TimelineInv
<1> HIDE DEF E
<1>4. Len(log) \in reading[k].size .. Len(log) /\ time - s \in Int /\ time - s <= time - reading[k].scope
  BY <1>2
<1>5. LogTyped' /\ ReadingTyped' /\ DrawnTyped' /\ DrawnTrue'
  BY <1>1, <1>3, <1>4, AnswerTrue
<1> HIDE DEF s
<1>6. CacheTyped'
  <2>1. reading[k].size \in 0 .. Len(log) /\ s \in Nat /\ s > 0
    BY <1>2
  <2> QED
    BY <1>1, <2>1 DEF CacheTyped
<1>7. CacheTrue'
  <2>1. \A x, y : Covers(x, Len(log), y) => Covers(x, Len(log), y)'
    BY <1>1 DEF Covers
  <2>2. cache'.entries = E /\ cache'.size = reading[k].size /\ cache'.scope = s
    BY <1>1
  <2> QED
    BY <1>1, <1>3, <1>4, <2>1, <2>2 DEF CacheTrue
<1> QED
  BY <1>5, <1>6, <1>7 DEF TimelineInv

\* A read that fails answers nothing, and keeps what was kept.
LEMMA NothingIsRead ==
  ASSUME TimelineInv, NEW k \in HistoryThreads, ReadFails(k)
  PROVE  TimelineInv'
<1>1. /\ reading[k].at = "stat" /\ Returns(k, <<>>, FALSE) /\ UNCHANGED <<time, log, cache, unread>>
  BY DEF ReadFails
<1>2. LogTyped' /\ ReadingTyped' /\ DrawnTyped' /\ DrawnTrue'
  BY <1>1, AnswerTrue
<1>3. CacheTyped'
  BY <1>1 DEF TimelineInv, CacheTyped
<1>4. CacheTrue'
  BY <1>1 DEF TimelineInv, CacheTrue, Covers
<1> QED
  BY <1>2, <1>3, <1>4 DEF TimelineInv

\* What is kept and drawn is as true as before when the file stays as it is.
LEMMA TimelineStays ==
  ASSUME TimelineInv, UNCHANGED <<time, log, cache, unread, drawn>>
  PROVE  LogTyped' /\ CacheTyped' /\ CacheTrue' /\ DrawnTyped' /\ DrawnTrue'
<1>1. \A x, n, y : Covers(x, n, y) => Covers(x, n, y)'
  BY DEF Covers
<1>2. LogTyped' /\ CacheTyped' /\ DrawnTyped'
  BY DEF TimelineInv, LogTyped, CacheTyped, DrawnTyped
<1>3. CacheTrue'
  BY <1>1 DEF TimelineInv, CacheTrue
<1>4. DrawnTrue'
  BY <1>1 DEF TimelineInv, DrawnTrue
<1> QED
  BY <1>2, <1>3, <1>4

\* A thread looks at the size of the file, before it has the lock.
LEMMA SizeIsSeen ==
  ASSUME TimelineInv, NEW k \in HistoryThreads, Stats(k)
  PROVE  TimelineInv'
<1>1. PICK scope \in Scopes : reading' = [reading EXCEPT ![k] = [at |-> "stat", scope |-> scope, size |-> Len(log)]]
  BY DEF Stats
<1>2. UNCHANGED <<time, log, cache, unread, drawn>> /\ log # <<>>
  BY DEF Stats
<1>3. scope \in Nat /\ Len(log) \in Nat /\ Len(log) \in 1 .. Len(log)
  <2>1. log \in Seq(Row) /\ scope \in Nat
    BY TimelineAssumption DEF TimelineInv, LogTyped
  <2>2. Len(log) \in Nat /\ Len(log) # 0
    BY <1>2, <2>1, EmptySeq, LenProperties
  <2> QED
    BY <2>1, <2>2
<1>4. ReadingTyped'
  BY <1>1, <1>2, <1>3 DEF TimelineInv, ReadingTyped
<1>5. LogTyped' /\ CacheTyped' /\ CacheTrue' /\ DrawnTyped' /\ DrawnTrue'
  BY <1>2, TimelineStays
<1> QED
  BY <1>4, <1>5 DEF TimelineInv

\* Every step keeps the invariant.
LEMMA TimelineStep ==
  ASSUME TimelineInv, [TimelineNext]_timelineVars
  PROVE  TimelineInv'
<1>1. CASE LogAgentStatus
  BY <1>1, LogGrows
<1>2. CASE ClockAdvances
  BY <1>2, TimePasses
<1>3. ASSUME NEW k \in HistoryThreads,
             Stats(k) \/ AnswersFromCache(k) \/ ReadsTail(k) \/ ReadsAll(k) \/ ReadFails(k)
      PROVE  TimelineInv'
  BY <1>3, SizeIsSeen, CacheAnswers, TailIsRead, AllIsRead, NothingIsRead
<1>4. CASE UNCHANGED timelineVars
  <2>1. UNCHANGED <<time, log, cache, reading, unread, drawn>>
    BY <1>4 DEF timelineVars
  <2> QED
    BY <2>1, TimelineStays DEF TimelineInv, ReadingTyped
<1> QED
  BY <1>1, <1>2, <1>3, <1>4 DEF TimelineNext

\* For any number of threads, scopes, slots and rows: a timeline, drawn at once or later,
\* is that of the file at some moment of the read.
THEOREM TimelineTrue == TimelineSpec => []TimelineIsTrue
<1>1. TimelineInit => TimelineInv
  BY TimelineStarts
<1>2. TimelineInv /\ [TimelineNext]_timelineVars => TimelineInv'
  BY TimelineStep
<1>3. TimelineInv => TimelineIsTrue
  BY TimelineTrueNow
<1> QED
  BY <1>1, <1>2, <1>3, PTL DEF TimelineSpec

-----------------------------------------------------------------------------
(* The time totals *)

TimeStats == [green : Nat, nonGreen : Nat, sleep : Nat,
          counted : Nat \cup {NoTime}, since : Nat \cup {NoTime},
          state : Statuses \cup {NoStatus}]

\* Memory and file agree on what has been counted.
MemoryInv == last # NoTime /\ stats.counted # NoTime => last = stats.counted

\* Nothing is counted before the first write.
FreshInv ==
  stats.counted = NoTime => Total(stats) = 0 /\ frozen = 0 /\ stats.since = NoTime

BegunInv == stats.counted # NoTime => first # NoTime

TimeInv == TimeTypeOK /\ MemoryInv /\ FreshInv /\ BegunInv /\ EverySecondOnce

-----------------------------------------------------------------------------

\* Time goes to one total, or, for a terminated agent, to none.
LEMMA AddedTotal ==
  ASSUME NEW t \in TimeStats, NEW st \in Statuses, NEW elapsed \in Nat
  PROVE  /\ Added(t, st, elapsed) \in TimeStats
         /\ Added(t, st, elapsed).counted = t.counted
         /\ Added(t, st, elapsed).since = t.since
         /\ Total(Added(t, st, elapsed)) = Total(t) + (IF st = "terminated" THEN 0 ELSE elapsed)
<1>1. CASE st \in Green
  BY <1>1 DEF Added, Total, TimeStats, Green
<1>2. CASE st = "asleep"
  BY <1>2 DEF Added, Total, TimeStats, Green
<1>3. CASE st = "terminated"
  BY <1>3 DEF Added, Total, TimeStats, Green
<1>4. CASE st \notin Green \cup {"asleep", "terminated"}
  BY <1>4 DEF Added, Total, TimeStats, Green
<1> QED
  BY <1>1, <1>2, <1>3, <1>4

\* The cap does nothing to totals that fit into the uptime.
LEMMA CapIsIdle ==
  ASSUME NEW t \in TimeStats, NEW uptime \in Nat, Total(t) <= uptime
  PROVE  Capped(t, uptime) = t
<1>1. ~(10 * Total(t) > 11 * uptime) /\ Total(t) \in Nat
  BY DEF Total, TimeStats
<1>2. /\ Least(t.green, uptime) = t.green
      /\ Least(t.nonGreen, uptime - t.green) = t.nonGreen
      /\ Least(t.sleep, uptime - t.green - t.nonGreen) = t.sleep
  BY DEF Total, TimeStats, Least
<1>3. Capped(t, uptime) = [t EXCEPT !.green = t.green, !.nonGreen = t.nonGreen, !.sleep = t.sleep]
  BY <1>1, <1>2 DEF Capped
<1>4. [t EXCEPT !.green = t.green, !.nonGreen = t.nonGreen, !.sleep = t.sleep] = t
  BY DEF TimeStats
<1> QED
  BY <1>3, <1>4

-----------------------------------------------------------------------------

\* The initial state satisfies the inductive invariant.
LEMMA TimeBegins == TimeInit => TimeInv
<1> SUFFICES ASSUME TimeInit PROVE TimeInv
  OBVIOUS
<1>1. stats \in TimeStats
  BY DEF TimeInit, NewStats, TimeStats
<1>2. up \in BOOLEAN
  BY DEF TimeInit
<1>3. TimeTypeOK
  BY <1>1, <1>2, TimeAssumption DEF TimeInit, TimeTypeOK, TimeStats
<1> QED
  BY <1>3 DEF TimeInit, TimeInv, NewStats, MemoryInv, FreshInv, BegunInv, EverySecondOnce, Total

\* An observation that counts adds exactly the time since the last one.
LEMMA ObserveKept ==
  ASSUME TimeInv, NEW st \in Statuses, Observe(st)
  PROVE  TimeInv'
<1> USE DEF TimeInv
<1>0. stats \in TimeStats /\ now \in Nat /\ frozen \in Nat /\ NoStatus \notin Statuses /\ NoTime \notin Nat
  BY DEF TimeTypeOK, TimeStats, Statuses, NoStatus, NoTime
<1>1. CASE last = NoTime
  <2>1. FirstObservation \in Nat /\ (stats.counted # NoTime => FirstObservation = stats.counted)
    BY <1>0 DEF FirstObservation, TimeStats
  <2>2. last' = FirstObservation /\ UNCHANGED <<now, stats, up, first, frozen, backs, ends>> /\ previous' = st
    BY <1>1 DEF Observe
  <2> QED
    BY <2>1, <2>2 DEF TimeTypeOK, MemoryInv, FreshInv, BegunInv, EverySecondOnce, Total
<1>2. CASE last # NoTime /\ now <= last
  <2>1. UNCHANGED <<now, stats, up, last, first, frozen, backs, ends>> /\ previous' = st
    BY <1>2, <1>0 DEF Observe, TimeTypeOK
  <2> QED
    BY <2>1 DEF TimeTypeOK, MemoryInv, FreshInv, BegunInv, EverySecondOnce, Total
<1>3. CASE last # NoTime /\ now > last
  <2> DEFINE elapsed == now - last
             new == Added(stats, st, elapsed)
  <2>1. last \in Nat /\ elapsed \in Nat
    BY <1>3, <1>0 DEF TimeTypeOK
  <2>2. /\ new \in TimeStats /\ new.counted = stats.counted /\ new.since = stats.since
        /\ Total(new) = Total(stats) + (IF st = "terminated" THEN 0 ELSE elapsed)
    BY <2>1, <1>0, AddedTotal
  <2>3. /\ last' = now /\ previous' = st
        /\ first' = IF stats.counted = NoTime THEN last ELSE first
        /\ frozen' = frozen + (IF st = "terminated" THEN elapsed ELSE 0)
        /\ UNCHANGED <<now, up, backs, ends>>
    BY <1>3, <1>0, <2>1 DEF Observe
  <2>4. first' \in Nat /\ Total(stats) \in Nat /\ frozen' \in Nat
    BY <2>3, <2>1, <1>0 DEF TimeTypeOK, BegunInv, Total, TimeStats
  <2>5. Total(new) + frozen' = now - first'
    <3>1. CASE stats.counted = NoTime
      BY <3>1, <2>1, <2>2, <2>3, <1>0 DEF FreshInv
    <3>2. CASE stats.counted # NoTime
      <4>1. stats.counted = last /\ first' = first /\ first \in Nat
        BY <3>2, <1>3, <2>3, <2>4 DEF MemoryInv
      <4>2. Total(stats) + frozen = last - first
        BY <3>2, <4>1 DEF EverySecondOnce
      <4> QED
        BY <4>1, <4>2, <2>1, <2>2, <2>3, <2>4, <1>0
    <3> QED
      BY <3>1, <3>2
  <2>6. Total(new) <= now
    BY <2>2, <2>4, <2>5, <1>0 DEF Total, TimeStats
  <2>7. Capped(new, now) = new
    BY <2>2, <2>6, <1>0, CapIsIdle
  <2>8. /\ stats' \in TimeStats /\ stats'.counted = now
        /\ stats'.green = new.green /\ stats'.nonGreen = new.nonGreen /\ stats'.sleep = new.sleep
    <3> DEFINE since == IF previous \notin {NoStatus, st} \/ stats.since = NoTime
                        THEN now ELSE stats.since
    <3>1. Capped(Added(stats, st, now - last), now) = new
      BY <2>7
    <3>2. stats' = [new EXCEPT !.counted = now, !.state = st, !.since = since]
      <4>1. last # NoTime /\ ~(now <= last)
        BY <1>3, <1>0, <2>1
      <4>2. stats' = [Capped(Added(stats, st, now - last), now)
                        EXCEPT !.counted = now, !.state = st, !.since = since]
        BY <4>1, Zenon DEF Observe
      <4> QED
        BY <4>2, <3>1
    <3>3. since \in Nat \cup {NoTime}
      BY <1>0 DEF TimeStats
    <3> QED
      BY <3>2, <3>3, <2>2, <1>0 DEF TimeStats
  <2>9. Total(stats') = Total(new)
    BY <2>8 DEF Total
  <2>10. TimeTypeOK'
    BY <2>3, <2>4, <2>8, <1>0 DEF TimeTypeOK, TimeStats
  <2> QED
    BY <2>3, <2>4, <2>5, <2>8, <2>9, <2>10, <1>0
    DEF MemoryInv, FreshInv, BegunInv, EverySecondOnce
<1> QED
  BY <1>0, <1>1, <1>2, <1>3 DEF TimeTypeOK

\* Every step of the specification preserves the inductive invariant.
LEMMA TimeKept == TimeInv /\ [TimeNext]_timeVars => TimeInv'
<1> SUFFICES ASSUME TimeInv, [TimeNext]_timeVars PROVE TimeInv'
  OBVIOUS
<1> USE DEF TimeInv, TimeTypeOK, MemoryInv, FreshInv, BegunInv, EverySecondOnce, Total
<1>1. ASSUME NEW st \in Statuses, Observe(st) PROVE TimeInv'
  BY <1>1, ObserveKept
<1>2. CASE Elapses
  BY <1>2 DEF Elapses, memoryVars
<1>3. CASE ClockSetBack
  BY <1>3, TimeAssumption DEF ClockSetBack, memoryVars
<1>4. CASE StartTracking
  BY <1>4 DEF StartTracking, memoryVars
<1>5. CASE StopTracking
  <2>1. up' \in BOOLEAN
    BY <1>5 DEF StopTracking
  <2>2. ends' \in 0 .. MaxEnds
    BY <1>5, TimeAssumption DEF StopTracking
  <2>3. last' = NoTime /\ previous' = NoStatus /\ UNCHANGED <<now, stats, first, frozen, backs>>
    BY <1>5 DEF StopTracking
  <2> QED
    BY <2>1, <2>2, <2>3
<1>6. CASE UNCHANGED timeVars
  BY <1>6 DEF timeVars, memoryVars
<1> QED
  BY <1>1, <1>2, <1>3, <1>4, <1>5, <1>6 DEF TimeNext

-----------------------------------------------------------------------------

\* In every behaviour of the accumulation the inductive invariant holds.
LEMMA TimeAlways == TimeSpec => []TimeInv
<1>1. TimeInit => TimeInv
  BY TimeBegins
<1>2. TimeInv /\ [TimeNext]_timeVars => TimeInv'
  BY TimeKept
<1> QED
  BY <1>1, <1>2, PTL DEF TimeSpec

\* Totals are never negative, however the clock moves: a step back is not
\* taken for elapsed time.
THEOREM TimeTypeCorrect == TimeSpec => []TimeTypeOK
<1>1. TimeInv => TimeTypeOK
  BY DEF TimeInv
<1> QED
  BY <1>1, TimeAlways, PTL

\* _update_state_time counts each second once, over any number of restarts of
\* the daemon and steps of the clock.
THEOREM CountsOnce == TimeSpec => []EverySecondOnce
<1>1. TimeInv => EverySecondOnce
  BY DEF TimeInv
<1> QED
  BY <1>1, TimeAlways, PTL

\* The sum of the totals that get_current_state_times shows between two writes is
\* the one that the daemon would have if it wrote now.
THEOREM ShownIsExact == TimeSpec => []ShownAddsUp
<1>1. TimeInv => ShownAddsUp
  <2> SUFFICES ASSUME TimeInv, NEW asleep \in BOOLEAN, stats.counted # NoTime, now >= stats.counted,
                      asleep \/ stats.state # "terminated"
               PROVE  Total(Shown(asleep)) + frozen = now - first
    BY DEF ShownAddsUp
  <2>1. /\ stats \in TimeStats /\ now \in Nat /\ frozen \in Nat /\ first \in Nat
        /\ stats.counted \in Nat /\ Total(stats) \in Nat
        /\ Total(stats) + frozen = stats.counted - first
    BY DEF TimeInv, TimeTypeOK, BegunInv, EverySecondOnce, TimeStats, Total
  <2>2. ShownAnchor = stats.counted
    BY DEF ShownAnchor
  <2>3. CASE now = stats.counted
    BY <2>1, <2>2, <2>3 DEF Shown
  <2>4. CASE now > stats.counted
    <3> DEFINE shown == IF asleep THEN "asleep" ELSE stats.state
    <3>1. Shown(asleep) = Added(stats, shown, now - stats.counted)
      BY <2>2, <2>4 DEF Shown
    <3>2. shown # "terminated" /\ now - stats.counted \in Nat
      BY <2>1, <2>4
    <3>3. CASE shown \in Statuses
      <4> HIDE DEF shown
      <4>1. Total(Added(stats, shown, now - stats.counted)) = Total(stats) + (now - stats.counted)
        BY <3>2, <3>3, <2>1, AddedTotal
      <4> QED
        BY <4>1, <3>1, <3>2, <2>1
    <3>4. CASE shown \notin Statuses
      <4>1. shown \notin Green \cup {"asleep", "terminated"}
        BY <3>4, <2>1 DEF TimeStats, Statuses, Green, NoStatus
      <4>2. Total(Shown(asleep)) = Total(stats) + (now - stats.counted)
        BY <3>1, <3>2, <4>1, <2>1 DEF Added, Total, TimeStats
      <4> QED
        BY <4>2, <3>2, <2>1
    <3> QED
      BY <3>3, <3>4
  <2> QED
    BY <2>1, <2>3, <2>4
<1> QED
  BY <1>1, TimeAlways, PTL

-----------------------------------------------------------------------------
(* The types of all variables *)

\* What a setting makes of the record: another choice, or no time of a last heartbeat.
LEMMA SettingsTyped ==
  ASSUME TypeOK, Settings
  PROVE  /\ UNCHANGED <<envVars, pc, snap, beatTime, status, memVars, stops, sent, lost, known>>
         /\ conf' \in [asleep : BOOLEAN, heartbeat : HeartbeatModes, lastBeat : Times]
         /\ resumes' \in 0 .. MaxResumes
<1> USE HeartbeatAssumption DEF TypeOK, Setting
<1>1. \A b \in BOOLEAN, h \in HeartbeatModes :
        /\ [conf EXCEPT !.asleep = b] \in [asleep : BOOLEAN, heartbeat : HeartbeatModes, lastBeat : Times]
        /\ [conf EXCEPT !.heartbeat = h] \in [asleep : BOOLEAN, heartbeat : HeartbeatModes, lastBeat : Times]
  OBVIOUS
<1>2. {"on", "off", "over", "paused"} \subseteq HeartbeatModes
  BY DEF HeartbeatModes
<1>3. CASE SleepAgent \/ WakeAgent
  BY <1>1, <1>3 DEF SleepAgent, WakeAgent
<1>4. CASE EnableHeartbeat \/ DisableHeartbeat \/ PauseHeartbeat \/ BudgetMoves
  BY <1>1, <1>2, <1>4 DEF EnableHeartbeat, DisableHeartbeat, PauseHeartbeat, BudgetMoves
<1>5. CASE ResumeInTui
  <2>1. NoTime \in Times
    BY DEF Times, NoTime
  <2>2. conf' \in [asleep : BOOLEAN, heartbeat : HeartbeatModes, lastBeat : Times]
    BY <1>2, <1>5, <2>1 DEF ResumeInTui
  <2> QED
    BY <1>5, <2>2 DEF ResumeInTui
<1> QED
  BY <1>3, <1>4, <1>5 DEF Settings

\* Every variable of the heartbeat keeps its type; what a tick holds of a heartbeat, or of
\* a status, it holds only between the steps that need it.
THEOREM HeartbeatTypeCorrect == Spec => []TypeOK
<1> USE HeartbeatAssumption
<1>1. Init => TypeOK
  <2> SUFFICES ASSUME Init PROVE TypeOK
    OBVIOUS
  <2>1. /\ conf.asleep = FALSE /\ conf.heartbeat \in {"off", "on"} /\ conf.lastBeat = NoTime
        /\ conf = [asleep |-> conf.asleep, heartbeat |-> conf.heartbeat, lastBeat |-> conf.lastBeat]
    BY DEF Init
  <2>2. NoTime \in Times /\ clock \in 0 .. MaxTime
    BY DEF Init, Times, NoTime
  <2>3. conf \in [asleep : BOOLEAN, heartbeat : HeartbeatModes, lastBeat : Times]
    BY <2>1, <2>2 DEF HeartbeatModes
  <2>4. snap.lastBeat = NoTime /\ agent \in Idle /\ seen \in Detected
    BY DEF Init, NoSnap, Idle, Detected
  <2>5. /\ stops \in 0 .. MaxStops /\ resumes \in 0 .. MaxResumes /\ lost \in 0 .. stops /\ sent \in Nat
    BY DEF Init
  <2>6. /\ pc = "down" /\ beatTime = NoTime /\ status = NoStatus /\ wasGreen = FALSE /\ marker = "none"
        /\ known = "nothing" /\ mode \in Modes
    BY DEF Init
  <2> QED
    BY <2>2, <2>3, <2>4, <2>5, <2>6 DEF TypeOK
<1>2. TypeOK /\ [Next]_vars => TypeOK'
  <2> SUFFICES ASSUME TypeOK, [Next]_vars PROVE TypeOK'
    OBVIOUS
  <2>1. CASE UNCHANGED vars
    BY <2>1 DEF vars, envVars, memVars, histVars, TypeOK
  <2>2. CASE Elapse
    BY <2>2 DEF Elapse, TypeOK, memVars, histVars
  <2>3. CASE UserPrompts
    <3>1. PICK asleep \in {FALSE, conf.asleep} : conf' = [conf EXCEPT !.asleep = asleep]
      BY <2>3 DEF UserPrompts
    <3>2. asleep \in BOOLEAN
      BY <3>1 DEF TypeOK
    <3>3. conf' \in [asleep : BOOLEAN, heartbeat : HeartbeatModes, lastBeat : Times]
      BY <3>1, <3>2 DEF TypeOK
    <3> QED
      BY <2>3, <3>3 DEF UserPrompts, AgentUnchanged, TypeOK, memVars, Turn
  <2>4. CASE TurnGoesOn \/ \E to \in Ended : Ends(to)
    BY <2>4 DEF TurnGoesOn, Ends, AgentUnchanged, TypeOK, memVars, Turn, Idle, Ended
  <2>5. CASE Interrupt
    BY <2>5 DEF Interrupt, AgentUnchanged, TypeOK, memVars, Idle, Detected
  <2>6. CASE Shows
    BY <2>6 DEF Shows, ShownBy, AgentUnchanged, TypeOK, memVars, Idle, Turn, Ended, Detected
  <2>7. CASE Settings
    BY <2>7, SettingsTyped DEF TypeOK, envVars, memVars
  <2>8. CASE Starts \/ TickBegins
    BY <2>8 DEF Starts, TickBegins, DaemonUnchanged, TypeOK, memVars, histVars
  <2>9. CASE DaemonEnds
    <3>1. UNCHANGED <<agent, conf, sent, resumes>> /\ UNCHANGED <<mode, clock, seen>>
      BY <2>9 DEF DaemonEnds, DaemonUnchanged
    <3>2. stops' \in 0 .. MaxStops /\ lost' \in 0 .. stops'
      BY <2>9 DEF DaemonEnds, TypeOK
    <3>3. snap'.lastBeat \in Times /\ beatTime' \in Times
      BY <2>9 DEF DaemonEnds, NoSnap, Times, NoTime
    <3>4. pc' = "down" /\ known' = "nothing" /\ beatTime' = NoTime /\ status' = NoStatus /\ wasGreen' = FALSE /\ marker' = "none"
      BY <2>9 DEF DaemonEnds
    <3> QED
      BY <3>1, <3>2, <3>3, <3>4 DEF TypeOK
  <2>10. CASE CheckHeartbeat
    BY <2>10 DEF CheckHeartbeat, DaemonUnchanged, TypeOK, NoSnap, Times, NoTime, memVars, histVars
  <2>11. CASE SendHeartbeat \/ SendFails
    BY <2>11 DEF SendHeartbeat, SendFails, DaemonUnchanged, TypeOK, Times, NoTime, Turn, memVars, histVars
  <2>12. CASE RecordHeartbeat
    BY <2>12 DEF RecordHeartbeat, DaemonUnchanged, TypeOK, Times, NoTime, histVars
  <2>13. CASE Detect
    <3>1. SeenStatus \in Detected /\ NoStatus \notin Detected
      BY DEF SeenStatus, Detected, TypeOK, NoStatus
    <3> QED
      BY <2>13, <3>1 DEF Detect, DaemonUnchanged, TypeOK
  <2>14. CASE TrackStatus
    BY <2>14 DEF TrackStatus, DaemonUnchanged, TypeOK, NoStatus
  <2> QED
    BY <2>1, <2>2, <2>3, <2>4, <2>5, <2>6, <2>7, <2>8, <2>9, <2>10, <2>11, <2>12, <2>13, <2>14
    DEF Next, Tick, Heartbeats
<1> QED
  BY <1>1, <1>2, PTL DEF Spec

\* No reader takes a file to be longer than it is, or reads on from beyond its end.
THEOREM TimelineTypeCorrect == TimelineSpec => []TimelineTypeOK
<1> DEFINE Seen == time \in 0 .. LastTime /\ \A k \in HistoryThreads : reading[k].size \in 0 .. Len(log)
<1>1. TimelineInit => TimelineInv /\ Seen
  <2>1. TimelineInit => Seen
    BY TimelineAssumption, EmptySeq DEF TimelineInit, Waiting
  <2> QED
    BY <2>1, TimelineStarts
<1>2. TimelineInv /\ Seen /\ [TimelineNext]_timelineVars => TimelineInv' /\ Seen'
  <2> SUFFICES ASSUME TimelineInv, Seen, [TimelineNext]_timelineVars PROVE Seen'
    BY TimelineStep
  <2>1. Len(log) \in Nat /\ reading \in [HistoryThreads -> [at : {"idle", "stat"}, scope : Nat, size : Nat]]
    BY LogRows DEF TimelineInv, ReadingTyped
  <2>2. CASE LogAgentStatus
    <3>1. Len(log') = Len(log) + 1
      BY <2>2, AppendProperties DEF LogAgentStatus, TimelineInv, LogTyped, Row
    <3> QED
      BY <2>1, <2>2, <3>1 DEF LogAgentStatus
  <2>3. CASE ClockAdvances
    BY <2>3, TimelineAssumption DEF ClockAdvances
  <2>4. ASSUME NEW k \in HistoryThreads, NEW m \in 0 .. Len(log), reading'[k].size = m,
               \A j \in HistoryThreads \ {k} : reading'[j] = reading[j], UNCHANGED <<time, log>>
        PROVE  Seen'
    BY <2>4
  <2>5. ASSUME NEW k \in HistoryThreads, Stats(k) PROVE Seen'
    <3>1. Len(log) \in 0 .. Len(log) /\ UNCHANGED <<time, log>>
      BY <2>1, <2>5 DEF Stats
    <3>2. reading'[k].size = Len(log) /\ \A j \in HistoryThreads \ {k} : reading'[j] = reading[j]
      BY <2>1, <2>5 DEF Stats
    <3> HIDE DEF Seen
    <3> QED
      BY <2>4, <3>1, <3>2
  <2>6. ASSUME NEW k \in HistoryThreads, AnswersFromCache(k) \/ ReadsTail(k) \/ ReadsAll(k) \/ ReadFails(k)
        PROVE  Seen'
    <3>1. reading' = [reading EXCEPT ![k] = Waiting] /\ UNCHANGED <<time, log>>
      BY <2>6 DEF AnswersFromCache, ReadsTail, ReadsAll, ReadFails, Returns
    <3>2. reading'[k].size = 0 /\ \A j \in HistoryThreads \ {k} : reading'[j] = reading[j]
      BY <2>1, <3>1 DEF Waiting
    <3>3. 0 \in 0 .. Len(log)
      BY <2>1
    <3> HIDE DEF Seen
    <3> QED
      BY <2>4, <3>1, <3>2, <3>3
  <2>7. CASE UNCHANGED timelineVars
    BY <2>7 DEF timelineVars
  <2> HIDE DEF Seen
  <2> QED
    BY <2>2, <2>3, <2>5, <2>6, <2>7 DEF TimelineNext
<1>3. TimelineInv /\ Seen => TimelineTypeOK
  BY DEF TimelineInv, CacheTyped, TimelineTypeOK
<1> HIDE DEF Seen
<1> QED
  BY <1>1, <1>2, <1>3, PTL DEF TimelineSpec

\* The bounds of the ages are numbers, and an age does not pass its own.
LEMMA LongIs == \A x \in {"active", "tui", "asleep", "inactive", "beat", "last", "row", "silent"} : Long[x] \in Nat
  BY SpanIs DEF Long

LEMMA AgesStay ==
  ASSUME NEW x \in {"active", "tui", "asleep", "inactive", "beat", "last", "row", "silent"}
  PROVE  /\ 0 \in Ages(x) /\ NoTime \in Ages(x) /\ Long[x] \in Ages(x)
         /\ \A age \in Ages(x) : Older(age, x) \in Ages(x)
<1>1. Long[x] \in Nat
  BY LongIs
<1> QED
  BY <1>1 DEF Ages, Older, NoTime
\* No age passes the bound up to which ages are told apart, and no logger waits longer
\* than a sample, or is later than an awake machine lets it be.
THEOREM PresenceTypeCorrect == PresenceSpec => []PresenceTypeOK
<1> USE SpanIs
<1> DEFINE Wait == -MaxLate .. Sample
           Loop == [at : {"off", "logs", "failed"}, wait : Wait, last : Ages("last")]
           Ago4 == [active : Ages("active"), tui : Ages("tui"), asleep : Ages("asleep"), inactive : Ages("inactive")]
           AllTyped == PresenceTypeOK /\ ago \in Ago4
<1>0. /\ 0 \in Wait /\ Sample \in Wait
      /\ \A x \in {"active", "tui", "asleep", "inactive", "beat", "last", "row", "silent"} :
           0 \in Ages(x) /\ NoTime \in Ages(x) /\ Long[x] \in Ages(x) /\ \A age \in Ages(x) : Older(age, x) \in Ages(x)
  BY AgesStay
<1>1. \A s \in {"off", "logs", "failed"} : [NotRunning EXCEPT !.at = s] \in Loop /\ NotRunning \in Loop
  BY <1>0 DEF NotRunning
<1>2. PresenceInit => AllTyped
  <2> SUFFICES ASSUME PresenceInit PROVE AllTyped
    OBVIOUS
  <2>1. ago \in Ago4 /\ row \in [age : Ages("row"), state : 0 .. 4] /\ beat \in Ages("beat")
    BY <1>0 DEF PresenceInit, AtComputer
  <2>2. logger \in [Loggers -> Loop]
    BY <1>1 DEF PresenceInit
  <2>3. silent \in [Daemons -> Ages("silent")] /\ published \in [Daemons -> 0 .. 4]
    BY <1>0 DEF PresenceInit, AtComputer
  <2>4. \A x \in DOMAIN ago : ago[x] \in Ages(x)
    BY <2>1
  <2> HIDE DEF Ago4
  <2> QED
    BY <2>1, <2>2, <2>3, <2>4 DEF PresenceInit, PresenceTypeOK, Things
<1>3. AllTyped /\ [PresenceNext]_presenceVars => AllTyped'
  <2> SUFFICES ASSUME AllTyped, [PresenceNext]_presenceVars PROVE AllTyped'
    OBVIOUS
  <2>1. /\ logger \in [Loggers -> Loop] /\ silent \in [Daemons -> Ages("silent")] /\ published \in [Daemons -> 0 .. 4]
        /\ row \in [age : Ages("row"), state : 0 .. 4] /\ ago \in Ago4 /\ beat \in Ages("beat")
        /\ doing \in Things /\ quartz \in BOOLEAN
    BY DEF PresenceTypeOK
  <2>2. ASSUME /\ logger' \in [Loggers -> Loop] /\ silent' \in [Daemons -> Ages("silent")]
               /\ published' \in [Daemons -> 0 .. 4]
               /\ row' \in [age : Ages("row"), state : 0 .. 4] /\ ago' \in Ago4 /\ beat' \in Ages("beat")
               /\ doing' \in Things /\ quartz' \in BOOLEAN
        PROVE  AllTyped'
    <3>1. \A x \in DOMAIN ago' : ago'[x] \in Ages(x)
      BY <2>2
    <3> HIDE DEF Ago4
    <3> QED
      BY <2>2, <3>1 DEF PresenceTypeOK
  <2> HIDE DEF AllTyped
  <2>3. \A locked, idle, slept, tui : Classified(locked, idle, slept, tui) \in 0 .. 4
    BY DEF Classified, AsleepState, LockedState, IdleState, AtComputer, InTui
  <2>4. ASSUME NEW l \in Loggers, LoggerStarts(l) \/ RowFails(l) \/ LoggerStops(l) PROVE AllTyped'
    <3>1. logger' \in [Loggers -> Loop]
      <4>1. PICK t \in Loop : logger' = [logger EXCEPT ![l] = t]
        BY <1>1, <2>4 DEF LoggerStarts, RowFails, LoggerStops
      <4> HIDE DEF Loop
      <4> QED
        BY <2>1, <4>1
    <3>2. silent' \in [Daemons -> Ages("silent")]
      BY <1>0, <2>1, <2>4 DEF LoggerStarts, RowFails, LoggerStops
    <3> QED
      BY <2>1, <2>2, <2>4, <3>1, <3>2 DEF LoggerStarts, RowFails, LoggerStops
  <2>5. ASSUME NEW l \in Loggers, AppendsRow(l) PROVE AllTyped'
    <3>1. logger' \in [Loggers -> Loop]
      <4>1. logger[l] \in Loop /\ Sample \in Wait /\ 0 \in Ages("last")
        BY <1>0, <2>1
      <4> HIDE DEF Wait
      <4>2. [logger[l] EXCEPT !.wait = Sample, !.last = 0] \in Loop
        BY <4>1
      <4> HIDE DEF Loop
      <4> QED
        BY <2>1, <2>5, <4>2 DEF AppendsRow
    <3>2. row' \in [age : Ages("row"), state : 0 .. 4]
      BY <1>0, <2>3, <2>5 DEF AppendsRow
    <3> QED
      BY <2>1, <2>2, <2>5, <3>1, <3>2 DEF AppendsRow
  <2>6. ASSUME NEW d \in Daemons, PublishesPresence(d) PROVE AllTyped'
    <3>1. silent' \in [Daemons -> Ages("silent")]
      BY <1>0, <2>1, <2>6 DEF PublishesPresence
    <3>2. published' \in [Daemons -> 0 .. 4]
      <4> DEFINE n == IF DetectsSleep(d) THEN AsleepState ELSE get_current_presence_state(TuiActive)
      <4>1. n \in 0 .. 4
        BY DEF get_current_presence_state, Classified, AsleepState, LockedState, IdleState, AtComputer, InTui
      <4>2. published' = [published EXCEPT ![d] = n]
        BY <2>6 DEF PublishesPresence
      <4> HIDE DEF n
      <4> QED
        BY <2>1, <4>1, <4>2
    <3> QED
      BY <2>1, <2>2, <2>6, <3>1, <3>2 DEF PublishesPresence
  <2>7. ASSUME NEW what \in Things, Passes(what) PROVE AllTyped'
    <3>1. ago' \in Ago4
      BY <1>0, <2>1, <2>7 DEF Passes
    <3>2. beat' \in Ages("beat") /\ row' \in [age : Ages("row"), state : 0 .. 4]
      BY <1>0, <2>1, <2>7 DEF Passes, WritesHeartbeat
    <3>3. silent' \in [Daemons -> Ages("silent")]
      BY <1>0, <2>1, <2>7 DEF Passes
    <3>4. ASSUME NEW l \in Loggers PROVE logger'[l] \in Loop
      <4>1. logger[l] \in Loop /\ Older(logger[l].last, "last") \in Ages("last")
        BY <1>0, <2>1
      <4>2. PICK w : /\ logger'[l] = [logger[l] EXCEPT !.last = Older(logger[l].last, "last"), !.wait = w]
                     /\ w = IF logger[l].at # "logs" \/ "asleep" \in {doing, what} THEN logger[l].wait ELSE logger[l].wait - 1
        BY <2>7 DEF Passes
      <4>3. w \in Wait
        <5>1. CASE logger[l].at # "logs" \/ "asleep" \in {doing, what}
          BY <4>1, <4>2, <5>1
        <5>2. CASE ~(logger[l].at # "logs" \/ "asleep" \in {doing, what})
          <6>1. InTime(l) /\ logger[l].wait \in Wait /\ w = logger[l].wait - 1
            BY <2>7, <4>1, <4>2, <5>2 DEF Passes
          <6> QED
            BY <5>2, <6>1 DEF InTime
        <5> QED
          BY <5>1, <5>2
      <4> HIDE DEF Wait
      <4> QED
        BY <4>1, <4>2, <4>3
    <3>5. logger' = [l \in Loggers |-> logger'[l]]
      BY <2>7 DEF Passes
    <3> HIDE DEF Loop
    <3>6. logger' \in [Loggers -> Loop]
      BY <3>4, <3>5
    <3> QED
      BY <2>1, <2>2, <2>7, <3>1, <3>2, <3>3, <3>6 DEF Passes
  <2>8. CASE UNCHANGED presenceVars
    BY <2>1, <2>2, <2>8 DEF presenceVars
  <2> QED
    BY <2>4, <2>5, <2>6, <2>7, <2>8 DEF PresenceNext, StartsWithDaemon, StartsByHand
<1>4. AllTyped => PresenceTypeOK
  OBVIOUS
<1> HIDE DEF AllTyped
<1> QED
  BY <1>2, <1>3, <1>4, PTL DEF PresenceSpec

-----------------------------------------------------------------------------
(* All parts together *)

\* In the behaviours that TLC runs each part behaves as its own specification has it.
LEMMA MonitorParts == MCSpec => Spec /\ TimeSpec /\ TimelineSpec /\ PaneInputSpec /\ PresenceSpec
<1> DEFINE all == <<part, vars, timeVars, otherVars>>
<1>1. MCInit => Init /\ TimeInit /\ TimelineInit /\ PaneInputInit /\ PresenceInit
  BY DEF MCInit
<1>2. [MCNext]_all =>
        /\ [Next]_vars /\ [TimeNext]_timeVars /\ [TimelineNext]_timelineVars
        /\ [PaneInputNext]_inputVars /\ [PresenceNext]_presenceVars
  BY DEF MCNext, otherVars
<1> QED
  BY <1>1, <1>2, PTL DEF MCSpec, Spec, TimeSpec, TimelineSpec, PaneInputSpec, PresenceSpec

\* What a run shows of a short day, of one pane and of few calls holds for a day of any
\* length, any number of panes and of calls.
THEOREM MonitorIsSafe ==
  MCSpec => /\ [](NoHeartbeatStorm /\ EverySecondOnce /\ ShownAddsUp /\ TimelineIsTrue
                    /\ UndisturbedTextArrives /\ PresenceIsTrue)
            /\ NoHeartbeatIntoKnownTurn
  BY MonitorParts, HeartbeatsPaced, KnownTurnUndisturbed, CountsOnce, ShownIsExact, TimelineTrue,
     TextArrives, PresenceTrue, PTL

\* Whatever part a behaviour shows, the types that the modules state of their variables hold.
THEOREM MonitorTypesCorrect == MCSpec => [](TypeOK /\ TimeTypeOK /\ TimelineTypeOK /\ PresenceTypeOK)
  BY MonitorParts, HeartbeatTypeCorrect, TimeTypeCorrect, TimelineTypeCorrect, PresenceTypeCorrect, PTL

=============================================================================
