----------------------------- MODULE Heartbeat -------------------------------
(***************************************************************************)
(* The heartbeat of one agent through the ticks of the monitor daemon, and *)
(* everybody who acts between two steps of a tick: the agent, its user,    *)
(* the CLI, the TUI and the web that change settings, a daemon that ends   *)
(* and is started again.                                                   *)
(*                                                                         *)
(* A tick does the same for each session and compares no two of them.  A   *)
(* locked update of sessions.json is one step.  Times are seconds since    *)
(* start_time.  The time totals are in TimeTracking, the persisted status  *)
(* in Oversight; what the daemon derives and only shows (activity, costs,  *)
(* skills, process resources, status history) is left out.                 *)
(***************************************************************************)
EXTENDS Integers, MonitorStatus

CONSTANTS
  Modes,       \* the detection modes considered
  Frequency,   \* heartbeat_frequency_seconds
  MaxTime,     \* bound on the clock
  MaxStops,    \* bound on the number of times the daemon ends
  MaxResumes   \* bound on the resumes that clear last_heartbeat_time

ASSUME HeartbeatAssumption ==
  /\ Modes \subseteq {"hooks", "polling"}
  /\ Frequency \in Nat \ {0}
  /\ MaxTime \in Nat
  /\ MaxStops \in Nat
  /\ MaxResumes \in Nat

VARIABLES
  mode,      \* the detection mode
  clock,     \* now
  agent,     \* what the process in the agent's window does
  seen,      \* what the pane, or the last hook event, shows of it
  conf,      \* sessions.json: is_asleep, the heartbeat, last_heartbeat_time
  pc,        \* where the daemon is in its tick; "down" if it does not run
  snap,      \* the tick's copy of conf; of use for the heartbeat only
  beatTime,  \* `now' of check_and_send_heartbeats
  status,    \* the status detected in this tick
  wasGreen,  \* previous_states: the effective status of the last tick was green
  marker,    \* the session's place in _sessions_running_from_heartbeat: "none",
             \* "running", or "pending" if it is in _heartbeat_start_pending, too
  stops,     \* history: how often the daemon ended
  sent,      \* history: heartbeats typed into the window
  resumes,   \* history: resumes that cleared last_heartbeat_time
  lost,      \* history: heartbeats that were sent but not recorded
  known      \* history: what the daemon knows since its last detection: "turn": the
             \* agent runs in its current turn, and was not asleep; "end": Claude has
             \* left; or "nothing"

envVars == <<mode, clock, agent, seen>>
memVars == <<wasGreen, marker>>
histVars == <<stops, sent, resumes, lost, known>>
vars == <<envVars, conf, pc, snap, beatTime, status, memVars, histVars>>

Times == NoTime .. MaxTime

Idle == {"idle", "interrupted"}       \* at its prompt; "interrupted": no Stop hook came
Turn == {"working", "sleeping"}       \* "sleeping": in a bash `sleep'
Ended == {"shell", "gone"}            \* Claude has left: a shell prompt, or no window

Detected == {"running", "busy_sleeping", "waiting", "terminated"}

\* "over": on, but the cost budget is exceeded.
HeartbeatModes == {"off", "on", "over", "paused"}
NoSnap == [asleep |-> FALSE, heartbeat |-> "off", lastBeat |-> NoTime]

Init ==
  /\ mode \in Modes
  /\ clock = 0
  /\ agent = "idle"
  /\ seen = "waiting"
  /\ conf \in [asleep : {FALSE}, heartbeat : {"off", "on"}, lastBeat : {NoTime}]
  /\ pc = "down"
  /\ snap = NoSnap
  /\ beatTime = NoTime
  /\ status = NoStatus
  /\ wasGreen = FALSE
  /\ marker = "none"
  /\ stops = 0 /\ sent = 0 /\ resumes = 0 /\ lost = 0
  /\ known = "nothing"

-----------------------------------------------------------------------------
(* The agent and its user *)

AgentUnchanged == UNCHANGED <<mode, clock, pc, snap, beatTime, status, memVars, stops, sent, resumes, lost>>

Elapse ==
  /\ clock < MaxTime
  /\ clock' = clock + 1
  /\ UNCHANGED <<mode, agent, seen, conf, pc, snap, beatTime, status, memVars, histVars>>

\* A prompt that comes through overcode wakes the agent; one that is typed
\* into the window does not.
UserPrompts ==
  /\ agent \in Idle
  /\ agent' = "working"
  /\ known' = "nothing"
  /\ \E asleep \in {FALSE, conf.asleep} : conf' = [conf EXCEPT !.asleep = asleep]
  /\ UNCHANGED seen
  /\ AgentUnchanged

TurnGoesOn ==
  /\ agent \in Turn
  /\ agent' \in (Turn \cup {"idle"}) \ {agent}
  /\ known' = IF agent' = "idle" THEN "nothing" ELSE known
  /\ UNCHANGED <<conf, seen>>
  /\ AgentUnchanged

\* Escape: the pane shows the interrupt prompt, and no hook tells of it.  The
\* hook detector looks at the pane for what it takes to be running only.
Interrupt ==
  /\ agent \in Turn
  /\ agent' = "interrupted"
  /\ known' = "nothing"
  /\ seen' = IF mode = "polling" THEN "waiting"
             ELSE CASE seen = "running" -> "interrupted"
                    [] seen = "unlisted" -> "waiting"
                    [] OTHER -> seen
  /\ UNCHANGED conf
  /\ AgentUnchanged

Ends(to) ==
  /\ agent # "gone" /\ agent # to
  /\ agent' = to
  /\ known' = "nothing"
  /\ UNCHANGED <<conf, seen>>
  /\ AgentUnchanged

\* What the pane, or the hook file, can come to show.  "unlisted": a hook
\* event of a running agent that check_and_send_heartbeats does not list.
ShownBy(a) ==
  CASE a \in Ended -> {"terminated"}
    [] a = "sleeping" -> {"busy_sleeping"}
    [] a = "working" -> IF mode = "hooks" THEN {"running", "unlisted"} ELSE {"running"}
    [] a = "idle" -> {"waiting"}
    [] a = "interrupted" -> IF mode = "hooks" THEN {} ELSE {"waiting"}

Shows ==
  /\ seen' \in ShownBy(agent) \ {seen}
  /\ UNCHANGED <<agent, conf, known>>
  /\ AgentUnchanged

ShowsIdle == agent = "idle" /\ Shows

-----------------------------------------------------------------------------
(* Settings, from the CLI, the TUI and the web *)

Setting(c) ==
  /\ conf' = c /\ c # conf
  /\ UNCHANGED <<envVars, pc, snap, beatTime, status, memVars, stops, sent, lost, known>>

SeenStatus ==
  CASE seen = "unlisted" -> "running"
    [] seen = "interrupted" -> "waiting"
    [] OTHER -> seen

\* Refused for a running agent, too; but that is judged by what the TUI
\* detected, or the daemon wrote, some time ago, and is left open here.
SleepAgent ==
  /\ conf.heartbeat \notin {"on", "over"}
  /\ Setting([conf EXCEPT !.asleep = TRUE])
  /\ UNCHANGED resumes

WakeAgent == Setting([conf EXCEPT !.asleep = FALSE]) /\ UNCHANGED resumes

\* `overcode heartbeat --enable' does not look whether the agent is asleep.
EnableHeartbeat ==
  /\ conf.heartbeat # "over"
  /\ Setting([conf EXCEPT !.heartbeat = "on"])
  /\ UNCHANGED resumes

DisableHeartbeat == Setting([conf EXCEPT !.heartbeat = "off"]) /\ UNCHANGED resumes

PauseHeartbeat ==
  /\ conf.heartbeat \in {"on", "over"}
  /\ Setting([conf EXCEPT !.heartbeat = "paused"])
  /\ UNCHANGED resumes

\* In the TUI.  Without last_heartbeat_time the next one is counted from start_time.
ResumeInTui ==
  /\ conf.heartbeat = "paused" /\ ~conf.asleep
  /\ resumes < MaxResumes
  /\ Setting([conf EXCEPT !.heartbeat = "on", !.lastBeat = NoTime])
  /\ resumes' = resumes + 1

\* Costs rise, or the operator raises the budget.
BudgetMoves ==
  /\ \/ conf.heartbeat = "on" /\ Setting([conf EXCEPT !.heartbeat = "over"])
     \/ conf.heartbeat = "over" /\ Setting([conf EXCEPT !.heartbeat = "on"])
  /\ UNCHANGED resumes

Settings ==
  \/ SleepAgent \/ WakeAgent \/ EnableHeartbeat \/ DisableHeartbeat
  \/ PauseHeartbeat \/ ResumeInTui \/ BudgetMoves

-----------------------------------------------------------------------------
(* The daemon *)

DaemonUnchanged == UNCHANGED <<mode, clock, seen>>

Starts ==
  /\ pc = "down"
  /\ pc' = "rest"
  /\ UNCHANGED <<agent, conf, snap, beatTime, status, memVars, histVars>>
  /\ DaemonUnchanged

\* It is stopped, crashes, or cannot write sessions.json; its memory is gone.
DaemonEnds ==
  /\ pc # "down" /\ stops < MaxStops
  /\ pc' = "down"
  /\ stops' = stops + 1
  /\ lost' = lost + (IF pc = "record" THEN 1 ELSE 0)
  /\ known' = "nothing"
  /\ beatTime' = NoTime /\ status' = NoStatus
  /\ wasGreen' = FALSE /\ marker' = "none"
  /\ snap' = NoSnap
  /\ UNCHANGED <<agent, conf, sent, resumes>>
  /\ DaemonUnchanged

TickBegins ==
  /\ pc = "rest"
  /\ pc' = "heartbeat"
  /\ snap' = conf
  /\ UNCHANGED <<agent, conf, beatTime, status, memVars, histVars>>
  /\ DaemonUnchanged

\* Mutant: the agent is not asked whether it ran at the last tick.
EligibleAlways(c) == c.heartbeat = "on" /\ ~c.asleep

\* is_heartbeat_eligible; the instruction is there when the heartbeat is on.
Eligible(c) == c.heartbeat = "on" /\ ~c.asleep /\ ~wasGreen

\* is_heartbeat_due
Due(c) == clock - (IF c.lastBeat = NoTime THEN 0 ELSE c.lastBeat) >= Frequency

\* The last hook event is UserPromptSubmit, PreToolUse or PostToolUse.
HooksSayBusy == mode = "hooks" /\ seen \in {"running", "busy_sleeping", "interrupted"}

CheckHeartbeat ==
  /\ pc = "heartbeat"
  /\ IF Eligible(snap) /\ Due(snap) /\ ~HooksSayBusy
     THEN pc' = "send" /\ beatTime' = clock
     ELSE pc' = "detect" /\ UNCHANGED beatTime
  /\ snap' = NoSnap
  /\ UNCHANGED <<agent, conf, status, memVars, histVars>>
  /\ DaemonUnchanged

\* The text is typed, with Enter, into whatever runs in the window.
SendHeartbeat ==
  /\ pc = "send" /\ agent # "gone"
  /\ pc' = "record"
  /\ sent' = sent + 1
  /\ agent' = IF agent \in Idle THEN "working" ELSE agent
  /\ known' = IF agent \in Idle THEN "nothing" ELSE known
  /\ UNCHANGED <<conf, snap, beatTime, status, memVars, stops, resumes, lost>>
  /\ DaemonUnchanged

SendFails ==
  /\ pc = "send" /\ agent = "gone"
  /\ pc' = "detect"
  /\ beatTime' = NoTime
  /\ UNCHANGED <<agent, conf, snap, status, memVars, histVars>>
  /\ DaemonUnchanged

\* Mutant: the time of the heartbeat is set in the tick's copy only.
RecordHeartbeatInCopy ==
  /\ pc = "record"
  /\ pc' = "detect"
  /\ beatTime' = NoTime
  /\ marker' = "pending"
  /\ UNCHANGED <<agent, conf, snap, status, wasGreen, histVars>>
  /\ DaemonUnchanged

RecordHeartbeat ==
  /\ pc = "record"
  /\ pc' = "detect"
  /\ conf' = [conf EXCEPT !.lastBeat = beatTime]
  /\ beatTime' = NoTime
  /\ marker' = "pending"
  /\ UNCHANGED <<agent, snap, status, wasGreen, histVars>>
  /\ DaemonUnchanged

Heartbeats == CheckHeartbeat \/ SendHeartbeat \/ SendFails \/ RecordHeartbeat

\* A status other than plain "running" ends what the heartbeat began.
Detect ==
  /\ pc = "detect"
  /\ pc' = "track"
  /\ status' = SeenStatus
  /\ marker' = IF SeenStatus = "running" THEN marker ELSE "none"
  /\ known' = CASE SeenStatus = "terminated" -> "end"
                [] SeenStatus = "running" /\ agent \in Turn -> "turn"
                [] OTHER -> "nothing"
  /\ UNCHANGED <<agent, conf, snap, beatTime, wasGreen, stops, sent, resumes, lost>>
  /\ DaemonUnchanged

\* Precedence: terminated, asleep, heartbeat variants, what was detected.
\* "waiting_heartbeat" covers all that is not plainly running.
EffectiveStatus ==
  CASE status = "terminated" -> "terminated"
    [] status # "terminated" /\ conf.asleep -> "asleep"
    [] status = "running" /\ ~conf.asleep /\ marker = "pending" -> "heartbeat_start"
    [] status = "running" /\ ~conf.asleep /\ marker = "running" -> "running_heartbeat"
    [] status \notin {"running", "terminated"} /\ ~conf.asleep /\ conf.heartbeat \in {"on", "over"} -> "waiting_heartbeat"
    [] OTHER -> status

\* Mutant: a green status is remembered, another is not.
TrackStatusOfGreen ==
  /\ pc = "track"
  /\ pc' = "rest"
  /\ wasGreen' = (wasGreen \/ EffectiveStatus \in Green)
  /\ marker' = IF EffectiveStatus = "heartbeat_start" THEN "running" ELSE marker
  /\ known' = IF known = "turn" /\ conf.asleep THEN "nothing" ELSE known
  /\ status' = NoStatus
  /\ UNCHANGED <<agent, conf, snap, beatTime, stops, sent, resumes, lost>>
  /\ DaemonUnchanged

\* The session is read again; its effective status is remembered and published.
TrackStatus ==
  /\ pc = "track"
  /\ pc' = "rest"
  /\ wasGreen' = (EffectiveStatus \in Green)
  /\ marker' = IF EffectiveStatus = "heartbeat_start" THEN "running" ELSE marker
  /\ known' = IF known = "turn" /\ conf.asleep THEN "nothing" ELSE known
  /\ status' = NoStatus
  /\ UNCHANGED <<agent, conf, snap, beatTime, stops, sent, resumes, lost>>
  /\ DaemonUnchanged

Tick == TickBegins \/ Heartbeats \/ Detect \/ TrackStatus

-----------------------------------------------------------------------------

Next ==
  \/ Elapse \/ UserPrompts \/ TurnGoesOn \/ Interrupt
  \/ \E to \in Ended : Ends(to)
  \/ Shows \/ Settings
  \/ Starts \/ DaemonEnds \/ Tick

Spec == Init /\ [][Next]_vars

\* The TUI starts the daemon that it finds missing, the daemon loops, and the
\* end of a turn is shown by the pane and told by the Stop hook.
FairSpec ==
  /\ Spec
  /\ WF_vars(Starts) /\ WF_vars(Tick)
  /\ WF_vars(ShowsIdle)

-----------------------------------------------------------------------------
(* Properties *)

TypeOK ==
  /\ mode \in Modes
  /\ clock \in 0 .. MaxTime
  /\ agent \in Idle \cup Turn \cup Ended
  /\ seen \in Detected \cup {"unlisted", "interrupted"}
  /\ conf \in [asleep : BOOLEAN, heartbeat : HeartbeatModes, lastBeat : Times]
  /\ pc \in {"down", "rest", "heartbeat", "send", "record", "detect", "track"}
  /\ snap.lastBeat \in Times
  /\ beatTime \in Times /\ (beatTime # NoTime <=> pc \in {"send", "record"})
  /\ status \in Detected \cup {NoStatus} /\ (status # NoStatus <=> pc = "track")
  /\ wasGreen \in BOOLEAN
  /\ marker \in {"none", "pending", "running"}
  /\ stops \in 0 .. MaxStops /\ resumes \in 0 .. MaxResumes /\ lost \in 0 .. stops
  /\ sent \in Nat
  /\ known \in {"turn", "end", "nothing"}

\* A heartbeat is typed first and recorded afterwards, from a copy of the
\* session.  All the same an agent gets no more than one per Frequency, but for
\* one after each crash between the two and one after each resume in the TUI.
NoHeartbeatStorm == sent <= (clock \div Frequency) + lost + resumes

\* monitor_daemon.py:552: "Sending a heartbeat into a running session corrupts
\* the prompt": a turn that the daemon found running, awake, at its last look
\* gets none, whatever is set or restarted in between.
NoHeartbeatIntoKnownTurn == [][sent' # sent => known # "turn"]_vars

Waits ==
  /\ agent = "idle" /\ conf.heartbeat = "on" /\ ~conf.asleep
  /\ Due(conf)

\* An agent at its prompt whose heartbeat is due gets it, or something else
\* happens to it: no stale status, hook event or lost memory blocks it for ever.
IdleIsPrompted == []<>~Waits

\* docs/advanced-features.md:71: "If the agent is idle and the heartbeat
\* interval has elapsed, the instruction is sent to the agent's tmux window":
\* so it is not typed into the shell of an agent that the daemon itself found
\* terminated at its last look.
TerminatedGetsNoHeartbeat == [][sent' # sent => known # "end"]_vars
=============================================================================
