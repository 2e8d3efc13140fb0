---------------------------- MODULE TimeTracking -----------------------------
(***************************************************************************)
(* How the monitor daemon splits the life of an agent into working,        *)
(* waiting and sleeping seconds.  The totals, and the moment up to which   *)
(* they count, are in sessions.json; the moment of the last observation    *)
(* and the last status are in memory and lost when the daemon ends.        *)
(*                                                                         *)
(* The daemon is the only writer of these fields and writes them in one    *)
(* locked update, so an observation is one step.  Times are whole seconds  *)
(* of the local clock, which can be set back, since start_time.  Which     *)
(* status is observed is up to the detector: any.                          *)
(***************************************************************************)
EXTENDS Integers, MonitorStatus

CONSTANTS
  MaxNow,    \* bound on the clock
  MaxBack,   \* bound on how often the clock is set back
  MaxEnds    \* bound on how often the daemon ends

ASSUME TimeAssumption == MaxNow \in Nat /\ MaxBack \in Nat /\ MaxEnds \in Nat

VARIABLES
  now,       \* datetime.now()
  stats,     \* sessions.json: the totals, last_time_accumulation, state_since, current_state
  up,        \* the daemon runs
  last,      \* last_state_times
  previous,  \* previous_states
  first,     \* history: where the accumulation began
  frozen,    \* history: seconds that passed while the agent was terminated
  backs,     \* history: how often the clock was set back
  ends       \* history: how often the daemon ended

memoryVars == <<last, previous>>
timeVars == <<now, stats, up, memoryVars, first, frozen, backs, ends>>

\* Two of a kind where it matters.
Statuses == {"running", "busy_sleeping", "waiting_user", "asleep", "terminated"}

NewStats == [green |-> 0, nonGreen |-> 0, sleep |-> 0,
             counted |-> NoTime, since |-> NoTime, state |-> NoStatus]

TimeInit ==
  /\ now = 0
  /\ stats = NewStats
  /\ up = FALSE
  /\ last = NoTime
  /\ previous = NoStatus
  /\ first = NoTime
  /\ frozen = 0 /\ backs = 0 /\ ends = 0

-----------------------------------------------------------------------------
(* calculate_time_accumulation *)

Total(t) == t.green + t.nonGreen + t.sleep

\* Where the elapsed seconds go: to the status that is observed at their end.
Added(t, status, elapsed) ==
  CASE status \in Green -> [t EXCEPT !.green = @ + elapsed]
    [] status = "asleep" -> [t EXCEPT !.sleep = @ + elapsed]
    [] status = "terminated" -> t
    [] OTHER -> [t EXCEPT !.nonGreen = @ + elapsed]

Least(a, b) == IF a < b THEN a ELSE b

\* A total that is more than a tenth above the uptime is scaled down to it;
\* then each part is cut to what is left.  (Fractions in the code.)
Capped(t, uptime) ==
  LET over == 10 * Total(t) > 11 * uptime
      Scaled(x) == IF over THEN (x * uptime) \div Total(t) ELSE x
      green == Least(Scaled(t.green), uptime)
      nonGreen == Least(Scaled(t.nonGreen), uptime - green)
  IN [t EXCEPT !.green = green, !.nonGreen = nonGreen,
               !.sleep = Least(Scaled(t.sleep), uptime - green - nonGreen)]

-----------------------------------------------------------------------------
(* _update_state_time *)

\* What a daemon that has just started takes for the last observation.
FirstObservation ==
  CASE stats.counted # NoTime -> stats.counted
    [] stats.counted = NoTime /\ stats.since # NoTime -> stats.since
    [] OTHER -> now

\* The first observation, and one at which the clock has not moved on, counts
\* nothing.  The effective status is remembered all the same.
Observe(status) ==
  /\ up
  /\ previous' = status
  /\ \/ /\ last = NoTime
        /\ last' = FirstObservation
        /\ UNCHANGED <<stats, first, frozen>>
     \/ /\ last # NoTime /\ now <= last
        /\ UNCHANGED <<last, stats, first, frozen>>
     \/ /\ last # NoTime /\ now > last
        /\ LET changed == previous \notin {NoStatus, status}
           IN stats' = [Capped(Added(stats, status, now - last), now)
                          EXCEPT !.counted = now, !.state = status,
                                 !.since = IF changed \/ stats.since = NoTime THEN now ELSE stats.since]
        /\ last' = now
        /\ first' = IF stats.counted = NoTime THEN last ELSE first
        /\ frozen' = frozen + (IF status = "terminated" THEN now - last ELSE 0)
  /\ UNCHANGED <<now, up, backs, ends>>

-----------------------------------------------------------------------------

Elapses ==
  /\ now < MaxNow
  /\ now' = now + 1
  /\ UNCHANGED <<stats, up, memoryVars, first, frozen, backs, ends>>

\* The end of daylight saving time, a correction by ntp; not before start_time.
ClockSetBack ==
  /\ now > 0 /\ backs < MaxBack
  /\ now' = now - 1
  /\ backs' = backs + 1
  /\ UNCHANGED <<stats, up, memoryVars, first, frozen, ends>>

StartTracking ==
  /\ ~up
  /\ up' = TRUE
  /\ UNCHANGED <<now, stats, memoryVars, first, frozen, backs, ends>>

StopTracking ==
  /\ up /\ ends < MaxEnds
  /\ up' = FALSE
  /\ ends' = ends + 1
  /\ last' = NoTime /\ previous' = NoStatus
  /\ UNCHANGED <<now, stats, first, frozen, backs>>

TimeNext ==
  \/ \E status \in Statuses : Observe(status)
  \/ Elapses \/ ClockSetBack \/ StartTracking \/ StopTracking

TimeSpec == TimeInit /\ [][TimeNext]_timeVars

-----------------------------------------------------------------------------
(* get_current_state_times: what the TUI shows between two observations *)

\* Mutant: from the beginning of the state on.
ShownAnchorSince == IF stats.since # NoTime THEN stats.since ELSE stats.counted

ShownAnchor == IF stats.counted # NoTime THEN stats.counted ELSE stats.since

\* `asleep' is the session's own flag, which the daemon may not have seen yet.
Shown(asleep) ==
  IF ShownAnchor # NoTime /\ now > ShownAnchor
  THEN Added(stats, IF asleep THEN "asleep" ELSE stats.state, now - ShownAnchor)
  ELSE stats

-----------------------------------------------------------------------------
(* Properties *)

TimeTypeOK ==
  /\ now \in Nat
  /\ stats \in [green : Nat, nonGreen : Nat, sleep : Nat,
                counted : Nat \cup {NoTime}, since : Nat \cup {NoTime},
                state : Statuses \cup {NoStatus}]
  /\ up \in BOOLEAN
  /\ last \in Nat \cup {NoTime}
  /\ previous \in Statuses \cup {NoStatus}
  /\ first \in Nat \cup {NoTime}
  /\ frozen \in Nat
  /\ backs \in 0 .. MaxBack
  /\ ends \in 0 .. MaxEnds

\* However often the daemon ends and starts, and the clock goes back, each
\* second from the first observation that counted to last_time_accumulation is
\* in exactly one of the three totals, or passed while the agent was
\* terminated.  So the cap, which would cut time that was counted, never does.
EverySecondOnce == stats.counted # NoTime => Total(stats) + frozen = stats.counted - first

\* What the TUI adds to the totals is what the daemon will add: together they
\* are the whole time up to now, whatever the session's asleep flag says.
ShownAddsUp ==
  \A asleep \in BOOLEAN :
    stats.counted # NoTime /\ now >= stats.counted /\ (asleep \/ stats.state # "terminated")
      => Total(Shown(asleep)) + frozen = now - first
=============================================================================
