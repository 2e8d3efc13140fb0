------------------------------ MODULE Presence -------------------------------
(***************************************************************************)
(* Whether the user is there: the loggers that each append a row to one    *)
(* csv file every sample, the presence that the monitor daemon publishes   *)
(* at each of its loops, and what the report takes from the rows.          *)
(* A logger learns of a sleeping machine only from the time that passed    *)
(* between two of its own rows, and of the TUI from a file with the time   *)
(* of the last key.                                                        *)
(* Time passes in ticks; instead of times the variables hold how many      *)
(* ticks ago something was, as far as that is told apart.  The reader's    *)
(* cache of the file is left out, and only the last row is kept: it is the *)
(* one the report finds for the present moment.                            *)
(***************************************************************************)
EXTENDS MonitorStatus

CONSTANTS
  Loggers,     \* the processes that may log
  Daemons,     \* those that are monitor daemons; the others are started by hand
  Sample,      \* ticks between two rows
  IdleAfter,   \* ticks without input that make the user idle
  Fresh,       \* ticks for which a key in the TUI counts
  PublishGap,  \* ticks between two loops of a daemon that are taken for sleep
  MaxLate      \* bound: ticks by which a row may be late

ASSUME PresenceAssumption ==
  /\ Daemons \subseteq Loggers
  /\ Sample \in Nat \ {0} /\ IdleAfter \in Nat /\ Fresh \in Nat
  /\ MaxLate \in 0 .. Sample /\ PublishGap \in Nat \ {0}

VARIABLES
  doing,       \* what was going on in the last tick
  ago,         \* how long ago it was: the user active, a key in the TUI, asleep, not active
  quartz,      \* whether the system tells of idleness and the lock
  beat,        \* age of the time in the heartbeat file of the TUI, or NoTime
  logger,      \* each logger's thread: [at, wait, last]
  row,         \* the last row: [age, state]
  silent,      \* age of each daemon's last published presence, or NoTime
  published    \* and what it was

presenceVars == <<doing, ago, quartz, beat, logger, row, silent, published>>

Things == {"tui", "input", "away", "locked", "asleep"}
Active == {"tui", "input"}

\* The states of the rows, as numbered there.
AsleepState == 0
LockedState == 1
IdleState == 2
AtComputer == 3
InTui == 4

\* The longest an awake machine leaves a logger without a row.
Span == Sample + MaxLate

\* bound: the ages that no comparison tells apart.
Long == [active |-> IdleAfter + Span + 1, tui |-> Fresh + Span + 1,
         asleep |-> 2 * Span + PublishGap + 2, inactive |-> 2 * Span + PublishGap + 2,
         beat |-> Fresh + 1, last |-> 2 * Sample + 1, row |-> Span + 1,
         silent |-> PublishGap + MaxLate + 1]

\* An age a tick later.
Older(age, of) == IF age \in {NoTime, Long[of]} THEN age ELSE age + 1

NotRunning == [at |-> "off", wait |-> 0, last |-> NoTime]

-----------------------------------------------------------------------------
(* What is measured *)

\* Seconds since the last input; without Quartz always 0.
get_idle_seconds == IF quartz THEN ago["active"] ELSE 0

is_screen_locked == quartz /\ doing = "locked"

\* Mutant: a row one sample after the last tells of sleep.
InfersSleepEarly(last) == last # NoTime /\ last > Sample

\* The first row of a logger has no earlier one.
InfersSleep(last) == last # NoTime /\ last > 2 * Sample

TuiActive == beat # NoTime /\ beat <= Fresh

\* Sleep goes before the lock, and that before idleness and the TUI.
Classified(locked, idle, slept, tui) ==
  CASE slept -> AsleepState
    [] ~slept /\ locked -> LockedState
    [] ~slept /\ ~locked /\ idle > IdleAfter -> IdleState
    [] OTHER -> IF tui THEN InTui ELSE AtComputer

\* Without a logger nothing is known of sleep.
get_current_presence_state(tui) == Classified(is_screen_locked, get_idle_seconds, FALSE, tui)

-----------------------------------------------------------------------------
(* Loggers *)

LoggerStarts(l) ==
  /\ logger[l].at = "off" /\ doing # "asleep"
  /\ logger' = [logger EXCEPT ![l] = [NotRunning EXCEPT !.at = "logs"]]
  /\ UNCHANGED <<doing, ago, quartz, beat, row, silent, published>>

\* A daemon's logger starts with its daemon.
StartsWithDaemon(l) == l \in Daemons /\ LoggerStarts(l)

\* One by hand is refused while another of that kind has its pid in the file.
StartsByHand(l) ==
  /\ l \notin Daemons /\ \A m \in Loggers \ Daemons : logger[m].at = "off"
  /\ LoggerStarts(l)

\* One round of the thread.  Only a daemon's logger knows a heartbeat file.
AppendsRow(l) ==
  /\ logger[l].at = "logs" /\ logger[l].wait <= 0 /\ doing # "asleep"
  /\ row' = [age |-> 0,
             state |-> Classified(is_screen_locked, get_idle_seconds,
                                  InfersSleep(logger[l].last), l \in Daemons /\ TuiActive)]
  /\ logger' = [logger EXCEPT ![l] = [@ EXCEPT !.wait = Sample, !.last = 0]]
  /\ UNCHANGED <<doing, ago, quartz, beat, silent, published>>

\* A row that cannot be written ends the thread; its process goes on.
RowFails(l) ==
  /\ logger[l].at = "logs" /\ logger[l].wait <= 0 /\ doing # "asleep"
  /\ logger' = [logger EXCEPT ![l] = [NotRunning EXCEPT !.at = "failed"]]
  /\ UNCHANGED <<doing, ago, quartz, beat, row, silent, published>>

\* The process ends; a daemon has stopped its logger before.
LoggerStops(l) ==
  /\ logger[l].at # "off"
  /\ logger' = [logger EXCEPT ![l] = NotRunning]
  /\ silent' = IF l \in Daemons THEN [silent EXCEPT ![l] = NoTime] ELSE silent
  /\ UNCHANGED <<doing, ago, quartz, beat, row, published>>

-----------------------------------------------------------------------------
(* The monitor daemon *)

DetectsSleep(d) == silent[d] # NoTime /\ silent[d] > PublishGap

\* A loop publishes the presence, whether its logger lives or not.
PublishesPresence(d) ==
  /\ logger[d].at # "off" /\ doing # "asleep" /\ silent[d] # 0
  /\ published' = [published EXCEPT ![d] =
       IF DetectsSleep(d)
       THEN AsleepState
       ELSE get_current_presence_state(TuiActive)]
  /\ silent' = [silent EXCEPT ![d] = 0]
  /\ UNCHANGED <<doing, ago, quartz, beat, logger, row>>

-----------------------------------------------------------------------------
(* Time *)

InTime(l) == logger[l].at = "logs" => logger[l].wait > -MaxLate
Looped(d) == logger[d].at # "off" => silent[d] \in 0 .. PublishGap - 1

\* What the TUI does at a key: the file gets the present time.
WritesHeartbeat(what) == IF what = "tui" THEN 0 ELSE Older(beat, "beat")

\* A tick.  A sleeping machine runs no thread, and the rest of their waits
\* is waited after it; while it is awake no row and no loop is later than
\* the bound.  It wakes within a tick.
Passes(what) ==
  /\ "asleep" \notin {doing, what} => (\A l \in Loggers : InTime(l)) /\ \A d \in Daemons : Looped(d)
  /\ doing' = what
  /\ ago' = [active |-> IF what \in Active THEN 0 ELSE Older(ago["active"], "active"),
             tui |-> IF what = "tui" THEN 0 ELSE Older(ago["tui"], "tui"),
             asleep |-> IF what = "asleep" THEN 0 ELSE Older(ago["asleep"], "asleep"),
             inactive |-> IF what \notin Active THEN 0 ELSE Older(ago["inactive"], "inactive")]
  /\ beat' = WritesHeartbeat(what)
  /\ logger' = [l \in Loggers |->
       [logger[l] EXCEPT !.last = Older(@, "last"),
                         !.wait = IF logger[l].at # "logs" \/ "asleep" \in {doing, what} THEN @ ELSE @ - 1]]
  /\ row' = [row EXCEPT !.age = Older(@, "row")]
  /\ silent' = [d \in Daemons |-> Older(silent[d], "silent")]
  /\ UNCHANGED <<quartz, published>>

-----------------------------------------------------------------------------

PresenceInit ==
  /\ doing = "away" /\ quartz \in BOOLEAN
  /\ ago = [active |-> Long.active, tui |-> Long.tui, asleep |-> Long.asleep, inactive |-> 0]
  /\ beat = NoTime /\ row = [age |-> Long.row, state |-> AtComputer]
  /\ logger = [l \in Loggers |-> NotRunning]
  /\ silent = [d \in Daemons |-> NoTime] /\ published = [d \in Daemons |-> AtComputer]

PresenceNext ==
  \/ \E l \in Loggers : StartsWithDaemon(l) \/ StartsByHand(l)
  \/ \E l \in Loggers : AppendsRow(l) \/ RowFails(l) \/ LoggerStops(l)
  \/ \E d \in Daemons : PublishesPresence(d)
  \/ \E what \in Things : Passes(what)

PresenceSpec == PresenceInit /\ [][PresenceNext]_presenceVars

-----------------------------------------------------------------------------
(* Properties *)

Ages(of) == 0 .. Long[of] \cup {NoTime}

PresenceTypeOK ==
  /\ doing \in Things /\ quartz \in BOOLEAN /\ beat \in Ages("beat")
  /\ \A x \in DOMAIN ago : ago[x] \in Ages(x)
  /\ logger \in [Loggers -> [at: {"off", "logs", "failed"}, wait: -MaxLate .. Sample, last: Ages("last")]]
  /\ row \in [age: Ages("row"), state: 0 .. 4]
  /\ silent \in [Daemons -> Ages("silent")] /\ published \in [Daemons -> 0 .. 4]

\* The report counts the present moment as present or away by the last row.
CountsPresent == row.state >= AtComputer

\* A recent row is right about the user, whichever logger wrote it, also
\* after sleep, with late rows and loggers that end and start again: nobody
\* idle for long is counted present, nobody busy for long away; the TUI is
\* named only after a key in it, and sleep only after sleep.  The same holds
\* of what a daemon publishes.
PresenceIsTrue ==
  /\ row.age <= Span =>
       /\ row.state = InTui => ago["tui"] <= Fresh + Span
       /\ row.state = AsleepState => ago["asleep"] <= 2 * Span + 1
       /\ quartz /\ CountsPresent => ago["active"] <= IdleAfter + Span
       /\ ago["inactive"] > 2 * Span + 1 => CountsPresent
  /\ \A d \in Daemons : silent[d] \in 0 .. MaxLate =>
       /\ published[d] = InTui => ago["tui"] <= Fresh + MaxLate
       /\ published[d] = AsleepState => ago["asleep"] <= PublishGap + MaxLate
       /\ ago["inactive"] > PublishGap + MaxLate => published[d] >= AtComputer
=============================================================================
