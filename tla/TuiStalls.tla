------------------------------ MODULE TuiStalls ------------------------------
(***************************************************************************)
(* One agent as the TUI sees it four times a second: a worker fetches the  *)
(* status, from the pane if the agent is selected and else from the        *)
(* monitor daemon, the main thread applies it, tells a stall from a        *)
(* flicker, rings the bell of the row and queues a notification.           *)
(*                                                                         *)
(* A status has a class: running is every green one, other stands for      *)
(* approval, error, heartbeat and oversight.  Time is counted in spans of  *)
(* which the code's 30 and 60 seconds are multiples.  Left out: the rest   *)
(* of what a tick draws, agents of sisters, the wording of notifications.  *)
(***************************************************************************)
EXTENDS Naturals

CONSTANTS
  StallAge,   \* spans a stall lasts before it is notified (30 s)
  WorkSpan,   \* spans of work that make the next stall a new one (60 s)
  MaxChanges  \* bound on what the agent, the daemon and the user do

ASSUME StallsAssumption ==
  /\ StallAge \in Nat /\ WorkSpan \in Nat \ {0} /\ MaxChanges \in Nat

VARIABLES
  paneClass,  \* what detect_status makes of the pane
  daemon,     \* the class the daemon published, or "stale"
  asleep,     \* session.is_asleep
  selected,   \* the agent is the selected one
  answer,     \* what a worker fetched and has not been applied, or "none"
  previous,   \* self._previous_statuses of the agent, or "none"
  bell,       \* widget.is_unvisited_stalled
  visited,    \* the agent is in prefs.visited_stalled_agents
  stallFor,   \* age of self._stall_start_times, or None
  workFor,    \* age of self._non_stall_since, or None
  notified,   \* the agent is in self._notified_stalls
  dismissing, \* a bell dismiss timer runs
  uptime,     \* since the agent was started
  notes,      \* notifications: queued, and whether one was sent in the last two seconds
  rested,     \* history: since the last notification the TUI saw WorkSpan of work on end
  greenFor,   \* history: how long the status applied has been green
  changes

stallVars == <<paneClass, daemon, asleep, selected, answer, previous, bell, visited, stallFor, workFor,
               notified, dismissing, uptime, notes, rested, greenFor, changes>>
worldVars == <<paneClass, daemon, asleep, selected, changes>>
memory == <<previous, bell, stallFor, workFor, notified, dismissing, notes>>
history == <<rested, greenFor>>

Seen == {"running", "waiting_user", "other", "asleep"}
None == WorkSpan + StallAge + 1  \* no time is recorded

\* Ages stop where no comparison tells them apart.
Older(age) == IF age < WorkSpan + StallAge THEN age + 1 ELSE age

-----------------------------------------------------------------------------
(* The agent, the daemon, the user *)

Change ==
  /\ changes < MaxChanges /\ changes' = changes + 1
  /\ UNCHANGED <<answer, previous, stallFor, workFor, notified, uptime, notes, history>>

PaneChanges ==
  /\ \E c \in {"running", "waiting_user", "other"} \ {paneClass} : paneClass' = c
  /\ Change /\ UNCHANGED <<daemon, asleep, selected, bell, visited, dismissing>>

\* The daemon lags behind: it may publish what is not so any more.
DaemonPublishes ==
  /\ \E c \in (Seen \cup {"stale"}) \ {daemon} : daemon' = c
  /\ Change /\ UNCHANGED <<paneClass, asleep, selected, bell, visited, dismissing>>

ToggleSleep ==
  /\ asleep' = ~asleep
  /\ Change /\ UNCHANGED <<paneClass, daemon, selected, bell, visited, dismissing>>

\* The row gets the focus: on_focus says that a bell was heard.
Select ==
  /\ selected' = ~selected
  /\ IF ~selected /\ bell THEN visited' = TRUE /\ bell' = FALSE /\ dismissing' = FALSE
     ELSE UNCHANGED <<bell, visited, dismissing>>
  /\ Change /\ UNCHANGED <<paneClass, daemon, asleep>>

\* The TUI is started anew; the preferences have survived.
TuiRestarts ==
  /\ previous # "none"
  /\ answer' = "none" /\ previous' = "none" /\ bell' = FALSE
  /\ stallFor' = None /\ workFor' = None /\ notified' = FALSE /\ dismissing' = FALSE
  /\ notes' = [queued |-> FALSE, recent |-> FALSE]
  /\ rested' = TRUE /\ greenFor' = 0
  /\ changes < MaxChanges /\ changes' = changes + 1
  /\ UNCHANGED <<paneClass, daemon, asleep, selected, visited, uptime>>

TimePasses ==
  /\ stallFor' = IF stallFor = None THEN None ELSE Older(stallFor)
  /\ workFor' = IF workFor = None THEN None ELSE Older(workFor)
  /\ uptime' = Older(uptime)
  /\ greenFor' = IF previous = "running" THEN Older(greenFor) ELSE 0
  /\ rested' = (rested \/ greenFor' >= WorkSpan)
  /\ notes' = [notes EXCEPT !.recent = FALSE]
  /\ UNCHANGED <<worldVars, answer, previous, bell, visited, notified, dismissing>>

-----------------------------------------------------------------------------
(* A status is fetched and applied *)

\* The agent that is selected keeps what its pane shows, except for heartbeats
\* and oversight, of which only the daemon knows.
Enriched ==
  IF daemon = "stale" THEN IF asleep THEN "asleep" ELSE paneClass
  ELSE IF ~selected THEN daemon
  ELSE IF daemon = "other" /\ paneClass # "running" THEN "other" ELSE paneClass

FetchStatus ==
  /\ answer = "none"
  /\ answer' = Enriched
  /\ UNCHANGED <<worldVars, memory, visited, uptime, history>>

IsNewStall == answer = "waiting_user" /\ previous \in {"running", "none"}

\* Mutant: a flicker counts as work.
GenuineWithoutDebounce == IsNewStall

\* A new stall after a minute of work, or the first thing the TUI sees.
Genuine == IsNewStall /\ (previous = "none" \/ workFor = None \/ workFor >= WorkSpan)

\* flush, at the end of every tick: not two within two seconds.
Flushed(queued) ==
  IF queued /\ ~notes.recent THEN [queued |-> FALSE, recent |-> TRUE]
  ELSE [notes EXCEPT !.queued = queued]

StallForNext ==
  IF answer = "running" THEN None
  ELSE IF Genuine \/ (IsNewStall /\ stallFor = None) THEN 0 ELSE stallFor

\* Mutant: the age is compared for equality, and a tick comes late.
SendsOnTheDot ==
  /\ answer = "waiting_user" /\ ~asleep
  /\ Genuine \/ ~notified
  /\ StallForNext = StallAge /\ uptime >= WorkSpan

\* should_send_stall_notification, for what this tick has recorded.
Sends ==
  /\ answer = "waiting_user" /\ ~asleep
  /\ Genuine \/ ~notified
  /\ StallForNext # None /\ StallForNext >= StallAge /\ uptime >= WorkSpan

\* _apply_status_results.  The bell is computed before the visit is forgotten.
ApplyStatus ==
  /\ answer # "none"
  /\ previous' = answer /\ answer' = "none"
  /\ bell' = (answer = "waiting_user" /\ ~visited /\ ~asleep)
  /\ visited' = (visited /\ ~Genuine)
  /\ stallFor' = StallForNext
  /\ workFor' = IF answer = "running" THEN IF previous = "running" THEN workFor ELSE 0
                ELSE IF answer = "waiting_user" THEN None ELSE workFor
  /\ notified' = (Sends \/ (notified /\ ~Genuine))
  /\ dismissing' = IF bell' /\ selected THEN TRUE ELSE IF bell' THEN dismissing ELSE FALSE
  /\ notes' = Flushed(notes.queued \/ Sends)
  /\ rested' = (rested /\ ~Sends)
  /\ greenFor' = IF answer = "running" THEN greenFor ELSE 0
  /\ UNCHANGED <<worldVars, uptime>>

\* Five seconds after the bell rang on the agent that is being viewed.
DismissBell ==
  /\ dismissing /\ dismissing' = FALSE
  /\ IF selected THEN visited' = TRUE /\ bell' = FALSE ELSE UNCHANGED <<visited, bell>>
  /\ UNCHANGED <<worldVars, answer, previous, stallFor, workFor, notified, uptime, notes, history>>

-----------------------------------------------------------------------------

StallInit ==
  /\ paneClass \in {"running", "waiting_user"} /\ daemon = "stale" /\ asleep = FALSE /\ selected = FALSE
  /\ answer = "none" /\ previous = "none" /\ bell = FALSE /\ visited \in BOOLEAN
  /\ stallFor = None /\ workFor = None /\ notified = FALSE /\ dismissing = FALSE
  /\ uptime = 0 /\ notes = [queued |-> FALSE, recent |-> FALSE]
  /\ rested = TRUE /\ greenFor = 0 /\ changes = 0

StallNext ==
  \/ PaneChanges \/ DaemonPublishes \/ ToggleSleep \/ Select \/ TuiRestarts
  \/ TimePasses \/ FetchStatus \/ ApplyStatus \/ DismissBell

StallSpec == StallInit /\ [][StallNext]_stallVars

StallFairness == WF_stallVars(FetchStatus) /\ WF_stallVars(ApplyStatus) /\ WF_stallVars(TimePasses)

-----------------------------------------------------------------------------
(* Properties *)

StallTypeOK ==
  /\ answer \in Seen \cup {"none"} /\ previous \in Seen \cup {"none"}
  /\ {stallFor, workFor, uptime} \subseteq 0..None
  /\ \A b \in {bell, visited, notified, dismissing, rested} : b \in BOOLEAN

\* A second notification about an agent comes only after a minute of work on
\* end, as the TUI saw it: flickers, a daemon that lags, a change of the
\* selection and bells that were heard do not make it nag.
NoNagging == [][~notified /\ notified' => rested]_stallVars

\* A stall the TUI has begun to count is told: an agent that goes on waiting
\* awake is notified, and its bell rings until it was visited.
StallIsTold ==
  <>[](previous = "waiting_user" /\ ~asleep /\ stallFor # None)
    => <>[](notified /\ (bell \/ visited))

\* An alert comes for each stall, and once.
StallsAreToldOnce == NoNagging /\ StallIsTold
=============================================================================
