----------------------------- MODULE Summariser ------------------------------
(***************************************************************************)
(* The summariser of the TUI: every five seconds a thread looks whether    *)
(* the pane of an agent has changed and asks a paid service for two        *)
(* summaries of it, one of the current activity, one of the task.  A       *)
(* thread that waits for the service is not stopped by the next, so rounds *)
(* overlap; meanwhile keys are pressed and the summariser is switched off  *)
(* and on.  Shown is one agent; costs are counted in units of the dearest  *)
(* call, so that a call adds one or nothing.                               *)
(***************************************************************************)
EXTENDS Naturals, FiniteSets

CONSTANTS
  Rounds,   \* threads that may be under way at a time
  Cap,      \* cost_cap
  MaxPanes, \* bound on the changes of the pane
  MaxPauses \* bound on failed calls, idle spells and switches together

ASSUME SummariserAssumption ==
  IsFiniteSet(Rounds) /\ Cap \in Nat \ {0} /\ MaxPanes \in Nat /\ MaxPauses \in Nat

VARIABLES
  on,         \* _summarizer.config.enabled
  client,     \* _summarizer._client is there
  paused,     \* _summarizer_idle_paused
  halted,     \* cost_cap_hit
  idle,       \* no key was pressed for idle_timeout
  cost,       \* total_cost_usd
  pane,       \* what the pane shows
  hashed,     \* _last_content_hash of the agent
  shortDue,   \* interval has passed since _last_update
  contextDue, \* context_interval has passed since _last_context_update
  summary,    \* the panes that summary.text and summary.context describe
  shownContext, \* the pane that the row's summary of the task describes
  round,      \* the threads
  pauses

sumVars == <<on, client, paused, halted, idle, cost, pane, hashed, shortDue, contextDue,
             summary, shownContext, round, pauses>>

Resting == [at |-> "rest", seen |-> 0, due |-> FALSE]

NoPane == MaxPanes + 1

Halt == on' = FALSE /\ client' = FALSE

-----------------------------------------------------------------------------
(* The rounds *)

\* _update_summaries_async begins: nobody looks, or it has cost too much.
PausesIdle(k) ==
  /\ round[k].at = "rest" /\ on /\ client /\ idle
  /\ paused' = TRUE /\ Halt
  /\ UNCHANGED <<halted, idle, cost, pane, hashed, shortDue, contextDue, summary, shownContext,
                 round, pauses>>

\* Mutant: the cap is met only exactly.
CapMet == cost = Cap

CapReached == cost >= Cap

HaltsAtCap(k) ==
  /\ round[k].at = "rest" /\ on /\ client /\ ~idle /\ CapReached
  /\ halted' = TRUE /\ Halt
  /\ UNCHANGED <<paused, idle, cost, pane, hashed, shortDue, contextDue, summary, shownContext,
                 round, pauses>>

StartsRound(k) ==
  /\ round[k].at = "rest" /\ on /\ client /\ ~idle /\ ~CapReached
  /\ round' = [round EXCEPT ![k].at = "begun"]
  /\ UNCHANGED <<on, client, paused, halted, idle, cost, pane, hashed, shortDue, contextDue,
                 summary, shownContext, pauses>>

\* Mutant: nothing is summarised anew while the pane stands still.
WorthwhileIfChanged == shortDue /\ hashed # pane

\* A pane that has not changed gets no summary of the activity, but one of the task.
Worthwhile == (shortDue /\ hashed # pane) \/ contextDue

\* _update_session: what is due, and what has changed.
Looks(k) ==
  /\ round[k].at = "begun"
  /\ LET changed == hashed # pane IN
     IF client /\ Worthwhile
     THEN /\ hashed' = pane
          /\ round' = [round EXCEPT ![k] =
               [at |-> IF shortDue /\ changed THEN "short" ELSE "context",
                seen |-> pane, due |-> contextDue]]
     ELSE round' = [round EXCEPT ![k].at = "apply"] /\ UNCHANGED hashed
  /\ UNCHANGED <<on, client, paused, halted, idle, cost, pane, shortDue, contextDue, summary,
                 shownContext, pauses>>

\* A call without a client raises; one whose client has gone meanwhile is not
\* counted; one that fails counts as an update all the same.
Asks(k, kind) ==
  /\ round[k].at = kind
  /\ round' = [round EXCEPT ![k].at = IF kind = "short" /\ round[k].due THEN "context" ELSE "apply"]
  /\ \E answer \in {"answered", "failed", "raised"} :
       /\ answer = "raised" => ~client
       /\ pauses' = IF answer = "failed" THEN pauses + 1 ELSE pauses
       /\ answer = "failed" => pauses < MaxPauses
       /\ summary' = IF answer = "answered" THEN [summary EXCEPT ![kind] = round[k].seen] ELSE summary
       /\ cost' \in IF answer = "answered" /\ client THEN {cost, cost + 1} ELSE {cost}
       /\ shortDue' = (shortDue /\ (answer = "raised" \/ kind # "short"))
       /\ contextDue' = (contextDue /\ (answer = "raised" \/ kind # "context"))
  /\ UNCHANGED <<on, client, paused, halted, idle, pane, hashed, shownContext>>

\* _apply_summaries, on the main thread: the summaries as they are by then.
ApplySummaries(k) ==
  /\ round[k].at = "apply"
  /\ shownContext' = summary["context"]
  /\ round' = [round EXCEPT ![k] = Resting]
  /\ UNCHANGED <<on, client, paused, halted, idle, cost, pane, hashed, shortDue, contextDue,
                 summary, pauses>>

RoundStep(k) ==
  PausesIdle(k) \/ HaltsAtCap(k) \/ StartsRound(k) \/ Looks(k)
  \/ Asks(k, "short") \/ Asks(k, "context") \/ ApplySummaries(k)

-----------------------------------------------------------------------------
(* Time, the agent and the user *)

IntervalPasses ==
  /\ ~shortDue /\ shortDue' = TRUE
  /\ UNCHANGED <<on, client, paused, halted, idle, cost, pane, hashed, contextDue, summary,
                 shownContext, round, pauses>>

ContextIntervalPasses ==
  /\ ~contextDue /\ contextDue' = TRUE
  /\ UNCHANGED <<on, client, paused, halted, idle, cost, pane, hashed, shortDue, summary,
                 shownContext, round, pauses>>

PaneChanges ==
  /\ pane < MaxPanes /\ pane' = pane + 1
  /\ UNCHANGED <<on, client, paused, halted, idle, cost, hashed, shortDue, contextDue, summary,
                 shownContext, round, pauses>>

UserLeaves ==
  /\ ~idle /\ idle' = TRUE
  /\ pauses < MaxPauses /\ pauses' = pauses + 1
  /\ UNCHANGED <<on, client, paused, halted, cost, pane, hashed, shortDue, contextDue, summary,
                 shownContext, round>>

\* on_key, at any key.
KeyPressed ==
  /\ idle \/ paused
  /\ idle' = FALSE
  /\ IF paused /\ ~halted
     THEN paused' = FALSE /\ on' = TRUE /\ client' = TRUE
     ELSE UNCHANGED <<paused, on, client>>
  /\ UNCHANGED <<halted, cost, pane, hashed, shortDue, contextDue, summary, shownContext, round, pauses>>

\* action_toggle_summarizer: after the cap only a new TUI switches it on.
Toggles ==
  /\ on \/ ~halted
  /\ on' = ~on /\ client' = ~on
  /\ shownContext' = IF on THEN NoPane ELSE shownContext
  /\ pauses < MaxPauses /\ pauses' = pauses + 1
  /\ UNCHANGED <<paused, halted, idle, cost, pane, hashed, shortDue, contextDue, summary, round>>

SumInit ==
  /\ on = FALSE /\ client = FALSE /\ paused = FALSE /\ halted = FALSE /\ idle = FALSE
  /\ cost = 0 /\ pane = 0 /\ hashed = NoPane /\ shortDue = TRUE /\ contextDue = TRUE
  /\ summary = [kind \in {"short", "context"} |-> NoPane] /\ shownContext = NoPane
  /\ round = [k \in Rounds |-> Resting] /\ pauses = 0

SumNext ==
  \/ \E k \in Rounds : RoundStep(k)
  \/ IntervalPasses \/ ContextIntervalPasses \/ PaneChanges
  \/ UserLeaves \/ KeyPressed \/ Toggles

SumSpec == SumInit /\ [][SumNext]_sumVars

\* The timer starts rounds for ever, a call ends (at the latest by its
\* timeout), the main thread applies, and time passes.
SumFairness ==
  /\ \A k \in Rounds : WF_sumVars(RoundStep(k))
  /\ WF_sumVars(IntervalPasses) /\ WF_sumVars(ContextIntervalPasses)

-----------------------------------------------------------------------------
(* Properties *)

SumTypeOK ==
  /\ cost \in Nat /\ pane \in 0 .. MaxPanes
  /\ hashed \in 0 .. NoPane /\ shownContext \in 0 .. NoPane
  /\ \A k \in Rounds : round[k].at \in {"rest", "begun", "short", "context", "apply"}

\* The recorded cost passes the cap by no more than the rounds that were under
\* way can still spend: two calls each, however the summariser was paused,
\* resumed, switched off and on meanwhile.
SpendingIsBounded == cost <= Cap - 1 + 2 * Cardinality(Rounds)

\* Within that bound, and while the summariser stays on, the row comes to tell
\* the task of what the pane shows, also if the pane stopped between the two
\* summaries, a call failed, or the threads overtook each other.
SummariesCatchUpWithinCap ==
  []SpendingIsBounded /\ (<>[](on /\ ~idle) => <>[](shownContext = pane))
=============================================================================
