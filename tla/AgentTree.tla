------------------------------ MODULE AgentTree ------------------------------
(***************************************************************************)
(* The agent hierarchy and its cost budgets: parent_session_id and         *)
(* cost_budget_usd in sessions.json, as launch, fork, kill, `budget set',  *)
(* `budget transfer', `budget reclaim' and the daemon's cost sync change   *)
(* them.  Each locked update of the registry is one step (StateFile shows  *)
(* why); what a command read before it took the lock is kept in arg.       *)
(*                                                                         *)
(* A budget of 0 means "unlimited".  Dollars are natural numbers.          *)
(***************************************************************************)
EXTENDS Integers, Sequences, FiniteSets, FiniteSetsExt, SequencesExt

CONSTANTS
  Agents,      \* session ids that may ever be created
  Clients,     \* CLI commands, TUI, web requests in progress
  NoParent,    \* parent_session_id is None
  MaxDepth,    \* MAX_HIERARCHY_DEPTH (5 in the code)
  Amounts,     \* dollar amounts that are asked for
  MaxSpent,    \* bound on the cost of one agent
  MaxMinted    \* bound on the dollars operators hand out

ASSUME AgentTreeAssumption ==
  /\ IsFiniteSet(Agents) /\ IsFiniteSet(Clients)
  /\ NoParent \notin Agents
  /\ MaxDepth \in Nat \ {0}
  /\ Amounts \subseteq Nat
  /\ MaxSpent \in Nat
  /\ MaxMinted \in Nat

VARIABLES
  live,     \* ids present in sessions.json
  born,     \* born[a]: how many sessions had been created before a
  parent,   \* parent[a]: parent_session_id
  budget,   \* budget[a]: cost_budget_usd
  spent,    \* spent[a]: stats.estimated_cost_usd
  pc,       \* pc[c]: where client c is in its command
  arg,      \* arg[c]: what it was asked and what it read
  minted    \* history: dollars handed out other than by moving them

vars == <<live, born, parent, budget, spent, pc, arg, minted>>

Unborn == Cardinality(Agents)
Created == {a \in Agents : born[a] # Unborn}

NoArg == [agent |-> NoParent, other |-> NoParent, amount |-> 0, todo |-> <<>>]

Init ==
  /\ live = {}
  /\ born = [a \in Agents |-> Unborn]
  /\ parent = [a \in Agents |-> NoParent]
  /\ budget = [a \in Agents |-> 0]
  /\ spent = [a \in Agents |-> 0]
  /\ pc = [c \in Clients |-> "idle"]
  /\ arg = [c \in Clients |-> NoArg]
  /\ minted = 0

-----------------------------------------------------------------------------
(* Reading the hierarchy *)

\* get_parent_chain: walk up while the parent is still registered, and stop
\* at an id that was visited before.
ParentChain(a) ==
  LET up[n \in 0 .. Cardinality(Agents)] ==
        IF n = 0 THEN <<a>>
        ELSE LET c == up[n - 1]
                 p == parent[Last(c)]
             IN IF p \in live /\ Last(c) \in live /\ ~Contains(c, p) THEN Append(c, p) ELSE c
  IN Tail(up[Cardinality(Agents)])

\* compute_depth
Depth(a) == Len(ParentChain(a))

IsAncestor(p, a) == a \in live /\ Contains(ParentChain(a), p)

GetChildren(a) == {b \in live : parent[b] = a}

\* get_descendants
GetDescendants(a) == {b \in live : IsAncestor(a, b)}

\* The ways to sort S by depth, deepest first.
DeepestFirst(S) ==
  {q \in SetToSeqs(S) : \A i, j \in DOMAIN q : i < j => Depth(q[i]) >= Depth(q[j])}

-----------------------------------------------------------------------------
(* Steps of a command *)

Idle(c) ==
  /\ pc' = [pc EXCEPT ![c] = "idle"]
  /\ arg' = [arg EXCEPT ![c] = NoArg]

Goto(c, to) == pc' = [pc EXCEPT ![c] = to]

Pending == MapThenSumSet(LAMBDA d : arg[d].amount, Clients)

Begin(c, to, agent, other, amount, todo) ==
  /\ pc[c] = "idle"
  /\ minted + Pending + amount <= MaxMinted
  /\ Goto(c, to)
  /\ arg' = [arg EXCEPT ![c] =
       [agent |-> agent, other |-> other, amount |-> amount, todo |-> todo]]

\* Dollars that come from an operator, or from an agent without a limit.
Mint(x) == minted' = minted + x

-----------------------------------------------------------------------------
(* launch and launch_fork *)

\* The parent is looked up and the depth limit enforced.
LaunchBegin(c, a, p, amount) ==
  /\ a \notin Created
  /\ \A d \in Clients : arg[d].agent # a
  /\ p # NoParent => p \in live /\ Depth(p) + 1 < MaxDepth
  /\ Begin(c, "create", a, p, amount, <<>>)
  /\ UNCHANGED <<live, born, parent, budget, spent, minted>>

\* create_session
LaunchCreate(c) ==
  /\ pc[c] = "create"
  /\ LET a == arg[c].agent IN
     /\ live' = live \cup {a}
     /\ born' = [born EXCEPT ![a] = Cardinality(Created)]
  /\ Goto(c, IF arg[c].other = NoParent THEN "grant" ELSE "adopt")
  /\ UNCHANGED <<parent, budget, spent, arg, minted>>

\* update_session(session.id, parent_session_id=parent_session.id)
LaunchAdopt(c) ==
  /\ pc[c] = "adopt"
  /\ LET a == arg[c].agent IN
     parent' = IF a \in live THEN [parent EXCEPT ![a] = arg[c].other] ELSE parent
  /\ Goto(c, "grant")
  /\ UNCHANGED <<live, born, budget, spent, arg, minted>>

\* The launch line could not be sent, or the session vanished meanwhile.
LaunchFails(c) ==
  /\ pc[c] = "grant"
  /\ live' = live \ {arg[c].agent}
  /\ Idle(c)
  /\ UNCHANGED <<born, parent, budget, spent, minted>>

\* Without a parent --budget is simply set; without --budget nothing is.
LaunchGrant(c) ==
  /\ pc[c] = "grant"
  /\ arg[c].agent \in live
  /\ arg[c].other = NoParent \/ arg[c].amount = 0
  /\ IF arg[c].amount > 0
     THEN /\ budget' = [budget EXCEPT ![arg[c].agent] = arg[c].amount]
          /\ Mint(arg[c].amount)
     ELSE UNCHANGED <<budget, minted>>
  /\ Idle(c)
  /\ UNCHANGED <<live, born, parent, spent>>

\* With a parent it goes through transfer_budget, whose first step looks at
\* the hierarchy without the lock.
LaunchTransfer(c) ==
  /\ pc[c] = "grant"
  /\ arg[c].agent \in live
  /\ arg[c].other # NoParent
  /\ arg[c].amount > 0
  /\ Goto(c, IF IsAncestor(arg[c].other, arg[c].agent) THEN "launch_transfer" ELSE "undo")
  /\ UNCHANGED <<live, born, parent, budget, spent, arg, minted>>

\* "parent has insufficient budget": delete_session
LaunchUndo(c) ==
  /\ pc[c] = "undo"
  /\ live' = live \ {arg[c].agent}
  /\ Idle(c)
  /\ UNCHANGED <<born, parent, budget, spent, minted>>

-----------------------------------------------------------------------------
(* transfer_budget, reclaim_budget, set_cost_budget *)

\* `budget transfer': the relation is validated without the lock.
TransferBegin(c, p, a, amount) ==
  /\ amount > 0
  /\ p \in live
  /\ IsAncestor(p, a)
  /\ Begin(c, "transfer", a, p, amount, <<>>)
  /\ UNCHANGED <<live, born, parent, budget, spent, minted>>

CanTransfer(c) ==
  /\ {arg[c].agent, arg[c].other} \subseteq live
  /\ budget[arg[c].other] > 0 => budget[arg[c].other] >= arg[c].amount

\* The locked half of transfer_budget: deduct unless unlimited, then add.
TransferLocked(c) ==
  /\ pc[c] \in {"transfer", "launch_transfer"}
  /\ CanTransfer(c)
  /\ LET p == arg[c].other
         deducted == [b \in Agents |-> IF b = p /\ budget[b] > 0 THEN budget[b] - arg[c].amount
                                       ELSE budget[b]]
     IN /\ budget' = [deducted EXCEPT ![arg[c].agent] = @ + arg[c].amount]
        /\ IF budget[p] = 0 THEN Mint(arg[c].amount) ELSE UNCHANGED minted
  /\ Idle(c)
  /\ UNCHANGED <<live, born, parent, spent>>

TransferRefused(c) ==
  /\ pc[c] \in {"transfer", "launch_transfer"}
  /\ ~CanTransfer(c)
  /\ IF pc[c] = "transfer" THEN Idle(c) ELSE Goto(c, "undo") /\ UNCHANGED arg
  /\ UNCHANGED <<live, born, parent, budget, spent, minted>>

Remaining(a) == Max({0, budget[a] - spent[a]})

\* reclaim_budget returns None (here -1), 0 or the refund.
ReclaimResult(a) ==
  IF a \notin live \/ budget[a] = 0 \/ parent[a] \notin live THEN -1 ELSE Remaining(a)

\* The budgets b with the rest of agent a's given to its parent, if that has a limit.
Refunded(a, b) == [b EXCEPT ![parent[a]] = IF @ > 0 THEN @ + Remaining(a) ELSE 0]

\* Mutant: the child keeps its allowance.
ReclaimBudgetUncapped(a) ==
  /\ ReclaimResult(a) > 0
  /\ budget' = Refunded(a, budget)
  /\ UNCHANGED <<live, born, parent, spent, pc, arg, minted>>

\* Mutant: the refunded child is reset.
ReclaimBudgetReset(a) ==
  /\ ReclaimResult(a) > 0
  /\ budget' = Refunded(a, [b \in Agents |-> IF b = a THEN 0 ELSE budget[b]])
  /\ UNCHANGED <<live, born, parent, spent, pc, arg, minted>>

\* reclaim_budget, by `budget reclaim', by a follower or by list_sessions:
\* cap the child at what it spent and give the rest to a limited parent.
ReclaimBudget(a) ==
  /\ ReclaimResult(a) > 0
  /\ budget' = Refunded(a, [b \in Agents |-> IF b = a THEN spent[a] ELSE budget[b]])
  /\ UNCHANGED <<live, born, parent, spent, pc, arg, minted>>

\* `budget set' and the web API: refused when the parent has a budget.
SetBegin(c, a, amount) ==
  /\ a \in live
  /\ parent[a] \in live => budget[parent[a]] = 0
  /\ Begin(c, "set", a, NoParent, amount, <<>>)
  /\ UNCHANGED <<live, born, parent, budget, spent, minted>>

SetApply(c) ==
  /\ pc[c] = "set"
  /\ IF arg[c].agent \in live
     THEN /\ budget' = [budget EXCEPT ![arg[c].agent] = arg[c].amount]
          /\ Mint(arg[c].amount)
     ELSE UNCHANGED <<budget, minted>>
  /\ Idle(c)
  /\ UNCHANGED <<live, born, parent, spent>>

\* The TUI's budget field and the old `set-budget' command ask nobody.
SetDirect(a, amount) ==
  /\ a \in live
  /\ minted + Pending + amount <= MaxMinted
  /\ budget' = [budget EXCEPT ![a] = amount]
  /\ Mint(amount)
  /\ UNCHANGED <<live, born, parent, spent, pc, arg>>

\* The daemon's stats sync raises estimated_cost_usd.
Spend(a) ==
  /\ a \in live
  /\ spent[a] < MaxSpent
  /\ spent' = [spent EXCEPT ![a] = @ + 1]
  /\ UNCHANGED <<live, born, parent, budget, pc, arg, minted>>

-----------------------------------------------------------------------------
(* kill_session *)

\* cascade: the descendants are listed once, deepest first.
KillBegin(c, a) ==
  /\ a \in live
  /\ \E q \in DeepestFirst(GetDescendants(a)) : Begin(c, "kill", a, NoParent, 0, q)
  /\ UNCHANGED <<live, born, parent, budget, spent, minted>>

\* --no-cascade: the children are listed once.
OrphanBegin(c, a) ==
  /\ a \in live
  /\ \E q \in SetToSeqs(GetChildren(a)) : Begin(c, "orphan", a, NoParent, 0, q)
  /\ UNCHANGED <<live, born, parent, budget, spent, minted>>

\* _kill_single_session on the next descendant, at last on the agent itself;
\* it stays registered when tmux does not kill its window.
KillNext(c) ==
  /\ pc[c] = "kill"
  /\ arg[c].todo # <<>>
  /\ live' \in {live, live \ {Head(arg[c].todo)}}
  /\ arg' = [arg EXCEPT ![c].todo = Tail(@)]
  /\ UNCHANGED <<born, parent, budget, spent, pc, minted>>

\* update_session(child.id, parent_session_id=None)
OrphanNext(c) ==
  /\ pc[c] = "orphan"
  /\ arg[c].todo # <<>>
  /\ LET b == Head(arg[c].todo) IN
     parent' = IF b \in live THEN [parent EXCEPT ![b] = NoParent] ELSE parent
  /\ arg' = [arg EXCEPT ![c].todo = Tail(@)]
  /\ UNCHANGED <<live, born, budget, spent, pc, minted>>

KillLast(c) ==
  /\ pc[c] \in {"kill", "orphan"}
  /\ arg[c].todo = <<>>
  /\ live' \in {live, live \ {arg[c].agent}}
  /\ Idle(c)
  /\ UNCHANGED <<born, parent, budget, spent, minted>>

\* cleanup_terminated_sessions, and a launch that finds a stale entry of the
\* same name: no cascade, the children keep the id of their parent.
Cleanup(a) ==
  /\ a \in live
  /\ live' = live \ {a}
  /\ UNCHANGED <<born, parent, budget, spent, pc, arg, minted>>

-----------------------------------------------------------------------------

Continue(c) ==
  \/ LaunchCreate(c) \/ LaunchAdopt(c) \/ LaunchFails(c) \/ LaunchGrant(c)
  \/ LaunchTransfer(c) \/ LaunchUndo(c)
  \/ TransferLocked(c) \/ TransferRefused(c)
  \/ SetApply(c)
  \/ KillNext(c) \/ OrphanNext(c) \/ KillLast(c)

Start(c) ==
  \/ \E a \in Agents, p \in Agents \cup {NoParent}, x \in Amounts : LaunchBegin(c, a, p, x)
  \/ \E a, p \in Agents, x \in Amounts : TransferBegin(c, p, a, x)
  \/ \E a \in Agents, x \in Amounts : SetBegin(c, a, x)
  \/ \E a \in Agents : KillBegin(c, a) \/ OrphanBegin(c, a)

Next ==
  \/ \E c \in Clients : Start(c) \/ Continue(c)
  \/ \E a \in Agents : ReclaimBudget(a) \/ Spend(a) \/ Cleanup(a)
  \/ \E a \in Agents, x \in Amounts : SetDirect(a, x)

Spec == Init /\ [][Next]_vars

\* A command that was started runs to its end.
FairSpec == Spec /\ \A c \in Clients : WF_vars(Continue(c))

-----------------------------------------------------------------------------

\* Every variable keeps its type; no pending command passes its bounds.
TypeOK ==
  /\ live \subseteq Created
  /\ born \in [Agents -> 0 .. Unborn]
  /\ parent \in [Agents -> Agents \cup {NoParent}]
  /\ budget \in [Agents -> Nat]
  /\ spent \in [Agents -> 0 .. MaxSpent]
  /\ minted \in 0 .. MaxMinted
  /\ \A c \in Clients :
       /\ pc[c] \in {"idle", "create", "adopt", "grant", "undo", "launch_transfer",
                     "transfer", "set", "kill", "orphan"}
       /\ arg[c].agent \in Agents \cup {NoParent}
       /\ arg[c].other \in Agents \cup {NoParent}
       /\ arg[c].amount \in Amounts \cup {0}
       /\ arg[c].todo \in Seq(Agents)

\* Money is conserved: whatever transfers, refunds (by several followers,
\* by list_sessions and by hand), kills and launches interleave, the budgets
\* of the registered agents never add up to more than operators handed out.
NoBudgetMinted == MapThenSumSet(LAMBDA a : budget[a], live) <= minted

\* A limit is a budget above 0: 0 means unlimited.  An agent loses its limit
\* only when an operator clears it, when it gives all of it away, or when it
\* is refunded before it spent anything.
OperatorClears(a) ==
  \/ SetDirect(a, 0)
  \/ \E c \in Clients : SetApply(c) /\ arg[c].agent = a

GivesAllAway(a) ==
  \E c \in Clients :
    TransferLocked(c) /\ arg[c].other = a /\ arg[c].amount = budget[a]

LosesLimit(a) == a \in live /\ budget[a] > 0 /\ budget'[a] = 0

LimitLostOnlyAtZero ==
  [][\A a \in Agents : LosesLimit(a) =>
       OperatorClears(a) \/ GivesAllAway(a) \/ (ReclaimBudget(a) /\ spent[a] = 0)]_vars

\* advanced-features.md:129: to continue past a budget, "either raise it or
\* clear it": nothing else should lift a limit.
LimitIsKept == [][\A a \in Agents : LosesLimit(a) => OperatorClears(a)]_vars

=============================================================================
