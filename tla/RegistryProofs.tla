--------------------------- MODULE RegistryProofs ---------------------------
(***************************************************************************)
(* Proofs about what is kept of agents, for any number of agents,          *)
(* commands, processes, conversations, calls and dollars: the hierarchy    *)
(* with its budgets, the archive of removed sessions, the conversations    *)
(* that belong to an agent, the tokens that are counted from them, what    *)
(* the summariser spends.                                                  *)
(*                                                                         *)
(* The modules share no variable: each is proved of its own specification, *)
(* and the last theorems bring them together for the behaviours that TLC   *)
(* runs.                                                                   *)
(***************************************************************************)
EXTENDS MCRegistry, SumTheorems

-----------------------------------------------------------------------------
(* The hierarchy and its budgets *)

\* Where a command is, and what it carries from one look at the registry to the
\* next.
Stages == {"idle", "create", "adopt", "grant", "undo", "launch_transfer", "transfer", "set",
           "kill", "orphan"}
Requests == [agent : Agents \cup {NoParent}, other : Agents \cup {NoParent},
             amount : Amounts \cup {0}, todo : Seq(Agents)]

\* Only agents that were created are listed or have a budget.
RegistryTyped ==
  /\ born \in [Agents -> 0 .. Unborn] /\ live \subseteq Created
  /\ parent \in [Agents -> Agents \cup {NoParent}]
  /\ budget \in [Agents -> Nat] /\ spent \in [Agents -> 0 .. MaxSpent] /\ minted \in Nat
  /\ \A a \in Agents \ Created : budget[a] = 0

\* A launch holds an agent that is not there yet, and that nobody else holds.
CommandsTyped ==
  /\ pc \in [Clients -> Stages] /\ arg \in [Clients -> Requests]
  /\ \A c \in Clients : pc[c] = "create" =>
       /\ arg[c].agent \in Agents \ Created
       /\ \A d \in Clients \ {c} : arg[d].agent # arg[c].agent

\* What a step of client c asks for next.
Moves(c, to, r) ==
  /\ pc' = [pc EXCEPT ![c] = to] /\ arg' = [arg EXCEPT ![c] = r]
  /\ to \in Stages /\ r \in Requests
  /\ \A d \in Clients \ {c} : pc[d] = "create" => r.agent # arg[d].agent
  /\ to = "create" => r.agent \in Agents \ Created /\ \A d \in Clients \ {c} : arg[d].agent # r.agent

\* A step of one command keeps the types of all of them, if only the launch that
\* holds an agent creates it.
LEMMA MovesTyped ==
  ASSUME CommandsTyped, NEW c \in Clients, NEW to, NEW r, Moves(c, to, r),
         \A a \in Created' \ Created : pc[c] = "create" /\ a = arg[c].agent,
         pc'[c] # "create" \/ born' = born
  PROVE  CommandsTyped'
  <1>1. pc' \in [Clients -> Stages] /\ arg' \in [Clients -> Requests]
    BY DEF CommandsTyped, Moves
  <1>2. ASSUME NEW d \in Clients, pc'[d] = "create"
        PROVE  /\ arg'[d].agent \in Agents \ Created'
               /\ \A e \in Clients \ {d} : arg'[e].agent # arg'[d].agent
    <2>1. CASE d = c
      BY <1>2, <2>1 DEF CommandsTyped, Moves, Created
    <2>2. CASE d # c
      BY <1>2, <2>2 DEF CommandsTyped, Moves
    <2> QED
      BY <2>1, <2>2
  <1> QED
    BY <1>1, <1>2 DEF CommandsTyped

\* A command that has ended holds no agent.
LEMMA NoArgTyped == NoArg \in Requests /\ NoArg.agent \notin Agents
  BY AgentTreeAssumption DEF NoArg, Requests

\* The order in which a cascade or an orphaning visits agents is a list of agents.
LEMMA TodoTyped ==
  ASSUME NEW S, S \subseteq Agents, NEW q \in SetToSeqs(S)
  PROVE  q \in Seq(Agents)
<1>1. IsFiniteSet(S)
  BY AgentTreeAssumption, FS_Subset
<1>2. Cardinality(S) \in Nat
  BY <1>1, FS_CardinalityType
<1>3. q \in [1 .. Cardinality(S) -> Agents]
  BY DEF SetToSeqs
<1> QED
  BY <1>2, <1>3

\* Every step of a command moves to a next stage with arguments that are typed,
\* and never to an agent that a launch holds: those are not listed yet.
LEMMA StepsMove ==
  ASSUME RegistryTyped, CommandsTyped, NEW c \in Clients, Start(c) \/ Continue(c)
  PROVE  \E to, r : Moves(c, to, r)
<1> USE AgentTreeAssumption
<1>0. /\ arg[c] \in Requests /\ pc[c] \in Stages /\ live \subseteq Agents /\ live \subseteq Created
      /\ \A d \in Clients : pc[d] = "create" => arg[d].agent \in Agents /\ arg[d].agent \notin live
  BY DEF RegistryTyped, CommandsTyped, Created
<1>1. ASSUME Idle(c) PROVE \E to, r : Moves(c, to, r)
  <2>1. Moves(c, "idle", NoArg)
    BY <1>0, <1>1, NoArgTyped DEF Moves, Idle, Stages
  <2> QED
    BY <2>1
<1>2. ASSUME NEW to \in Stages \ {"create"}, Goto(c, to), arg' = arg PROVE \E x, r : Moves(c, x, r)
  <2>1. arg' = [arg EXCEPT ![c] = arg[c]]
    BY <1>2 DEF CommandsTyped
  <2>2. \A d \in Clients \ {c} : pc[d] = "create" => arg[c].agent # arg[d].agent
    BY DEF CommandsTyped
  <2>3. Moves(c, to, arg[c])
    BY <1>0, <1>2, <2>1, <2>2 DEF Moves, Goto
  <2> QED
    BY <2>3
<1>3. ASSUME NEW to \in {"transfer", "set", "kill", "orphan"}, NEW a \in live, NEW p,
             NEW x \in Amounts \cup {0}, NEW q \in Seq(Agents), p \in Agents \cup {NoParent},
             Begin(c, to, a, p, x, q)
      PROVE  \E y, r : Moves(c, y, r)
  <2> DEFINE r == [agent |-> a, other |-> p, amount |-> x, todo |-> q]
  <2>1. pc' = [pc EXCEPT ![c] = to] /\ arg' = [arg EXCEPT ![c] = r]
    BY <1>3 DEF Begin, Goto
  <2>2. r \in Requests
    BY <1>0, <1>3 DEF Requests
  <2>3. \A d \in Clients \ {c} : pc[d] = "create" => r.agent # arg[d].agent
    BY <1>0
  <2>4. to \in Stages /\ to # "create"
    BY DEF Stages
  <2> HIDE DEF r
  <2>5. Moves(c, to, r)
    BY <2>1, <2>2, <2>3, <2>4 DEF Moves
  <2> QED
    BY <2>5
<1>4. ASSUME NEW a \in Agents, NEW p \in Agents \cup {NoParent}, NEW x \in Amounts, LaunchBegin(c, a, p, x)
      PROVE  \E y, r : Moves(c, y, r)
  <2> DEFINE r == [agent |-> a, other |-> p, amount |-> x, todo |-> <<>>]
  <2>1. pc' = [pc EXCEPT ![c] = "create"] /\ arg' = [arg EXCEPT ![c] = r]
        /\ a \notin Created /\ \A d \in Clients : arg[d].agent # a
    BY <1>4 DEF Begin, Goto, LaunchBegin
  <2>2. r \in Requests
    BY DEF Requests
  <2>3. Moves(c, "create", r)
    BY <2>1, <2>2 DEF Moves, Stages
  <2> QED
    BY <2>3
<1>5. ASSUME arg[c].todo # <<>>, arg' = [arg EXCEPT ![c].todo = Tail(@)], pc' = pc, pc[c] # "create"
      PROVE  \E y, r : Moves(c, y, r)
  <2> DEFINE r == [arg[c] EXCEPT !.todo = Tail(@)]
  <2>1. pc' = [pc EXCEPT ![c] = pc[c]] /\ arg' = [arg EXCEPT ![c] = r]
    BY <1>5 DEF CommandsTyped
  <2>2. arg[c].todo \in Seq(Agents)
    BY <1>0 DEF Requests
  <2>3. Tail(arg[c].todo) \in Seq(Agents)
    BY <1>5, <2>2
  <2>4. r \in Requests /\ r.agent = arg[c].agent
    BY <1>0, <2>3 DEF Requests
  <2>5. \A d \in Clients \ {c} : pc[d] = "create" => r.agent # arg[d].agent
    BY <2>4 DEF CommandsTyped
  <2> HIDE DEF r
  <2>6. Moves(c, pc[c], r)
    BY <1>0, <1>5, <2>1, <2>4, <2>5 DEF Moves
  <2> QED
    BY <2>6
<1>6. CASE LaunchCreate(c) \/ LaunchAdopt(c) \/ LaunchTransfer(c)
  BY <1>2, <1>6 DEF LaunchCreate, LaunchAdopt, LaunchTransfer, Stages
<1>7. CASE LaunchFails(c) \/ LaunchGrant(c) \/ LaunchUndo(c) \/ TransferLocked(c) \/ SetApply(c) \/ KillLast(c)
  BY <1>1, <1>7 DEF LaunchFails, LaunchGrant, LaunchUndo, TransferLocked, SetApply, KillLast
<1>8. CASE TransferRefused(c)
  BY <1>1, <1>2, <1>8 DEF TransferRefused, Stages
<1>9. CASE KillNext(c) \/ OrphanNext(c)
  BY <1>5, <1>9 DEF KillNext, OrphanNext
<1>10. ASSUME NEW a \in Agents, NEW p \in Agents, NEW x \in Amounts, TransferBegin(c, p, a, x)
       PROVE  \E y, r : Moves(c, y, r)
  <2>1. a \in live /\ Begin(c, "transfer", a, p, x, <<>>) /\ <<>> \in Seq(Agents)
    BY <1>10 DEF TransferBegin, IsAncestor
  <2> QED
    BY <1>3, <2>1
<1>11. ASSUME NEW a \in Agents, NEW x \in Amounts, SetBegin(c, a, x)
       PROVE  \E y, r : Moves(c, y, r)
  <2>1. a \in live /\ Begin(c, "set", a, NoParent, x, <<>>) /\ <<>> \in Seq(Agents)
    BY <1>11 DEF SetBegin
  <2> QED
    BY <1>3, <2>1
<1>12. ASSUME NEW a \in Agents, KillBegin(c, a) PROVE \E y, r : Moves(c, y, r)
  <2>1. PICK q \in SetToSeqs(GetDescendants(a)) : Begin(c, "kill", a, NoParent, 0, q)
    BY <1>12 DEF KillBegin, DeepestFirst
  <2>2. q \in Seq(Agents)
    BY <1>0, TodoTyped DEF GetDescendants
  <2> QED
    BY <1>3, <1>12, <2>1, <2>2 DEF KillBegin
<1>13. ASSUME NEW a \in Agents, OrphanBegin(c, a) PROVE \E y, r : Moves(c, y, r)
  <2>1. PICK q \in SetToSeqs(GetChildren(a)) : Begin(c, "orphan", a, NoParent, 0, q)
    BY <1>13 DEF OrphanBegin
  <2>2. q \in Seq(Agents)
    BY <1>0, TodoTyped DEF GetChildren
  <2> QED
    BY <1>3, <1>13, <2>1, <2>2 DEF OrphanBegin
<1> QED
  BY <1>4, <1>6, <1>7, <1>8, <1>9, <1>10, <1>11, <1>12, <1>13 DEF Start, Continue

\* What reclaim_budget gives back is never negative, and nothing once the cost has
\* reached the budget.
LEMMA RemainingIs ==
  ASSUME NEW a, budget[a] \in Nat, spent[a] \in Nat
  PROVE  Remaining(a) = IF spent[a] < budget[a] THEN budget[a] - spent[a] ELSE 0
<1> DEFINE S == {0, budget[a] - spent[a]}
<1>1. IsFiniteSet(S)
  <2>1. S = {0} \cup {budget[a] - spent[a]} /\ IsFiniteSet({0})
    BY FS_Singleton
  <2> QED
    BY <2>1, FS_AddElement
<1>2. S \subseteq Int /\ S # {}
  OBVIOUS
<1>3. Max(S) \in S /\ \A x \in S : x <= Max(S)
  BY <1>1, <1>2, MaxIsIn
<1> QED
  BY <1>3 DEF Remaining

\* Every step keeps the types of the registry: no budget becomes negative, though
\* a transfer deducts what was checked before.
LEMMA RegistryStep ==
  ASSUME RegistryTyped, CommandsTyped, Next
  PROVE  RegistryTyped'
<1> USE AgentTreeAssumption
<1> DEFINE records == <<live, born, parent, budget, spent, minted>>
<1>0. /\ live \subseteq Agents /\ live \subseteq Created
      /\ \A c \in Clients : arg[c].other \in Agents \cup {NoParent} /\ arg[c].amount \in Nat
  <2>1. live \subseteq Agents /\ live \subseteq Created
    BY DEF RegistryTyped, Created
  <2>2. ASSUME NEW c \in Clients PROVE arg[c].other \in Agents \cup {NoParent} /\ arg[c].amount \in Amounts \cup {0}
    BY DEF CommandsTyped, Requests
  <2>3. Amounts \cup {0} \subseteq Nat
    OBVIOUS
  <2> QED
    BY <2>1, <2>2, <2>3
<1>1. ASSUME UNCHANGED records PROVE RegistryTyped'
  BY <1>1 DEF RegistryTyped, Created
<1>2. ASSUME live' \subseteq live, UNCHANGED <<born, parent, budget, spent, minted>> PROVE RegistryTyped'
  BY <1>2 DEF RegistryTyped, Created
<1>3. ASSUME UNCHANGED <<live, born, parent, spent>>, budget' \in [Agents -> Nat],
             \A a \in Agents \ live : budget'[a] = budget[a], minted' \in Nat
      PROVE  RegistryTyped'
  BY <1>0, <1>3 DEF RegistryTyped, Created
<1>4. ASSUME NEW c \in Clients, Start(c) PROVE RegistryTyped'
  <2>1. UNCHANGED records
    BY <1>4 DEF Start, LaunchBegin, TransferBegin, SetBegin, KillBegin, OrphanBegin
  <2> QED
    BY <1>1, <2>1
<1>5. ASSUME NEW c \in Clients, LaunchCreate(c) PROVE RegistryTyped'
  <2> DEFINE a == arg[c].agent
  <2>1. a \in Agents \ Created
    BY <1>5 DEF LaunchCreate, CommandsTyped
  <2>2. Cardinality(Created) \in 0 .. Unborn /\ Cardinality(Created) # Unborn
    <3>1. Created \subseteq Agents /\ Created # Agents
      BY <2>1 DEF Created
    <3>2. IsFiniteSet(Created) /\ Cardinality(Created) <= Unborn /\ Cardinality(Created) # Unborn
      BY <3>1, FS_Subset DEF Unborn
    <3> QED
      BY <3>2, FS_CardinalityType DEF Unborn
  <2>3. born' = [born EXCEPT ![a] = Cardinality(Created)] /\ live' = live \cup {a}
        /\ UNCHANGED <<parent, budget, spent, minted>>
    BY <1>5 DEF LaunchCreate
  <2>4. born' \in [Agents -> 0 .. Unborn] /\ born'[a] # Unborn /\ \A b \in Agents \ {a} : born'[b] = born[b]
    BY <2>1, <2>2, <2>3 DEF RegistryTyped
  <2>5. Created' = Created \cup {a}
    BY <2>1, <2>4 DEF Created, Unborn
  <2> HIDE DEF a
  <2>6. live' \subseteq Created' /\ \A b \in Agents \ Created' : budget'[b] = 0
    BY <2>3, <2>5 DEF RegistryTyped
  <2> QED
    BY <2>3, <2>4, <2>6 DEF RegistryTyped, Unborn
<1>6. ASSUME NEW c \in Clients, LaunchAdopt(c) PROVE RegistryTyped'
  BY <1>0, <1>6 DEF LaunchAdopt, RegistryTyped, Created
<1>7. ASSUME NEW c \in Clients, OrphanNext(c) PROVE RegistryTyped'
  BY <1>0, <1>7 DEF OrphanNext, RegistryTyped, Created
<1>8. ASSUME NEW c \in Clients, LaunchTransfer(c) \/ TransferRefused(c) PROVE RegistryTyped'
  <2>1. UNCHANGED records
    BY <1>8 DEF LaunchTransfer, TransferRefused
  <2> QED
    BY <1>1, <2>1
<1>9. ASSUME NEW c \in Clients, LaunchFails(c) \/ LaunchUndo(c) \/ KillNext(c) \/ KillLast(c) PROVE RegistryTyped'
  <2>1. live' \subseteq live /\ UNCHANGED <<born, parent, budget, spent, minted>>
    BY <1>9 DEF LaunchFails, LaunchUndo, KillNext, KillLast
  <2> QED
    BY <1>2, <2>1
<1>10. ASSUME NEW c \in Clients, LaunchGrant(c) \/ SetApply(c) PROVE RegistryTyped'
  <2>1. /\ UNCHANGED <<live, born, parent, spent>>
        /\ \/ UNCHANGED <<budget, minted>>
           \/ /\ arg[c].agent \in live /\ minted' = minted + arg[c].amount
              /\ budget' = [budget EXCEPT ![arg[c].agent] = arg[c].amount]
    BY <1>10 DEF LaunchGrant, SetApply, Mint
  <2> QED
    BY <1>0, <1>3, <2>1 DEF RegistryTyped
<1>11. ASSUME NEW c \in Clients, TransferLocked(c) PROVE RegistryTyped'
  <2> DEFINE p == arg[c].other
             a == arg[c].agent
             x == arg[c].amount
             mid == [b \in Agents |-> IF b = p /\ budget[b] > 0 THEN budget[b] - x ELSE budget[b]]
  <2>1. {a, p} \subseteq live /\ (budget[p] > 0 => budget[p] >= x) /\ x \in Nat
    BY <1>0, <1>11 DEF TransferLocked, CanTransfer
  <2>2. mid \in [Agents -> Nat] /\ \A b \in Agents \ {p} : mid[b] = budget[b]
    BY <1>0, <2>1 DEF RegistryTyped
  <2>3. budget' = [mid EXCEPT ![a] = @ + x] /\ minted' \in {minted, minted + x}
        /\ UNCHANGED <<live, born, parent, spent>>
    BY <1>11 DEF TransferLocked, Mint
  <2> HIDE DEF mid, x, a, p
  <2>4. budget' \in [Agents -> Nat] /\ \A b \in Agents \ live : budget'[b] = budget[b]
    BY <1>0, <2>1, <2>2, <2>3
  <2>5. minted' \in Nat
    BY <2>1, <2>3 DEF RegistryTyped
  <2> QED
    BY <1>3, <2>3, <2>4, <2>5
<1>12. ASSUME NEW a \in Agents, ReclaimBudget(a) PROVE RegistryTyped'
  <2>1. a \in live /\ parent[a] \in live /\ Remaining(a) > 0
    BY <1>12 DEF ReclaimBudget, ReclaimResult
  <2>2. Remaining(a) \in Nat
    BY RemainingIs DEF RegistryTyped
  <2> DEFINE mid == [b \in Agents |-> IF b = a THEN spent[a] ELSE budget[b]]
  <2>3. mid \in [Agents -> Nat] /\ \A b \in Agents \ {a} : mid[b] = budget[b]
    BY DEF RegistryTyped
  <2>4. budget' = [mid EXCEPT ![parent[a]] = IF @ > 0 THEN @ + Remaining(a) ELSE 0]
        /\ UNCHANGED <<live, born, parent, spent, minted>>
    BY <1>12 DEF ReclaimBudget, Refunded
  <2> HIDE DEF mid
  <2>5. budget' \in [Agents -> Nat] /\ \A b \in Agents \ live : budget'[b] = budget[b]
    BY <1>0, <2>1, <2>2, <2>3, <2>4
  <2> QED
    BY <1>3, <2>4, <2>5 DEF RegistryTyped
<1>13. ASSUME NEW a \in Agents, Spend(a) PROVE RegistryTyped'
  BY <1>13 DEF Spend, RegistryTyped, Created
<1>14. ASSUME NEW a \in Agents, Cleanup(a) PROVE RegistryTyped'
  BY <1>2, <1>14 DEF Cleanup
<1>15. ASSUME NEW a \in Agents, NEW x \in Amounts, SetDirect(a, x) PROVE RegistryTyped'
  BY <1>3, <1>15 DEF SetDirect, Mint, RegistryTyped
<1> QED
  BY <1>4, <1>5, <1>6, <1>7, <1>8, <1>9, <1>10, <1>11, <1>12, <1>13, <1>14, <1>15 DEF Next, Continue

\* The registry and the commands keep their types.
LEMMA TreeTyped == Spec => [](RegistryTyped /\ CommandsTyped)
<1> USE AgentTreeAssumption
<1>1. Init => RegistryTyped /\ CommandsTyped
  <2>1. ASSUME Init PROVE RegistryTyped
    <3>1. Unborn \in Nat
      BY FS_CardinalityType DEF Unborn
    <3> QED
      BY <2>1, <3>1 DEF Init, RegistryTyped, Created
  <2>2. ASSUME Init PROVE CommandsTyped
    BY <2>2, NoArgTyped DEF Init, CommandsTyped, Stages
  <2> QED
    BY <2>1, <2>2
<1>2. ASSUME RegistryTyped, CommandsTyped, [Next]_vars PROVE RegistryTyped' /\ CommandsTyped'
  <2>1. CASE UNCHANGED vars
    BY <1>2, <2>1 DEF vars, RegistryTyped, CommandsTyped, Created
  <2>2. ASSUME NEW c \in Clients, Start(c) \/ Continue(c) PROVE CommandsTyped'
    <3>1. PICK to, r : Moves(c, to, r)
      BY <1>2, <2>2, StepsMove
    <3>2. CASE born' = born
      BY <1>2, <3>1, <3>2, MovesTyped DEF Created
    <3>3. CASE LaunchCreate(c)
      <4>1. pc'[c] # "create"
        BY <1>2, <3>3 DEF LaunchCreate, Goto, CommandsTyped
      <4>2. \A a \in Created' \ Created : pc[c] = "create" /\ a = arg[c].agent
        BY <1>2, <3>3 DEF LaunchCreate, Created, RegistryTyped
      <4> QED
        BY <1>2, <3>1, <4>1, <4>2, MovesTyped
    <3> QED
      BY <2>2, <3>2, <3>3 DEF Start, Continue, LaunchBegin, TransferBegin, SetBegin, KillBegin,
         OrphanBegin,
         LaunchAdopt, LaunchFails, LaunchGrant, LaunchTransfer, LaunchUndo, TransferLocked,
         TransferRefused,
         SetApply, KillNext, OrphanNext, KillLast
  <2>3. ASSUME NEW a \in Agents, ReclaimBudget(a) \/ Spend(a) \/ Cleanup(a) \/ \E x \in Amounts : SetDirect(a, x)
        PROVE  CommandsTyped'
    BY <1>2, <2>3 DEF ReclaimBudget, Spend, Cleanup, SetDirect, CommandsTyped, Created
  <2>4. CASE Next
    <3>1. RegistryTyped'
      BY <1>2, <2>4, RegistryStep
    <3>2. CommandsTyped'
      BY <2>2, <2>3, <2>4 DEF Next
    <3> QED
      BY <3>1, <3>2
  <2> QED
    BY <1>2, <2>1, <2>4
<1> QED
  BY <1>1, <1>2, PTL DEF Spec

\* No step adds more to the budgets of the listed agents than the operator hands
\* out in it.
LEMMA MoneyStep ==
  ASSUME RegistryTyped, CommandsTyped, Next, SumOf(budget, live) <= minted
  PROVE  SumOf(budget', live') <= minted'
<1> USE AgentTreeAssumption
<1>0. /\ live \subseteq Agents /\ IsFiniteSet(live) /\ budget \in [Agents -> Nat] /\ minted \in Nat
      /\ SumOf(budget, live) \in Nat
  <2>1. live \subseteq Agents /\ budget \in [Agents -> Nat] /\ minted \in Nat
    BY DEF RegistryTyped, Created
  <2>2. IsFiniteSet(live)
    BY <2>1, FS_Subset
  <2>3. \A x \in live : budget[x] \in Nat
    BY <2>1
  <2> QED
    BY <2>1, <2>2, <2>3, SumType
<1>1. ASSUME NEW c \in Clients
      PROVE  arg[c].agent \in Agents \cup {NoParent} /\ arg[c].other \in Agents \cup {NoParent} /\ arg[c].amount \in Nat
  <2>1. arg[c].amount \in Amounts \cup {0} /\ Amounts \cup {0} \subseteq Nat
    BY <1>1 DEF CommandsTyped, Requests
  <2> QED
    BY <1>1, <2>1 DEF CommandsTyped, Requests
\* An agent that leaves takes its budget along.
<1>2. ASSUME NEW a, live' = live \/ live' = live \ {a}
      PROVE  SumOf(budget, live') <= minted
  <2>1. SumOf(budget, live \ {a}) <= SumOf(budget, live)
    BY <1>0, SumWithout
  <2>2. SumOf(budget, live \ {a}) \in Nat
    <3>1. IsFiniteSet(live \ {a})
      BY <1>0, FS_Subset
    <3> QED
      BY <1>0, <3>1, SumType
  <2> QED
    BY <1>0, <1>2, <2>1, <2>2
\* A budget that is set.
<1>3. ASSUME NEW a \in live, NEW x \in Nat, UNCHANGED live, budget' = [budget EXCEPT ![a] = x], minted' = minted + x
      PROVE  SumOf(budget', live') <= minted'
  <2>1. \A b \in live : budget[b] \in Int /\ budget'[b] \in Int
    BY <1>0, <1>3
  <2>2. \A b \in live \ {a} : budget[b] = budget'[b]
    BY <1>0, <1>3
  <2>3. SumOf(budget', live) = SumOf(budget, live) + (budget'[a] - budget[a])
    BY <1>0, <2>1, <2>2, SumUpdate
  <2>4. budget'[a] = x /\ budget[a] \in Nat
    BY <1>0, <1>3
  <2> QED
    BY <1>0, <1>3, <2>3, <2>4
\* What is deducted from one agent and added to another.
<1>4. ASSUME NEW p \in live, NEW a \in live, NEW mid \in [Agents -> Nat],
             \A b \in live \ {p} : mid[b] = budget[b],
             budget' \in [Agents -> Nat], \A b \in live \ {a} : budget'[b] = mid[b],
             UNCHANGED live, minted' \in Nat,
             (mid[p] - budget[p]) + (budget'[a] - mid[a]) <= minted' - minted
      PROVE  SumOf(budget', live') <= minted'
  <2>1. \A b \in live : budget[b] \in Int /\ mid[b] \in Int /\ budget'[b] \in Int
    BY <1>0, <1>4
  <2>2. SumOf(mid, live) = SumOf(budget, live) + (mid[p] - budget[p])
    <3>1. \A b \in live \ {p} : budget[b] = mid[b]
      BY <1>4
    <3> QED
      BY <1>0, <2>1, <3>1, SumUpdate
  <2>3. SumOf(budget', live) = SumOf(mid, live) + (budget'[a] - mid[a])
    <3>1. \A b \in live \ {a} : mid[b] = budget'[b]
      BY <1>4
    <3> QED
      BY <1>0, <2>1, <3>1, SumUpdate
  <2>4. budget[p] \in Int /\ mid[p] \in Int /\ budget'[a] \in Int /\ mid[a] \in Int
    BY <2>1
  <2> QED
    BY <1>0, <1>4, <2>2, <2>3, <2>4
<1>5. ASSUME UNCHANGED <<live, budget, minted>> PROVE SumOf(budget', live') <= minted'
  BY <1>5
<1>6. ASSUME NEW c \in Clients, Start(c) PROVE SumOf(budget', live') <= minted'
  <2>1. UNCHANGED <<live, budget, minted>>
    BY <1>6 DEF Start, LaunchBegin, TransferBegin, SetBegin, KillBegin, OrphanBegin
  <2> QED
    BY <1>5, <2>1
<1>7. ASSUME NEW c \in Clients, LaunchAdopt(c) \/ LaunchTransfer(c) \/ TransferRefused(c) \/ OrphanNext(c)
      PROVE  SumOf(budget', live') <= minted'
  <2>1. UNCHANGED <<live, budget, minted>>
    BY <1>7 DEF LaunchAdopt, LaunchTransfer, TransferRefused, OrphanNext
  <2> QED
    BY <1>5, <2>1
<1>8. ASSUME NEW c \in Clients, LaunchFails(c) \/ LaunchUndo(c) \/ KillNext(c) \/ KillLast(c)
      PROVE  SumOf(budget', live') <= minted'
  <2>1. UNCHANGED <<budget, minted>>
    BY <1>8 DEF LaunchFails, LaunchUndo, KillNext, KillLast
  <2>2. PICK a : live' = live \/ live' = live \ {a}
    BY <1>8 DEF LaunchFails, LaunchUndo, KillNext, KillLast
  <2> QED
    BY <1>2, <2>1, <2>2
<1>9. ASSUME NEW c \in Clients, LaunchCreate(c) PROVE SumOf(budget', live') <= minted'
  <2> DEFINE a == arg[c].agent
  <2>1. a \in Agents \ Created /\ live' = live \cup {a} /\ UNCHANGED <<budget, minted>>
    BY <1>9 DEF LaunchCreate, CommandsTyped
  <2>2. a \notin live /\ budget[a] = 0
    BY <2>1 DEF RegistryTyped
  <2> HIDE DEF a
  <2>3. SumOf(budget, live') = budget[a] + SumOf(budget, live' \ {a})
    <3>1. IsFiniteSet(live') /\ a \in live'
      BY <1>0, <2>1, FS_AddElement
    <3>2. \A x \in live' : budget[x] \in Int
      BY <1>0, <2>1
    <3> QED
      BY <3>1, <3>2, SumRemove
  <2>4. live' \ {a} = live
    BY <2>1, <2>2
  <2> QED
    BY <1>0, <2>1, <2>2, <2>3, <2>4
<1>10. ASSUME NEW c \in Clients, LaunchGrant(c) \/ SetApply(c) PROVE SumOf(budget', live') <= minted'
  <2>1. /\ UNCHANGED live
        /\ \/ UNCHANGED <<budget, minted>>
           \/ /\ arg[c].agent \in live /\ minted' = minted + arg[c].amount
              /\ budget' = [budget EXCEPT ![arg[c].agent] = arg[c].amount]
    BY <1>10 DEF LaunchGrant, SetApply, Mint
  <2> QED
    BY <1>1, <1>3, <1>5, <2>1
<1>11. ASSUME NEW c \in Clients, TransferLocked(c) PROVE SumOf(budget', live') <= minted'
  <2> DEFINE p == arg[c].other
             a == arg[c].agent
             x == arg[c].amount
             mid == [b \in Agents |-> IF b = p /\ budget[b] > 0 THEN budget[b] - x ELSE budget[b]]
  <2>1. {a, p} \subseteq live /\ (budget[p] > 0 => budget[p] >= x) /\ x \in Nat
    BY <1>1, <1>11 DEF TransferLocked, CanTransfer
  <2>2. /\ mid \in [Agents -> Nat] /\ \A b \in live \ {p} : mid[b] = budget[b]
        /\ mid[p] = IF budget[p] = 0 THEN 0 ELSE budget[p] - x
    BY <1>0, <2>1
  <2>3. budget' = [mid EXCEPT ![a] = @ + x] /\ minted' = (IF budget[p] = 0 THEN minted + x ELSE minted)
        /\ UNCHANGED live
    BY <1>11 DEF TransferLocked, Mint
  <2> HIDE DEF mid, x, a, p
  <2>4. budget' \in [Agents -> Nat] /\ (\A b \in live \ {a} : budget'[b] = mid[b]) /\ budget'[a] = mid[a] + x
    BY <1>0, <2>1, <2>2, <2>3
  <2>5. budget[p] \in Nat /\ mid[a] \in Nat
    BY <1>0, <2>1, <2>2
  <2>6. (mid[p] - budget[p]) + (budget'[a] - mid[a]) <= minted' - minted /\ minted' \in Nat
    BY <1>0, <2>1, <2>2, <2>3, <2>4, <2>5
  <2> QED
    BY <1>4, <2>1, <2>2, <2>3, <2>4, <2>6
<1>12. ASSUME NEW a \in Agents, ReclaimBudget(a) PROVE SumOf(budget', live') <= minted'
  <2> DEFINE p == parent[a]
             k == Remaining(a)
             mid == [b \in Agents |-> IF b = a THEN spent[a] ELSE budget[b]]
  <2>1. a \in live /\ p \in live /\ k > 0 /\ spent[a] \in Nat /\ budget[a] \in Nat
    BY <1>0, <1>12 DEF ReclaimBudget, ReclaimResult, RegistryTyped
  <2>2. k = budget[a] - spent[a] /\ k \in Nat
    BY <2>1, RemainingIs
  <2>3. mid \in [Agents -> Nat] /\ (\A b \in live \ {a} : mid[b] = budget[b]) /\ mid[a] = spent[a]
    BY <1>0, <2>1
  <2>4. budget' = [mid EXCEPT ![p] = IF @ > 0 THEN @ + k ELSE 0] /\ UNCHANGED <<live, minted>>
    BY <1>12 DEF ReclaimBudget, Refunded
  <2> HIDE DEF mid, k, p
  <2>5. /\ budget' \in [Agents -> Nat] /\ \A b \in live \ {p} : budget'[b] = mid[b]
        /\ budget'[p] = IF mid[p] > 0 THEN mid[p] + k ELSE 0
    BY <1>0, <2>1, <2>2, <2>3, <2>4
  <2>6. mid[p] \in Nat
    BY <1>0, <2>1, <2>3
  <2>7. (mid[a] - budget[a]) + (budget'[p] - mid[p]) <= minted' - minted
    BY <1>0, <2>1, <2>2, <2>3, <2>4, <2>5, <2>6
  <2> QED
    BY <1>0, <1>4, <2>1, <2>3, <2>4, <2>5, <2>7
<1>13. ASSUME NEW a \in Agents, Spend(a) PROVE SumOf(budget', live') <= minted'
  BY <1>5, <1>13 DEF Spend
<1>14. ASSUME NEW a \in Agents, Cleanup(a) PROVE SumOf(budget', live') <= minted'
  BY <1>2, <1>14 DEF Cleanup
<1>15. ASSUME NEW a \in Agents, NEW x \in Amounts, SetDirect(a, x) PROVE SumOf(budget', live') <= minted'
  <2>1. a \in live /\ x \in Nat /\ UNCHANGED live /\ budget' = [budget EXCEPT ![a] = x] /\ minted' = minted + x
    BY <1>15 DEF SetDirect, Mint
  <2> QED
    BY <1>3, <2>1
<1> QED
  BY <1>6, <1>7, <1>8, <1>9, <1>10, <1>11, <1>12, <1>13, <1>14, <1>15 DEF Next, Continue

\* Dollars are moved, never made: for any number of agents and commands, and any
\* interleaving of launches, transfers, reclaims, sets, kills and clean-ups, the
\* budgets of the listed agents never exceed what the operator handed out.
THEOREM BudgetsConserved == Spec => []NoBudgetMinted
<1>1. Init => NoBudgetMinted
  <2>1. SumOf(budget, {}) = 0
    BY SumUnfolds, FS_EmptySet
  <2> QED
    BY <2>1 DEF Init, NoBudgetMinted, SumOf
<1>2. ASSUME RegistryTyped, CommandsTyped, NoBudgetMinted, [Next]_vars PROVE NoBudgetMinted'
  <2>1. SumOf(budget, live) <= minted
    BY <1>2 DEF NoBudgetMinted, SumOf
  <2>2. CASE UNCHANGED vars
    BY <2>1, <2>2 DEF vars, NoBudgetMinted, SumOf, MapThenSumSet, MapThenFoldSet
  <2>3. CASE Next
    <3>1. SumOf(budget', live') <= minted'
      BY <1>2, <2>1, <2>3, MoneyStep
    <3> QED
      BY <3>1 DEF NoBudgetMinted, SumOf, MapThenSumSet, MapThenFoldSet
  <2> QED
    BY <1>2, <2>2, <2>3
<1> QED
  BY <1>1, <1>2, TreeTyped, PTL DEF Spec

\* What the commands in progress may still hand out, as the sum of a function.
LEMMA PendingIs ==
  ASSUME NEW q, NEW S, IsFiniteSet(S)
  PROVE  MapThenSumSet(LAMBDA d : q[d].amount, S) = SumOf([d \in S |-> q[d].amount], S)
<1> DEFINE f == [d \in S |-> q[d].amount]
           P(g) == g = [s \in SUBSET S |-> IF s = {} THEN 0 ELSE q[Picked(s)].amount + g[s \ {Picked(s)}]]
           chosen == CHOOSE g : P(g)
<1>1. \A s \in SUBSET S : s # {} => f[Picked(s)] = q[Picked(s)].amount
  BY PickedIn
<1>2. \A g : P(g) <=> Sums(f, S, g)
  <2> HIDE DEF f
  <2> QED
    BY <1>1 DEF Sums
<1>3. P(chosen)
  <2>1. \E g : P(g)
    <3> HIDE DEF P, f
    <3> QED
      BY <1>2, SumsExist
  <2> HIDE DEF P
  <2> QED
    BY <2>1
<1>4. MapThenSumSet(LAMBDA d : q[d].amount, S) = chosen[S]
  BY DEF MapThenSumSet, MapThenFoldSet, Picked
<1> HIDE DEF f, P, chosen
<1>5. Sums(f, S, chosen) /\ Sums(f, S, CHOOSE g : Sums(f, S, g))
  BY <1>2, <1>3, SumsExist
<1>6. chosen[S] = (CHOOSE g : Sums(f, S, g))[S]
  BY <1>5, SumsAgree
<1> QED
  BY <1>4, <1>6, SumIsSums DEF f

\* It is never negative.
LEMMA PendingType ==
  ASSUME CommandsTyped
  PROVE  Pending \in Nat
<1> USE AgentTreeAssumption
<1> DEFINE f == [d \in Clients |-> arg[d].amount]
<1>1. Pending = SumOf(f, Clients)
  BY PendingIs DEF Pending
<1>2. (\A d \in Clients : arg[d].amount \in Amounts \cup {0}) /\ Amounts \cup {0} \subseteq Nat
  BY DEF CommandsTyped, Requests
<1>3. \A d \in Clients : f[d] \in Nat
  BY <1>2
<1> HIDE DEF f
<1> QED
  BY <1>1, <1>3, SumType

\* A step of one command changes it by the change of that command's own amount.
LEMMA PendingMoves ==
  ASSUME CommandsTyped, NEW c \in Clients, NEW to, NEW r, Moves(c, to, r)
  PROVE  /\ Pending \in Nat /\ Pending' \in Nat
         /\ Pending' = Pending + (r.amount - arg[c].amount)
         /\ r.amount \in Nat /\ arg[c].amount \in Nat
<1> USE AgentTreeAssumption
<1> DEFINE f == [d \in Clients |-> arg[d].amount]
           g == [d \in Clients |-> arg'[d].amount]
<1>1. Pending = SumOf(f, Clients)
  BY PendingIs DEF Pending
<1>2. Pending' = SumOf(g, Clients)
  <2>1. MapThenSumSet(LAMBDA d : arg'[d].amount, Clients) = SumOf(g, Clients)
    BY PendingIs
  <2> QED
    BY <2>1 DEF Pending, MapThenSumSet, MapThenFoldSet
<1>3. /\ \A d \in Clients : arg[d].amount \in Amounts \cup {0}
      /\ r.amount \in Amounts \cup {0}
      /\ arg' = [arg EXCEPT ![c] = r] /\ arg \in [Clients -> Requests]
  BY DEF CommandsTyped, Moves, Requests
<1>4. Amounts \cup {0} \subseteq Nat
  OBVIOUS
<1>5. \A d \in Clients : f[d] \in Nat /\ g[d] \in Nat
  BY <1>3, <1>4
<1>6. f[c] = arg[c].amount /\ g[c] = r.amount /\ \A d \in Clients \ {c} : f[d] = g[d]
  BY <1>3
<1> HIDE DEF f, g
<1>7. SumOf(g, Clients) = SumOf(f, Clients) + (g[c] - f[c])
  <2>1. \A d \in Clients : f[d] \in Int /\ g[d] \in Int
    BY <1>5
  <2> QED
    BY <1>6, <2>1, SumUpdate
<1>8. SumOf(f, Clients) \in Nat /\ SumOf(g, Clients) \in Nat
  BY <1>5, SumType
<1> QED
  BY <1>1, <1>2, <1>3, <1>4, <1>6, <1>7, <1>8

\* The bound on the dollars handed out counts what the commands in progress may hand out.
Afforded == minted + Pending <= MaxMinted

\* Every variable of the hierarchy keeps its type, and the dollars handed out keep
\* their bound while several commands hand them out at a time.
THEOREM TreeTypeOK == Spec => []TypeOK
<1> USE AgentTreeAssumption
<1>1. Init => Afforded
  <2>1. SUFFICES ASSUME Init PROVE Pending = 0
    BY DEF Init, Afforded
  <2> DEFINE f == [d \in Clients |-> arg[d].amount]
  <2>2. Pending = SumOf(f, Clients)
    BY PendingIs DEF Pending
  <2>3. \A d \in Clients : f[d] = 0
    BY <2>1 DEF Init, NoArg
  <2> HIDE DEF f
  <2> QED
    BY <2>2, <2>3, SumZero
<1>2. ASSUME RegistryTyped, CommandsTyped, Afforded, [Next]_vars PROVE Afforded'
  <2>0. minted \in Nat
    BY <1>2 DEF RegistryTyped
  <2>1. CASE UNCHANGED vars
    BY <1>2, <2>1 DEF vars, Afforded, Pending, MapThenSumSet, MapThenFoldSet
  <2>2. ASSUME NEW c \in Clients, Start(c) PROVE Afforded'
    <3>1. PICK to, r : Moves(c, to, r)
      BY <1>2, <2>2, StepsMove
    <3>2. UNCHANGED minted /\ minted + Pending + arg'[c].amount <= MaxMinted
      BY <1>2, <2>2 DEF Start, LaunchBegin, TransferBegin, SetBegin, KillBegin, OrphanBegin, Begin,
         CommandsTyped
    <3>3. arg'[c] = r
      BY <1>2, <3>1 DEF CommandsTyped, Moves
    <3> QED
      BY <1>2, <2>0, <3>1, <3>2, <3>3, PendingMoves DEF Afforded
  <2>3. ASSUME NEW c \in Clients, Continue(c) PROVE Afforded'
    <3>1. PICK to, r : Moves(c, to, r)
      BY <1>2, <2>3, StepsMove
    <3>2. arg'[c] = r
      BY <1>2, <3>1 DEF CommandsTyped, Moves
    <3>3. /\ r.amount \in Nat /\ arg[c].amount \in Nat /\ Pending \in Nat
          /\ Pending' = Pending + (r.amount - arg[c].amount)
      BY <1>2, <3>1, PendingMoves
    <3>4. CASE UNCHANGED minted /\ (arg'[c] = NoArg \/ UNCHANGED arg \/ arg'[c].amount = arg[c].amount)
      BY <1>2, <2>0, <3>2, <3>3, <3>4 DEF Afforded, NoArg
    <3>5. CASE minted' = minted + arg[c].amount /\ arg'[c] = NoArg
      <4>1. r.amount = 0
        BY <3>2, <3>5 DEF NoArg
      <4>2. minted' + Pending' = minted + Pending
        BY <2>0, <3>3, <3>5, <4>1
      <4> QED
        BY <1>2, <4>2 DEF Afforded
    <3>6. CASE LaunchCreate(c) \/ LaunchAdopt(c) \/ LaunchTransfer(c)
      BY <3>4, <3>6 DEF LaunchCreate, LaunchAdopt, LaunchTransfer
    <3>7. CASE LaunchFails(c) \/ LaunchUndo(c) \/ KillLast(c) \/ LaunchGrant(c)
               \/ SetApply(c) \/ TransferLocked(c) \/ TransferRefused(c)
      BY <1>2, <3>4, <3>5, <3>7 DEF LaunchFails, LaunchUndo, KillLast, LaunchGrant, SetApply,
         TransferLocked, TransferRefused,
         Idle, Mint, CommandsTyped
    <3>8. CASE KillNext(c) \/ OrphanNext(c)
      BY <1>2, <3>4, <3>8 DEF KillNext, OrphanNext, CommandsTyped, Requests
    <3> QED
      BY <2>3, <3>6, <3>7, <3>8 DEF Continue
  <2>4. ASSUME NEW a \in Agents, ReclaimBudget(a) \/ Spend(a) \/ Cleanup(a) PROVE Afforded'
    <3>1. UNCHANGED <<arg, minted>>
      BY <2>4 DEF ReclaimBudget, Spend, Cleanup
    <3>2. Pending' = Pending
      BY <3>1 DEF Pending, MapThenSumSet, MapThenFoldSet
    <3> QED
      BY <1>2, <3>1, <3>2 DEF Afforded
  <2>5. ASSUME NEW a \in Agents, NEW x \in Amounts, SetDirect(a, x) PROVE Afforded'
    <3>1. Pending' = Pending
      BY <2>5 DEF SetDirect, Pending, MapThenSumSet, MapThenFoldSet
    <3>2. Pending \in Nat
      BY <1>2, PendingType
    <3> QED
      BY <2>0, <2>5, <3>1, <3>2 DEF SetDirect, Mint, Afforded
  <2> QED
    BY <1>2, <2>1, <2>2, <2>3, <2>4, <2>5 DEF Next
<1>3. RegistryTyped /\ CommandsTyped /\ Afforded => TypeOK
  <2>1. SUFFICES ASSUME RegistryTyped, CommandsTyped, Afforded PROVE TypeOK
    OBVIOUS
  <2>2. minted \in 0 .. MaxMinted
    BY <2>1, PendingType DEF RegistryTyped, Afforded
  <2> QED
    BY <2>1, <2>2 DEF RegistryTyped, CommandsTyped, Requests, Stages, TypeOK
<1> QED
  BY <1>1, <1>2, <1>3, TreeTyped, PTL DEF Spec

\* An agent loses its limit only when the operator clears it, it gives all of it
\* away, or it has spent nothing when its budget is reclaimed: never by a race.
THEOREM LimitsLostOnlyAtZero == Spec => LimitLostOnlyAtZero
<1> USE AgentTreeAssumption
<1> DEFINE Accounted(a) == OperatorClears(a) \/ GivesAllAway(a) \/ (ReclaimBudget(a) /\ spent[a] = 0)
<1>1. ASSUME RegistryTyped, CommandsTyped, Next, NEW a \in Agents, LosesLimit(a) PROVE Accounted(a)
  <2>0. a \in live /\ budget[a] > 0 /\ budget'[a] = 0 /\ live \subseteq Agents /\ budget \in [Agents -> Nat]
    BY <1>1 DEF LosesLimit, RegistryTyped, Created
  <2>1. ASSUME UNCHANGED budget PROVE FALSE
    BY <2>0, <2>1
  <2>2. ASSUME NEW c \in Clients, Start(c) PROVE FALSE
    <3>1. UNCHANGED budget
      BY <2>2 DEF Start, LaunchBegin, TransferBegin, SetBegin, KillBegin, OrphanBegin
    <3> QED
      BY <2>1, <3>1
  <2>3. ASSUME NEW c \in Clients, Continue(c), ~ LaunchGrant(c), ~ SetApply(c), ~ TransferLocked(c) PROVE FALSE
    <3>1. UNCHANGED budget
      BY <2>3 DEF Continue, LaunchCreate, LaunchAdopt, LaunchFails, LaunchTransfer, LaunchUndo,
         TransferRefused,
         KillNext, OrphanNext, KillLast
    <3> QED
      BY <2>1, <3>1
  <2>4. ASSUME NEW c \in Clients, LaunchGrant(c) PROVE FALSE
    <3>1. CASE arg[c].amount > 0
      BY <2>0, <2>4, <3>1 DEF LaunchGrant
    <3>2. CASE ~ arg[c].amount > 0
      BY <2>1, <2>4, <3>2 DEF LaunchGrant
    <3> QED
      BY <3>1, <3>2
  <2>5. ASSUME NEW c \in Clients, SetApply(c) PROVE Accounted(a)
    <3>1. budget' = budget \/ budget' = [budget EXCEPT ![arg[c].agent] = arg[c].amount]
      BY <2>5 DEF SetApply
    <3>2. arg[c].agent = a
      BY <2>0, <3>1
    <3> QED
      BY <2>5, <3>2 DEF OperatorClears
  <2>6. ASSUME NEW c \in Clients, TransferLocked(c) PROVE Accounted(a)
    <3> DEFINE p == arg[c].other
               b == arg[c].agent
               x == arg[c].amount
               mid == [d \in Agents |-> IF d = p /\ budget[d] > 0 THEN budget[d] - x ELSE budget[d]]
    <3>1. {b, p} \subseteq live /\ (budget[p] > 0 => budget[p] >= x)
      BY <2>6 DEF TransferLocked, CanTransfer
    <3>2. x \in Nat
      <4>1. x \in Amounts \cup {0} /\ Amounts \cup {0} \subseteq Nat
        BY <1>1 DEF CommandsTyped, Requests
      <4> QED
        BY <4>1
    <3>3. mid \in [Agents -> Nat] /\ mid[a] = IF a = p THEN budget[a] - x ELSE budget[a]
      BY <2>0, <3>1, <3>2
    <3>4. budget' = [mid EXCEPT ![b] = @ + x]
      BY <2>6 DEF TransferLocked
    <3> HIDE DEF mid, x, b, p
    <3>5. a # b
      <4>1. SUFFICES ASSUME a = b PROVE FALSE
        OBVIOUS
      <4>2. mid[a] + x = 0
        BY <2>0, <3>3, <3>4, <4>1
      <4> QED
        BY <2>0, <3>2, <3>3, <4>2
    <3>6. mid[a] = 0
      BY <2>0, <3>3, <3>4, <3>5
    <3>7. a = p /\ x = budget[a]
      BY <2>0, <3>2, <3>3, <3>6
    <3> QED
      BY <2>6, <3>7 DEF GivesAllAway, p, x
  <2>7. ASSUME NEW b \in Agents, ReclaimBudget(b) PROVE Accounted(a)
    <3> DEFINE p == parent[b]
               k == Remaining(b)
               mid == [d \in Agents |-> IF d = b THEN spent[b] ELSE budget[d]]
    <3>1. b \in live /\ p \in live /\ spent[b] \in Nat /\ budget[b] \in Nat
      BY <1>1, <2>0, <2>7 DEF ReclaimBudget, ReclaimResult, RegistryTyped
    <3>2. k \in Nat
      BY <3>1, RemainingIs
    <3>3. mid \in [Agents -> Nat] /\ mid[a] = IF a = b THEN spent[b] ELSE budget[a]
      BY <2>0, <3>1
    <3>4. budget' = [mid EXCEPT ![p] = IF @ > 0 THEN @ + k ELSE 0]
      BY <2>7 DEF ReclaimBudget, Refunded
    <3> HIDE DEF mid, k, p
    <3>5. mid[a] = 0
      BY <2>0, <3>1, <3>2, <3>3, <3>4
    <3>6. a = b /\ spent[a] = 0
      BY <2>0, <3>3, <3>5
    <3> QED
      BY <2>7, <3>6
  <2>8. ASSUME NEW b \in Agents, Spend(b) \/ Cleanup(b) PROVE FALSE
    BY <2>1, <2>8 DEF Spend, Cleanup
  <2>9. ASSUME NEW b \in Agents, NEW x \in Amounts, SetDirect(b, x) PROVE Accounted(a)
    <3>1. budget' = [budget EXCEPT ![b] = x]
      BY <2>9 DEF SetDirect
    <3>2. a = b /\ x = 0
      BY <2>0, <3>1
    <3> QED
      BY <2>9, <3>2 DEF OperatorClears
  <2> QED
    BY <1>1, <2>2, <2>3, <2>4, <2>5, <2>6, <2>7, <2>8, <2>9 DEF Next
<1>2. RegistryTyped /\ CommandsTyped /\ [Next]_vars => [\A a \in Agents : LosesLimit(a) => Accounted(a)]_vars
  BY <1>1
<1> QED
  BY <1>2, TreeTyped, PTL DEF Spec, LimitLostOnlyAtZero

-----------------------------------------------------------------------------
(* The archive *)

\* A process holds a session exactly while it archives.
ArchiveTypes ==
  /\ registry \subseteq Ids /\ archive \subseteq Ids /\ removed \subseteq Ids
  /\ hand \in [Procs -> Ids \cup {Nothing}]
  /\ stage \in [Procs -> {"idle", "load", "save"}]
  /\ seen \in [Procs -> SUBSET Ids]
  /\ faults \in Nat
  /\ \A p \in Procs : stage[p] = "idle" <=> hand[p] = Nothing

\* A session that is in a hand was removed, and is in no other hand.
ArchiveInv ==
  /\ archive \subseteq removed /\ registry \cap removed = {}
  /\ \A p \in Procs : hand[p] \in removed \cup {Nothing} /\ seen[p] \subseteq removed
  /\ \A p, q \in Procs : hand[p] = hand[q] /\ p # q => hand[p] = Nothing

\* While no two processes have archived at once, who saves has loaded the archive
\* as it is; and without faults what was removed is archived or in a hand.
Sequential ==
  /\ ~overlap => \A p \in Procs : stage[p] = "save" =>
            seen[p] = archive /\ \A q \in Procs \ {p} : stage[q] # "save"
  /\ ~overlap /\ faults = 0 => \A i \in removed : i \in archive \/ \E p \in Procs : hand[p] = i

\* The archive keeps its types.
LEMMA ArchiveTyped == ArchiveSpec => []ArchiveTypes
<1> USE SessionArchiveAssumption DEF ArchiveTypes
<1>1. ArchiveInit => ArchiveTypes
  BY DEF ArchiveInit
<1>2. ASSUME ArchiveTypes, [ArchiveNext]_archiveVars PROVE ArchiveTypes'
  <2>1. ASSUME NEW p \in Procs, NEW i \in Ids, DeleteSession(p, i) PROVE ArchiveTypes'
    BY <1>2, <2>1 DEF DeleteSession
  <2>2. ASSUME NEW p \in Procs, NEW i \in Ids, Discard(p, i) PROVE ArchiveTypes'
    BY <1>2, <2>2 DEF Discard
  <2>3. ASSUME NEW p \in Procs, LoadArchive(p) PROVE ArchiveTypes'
    <3>1. stage[p] = "load" /\ stage' = [stage EXCEPT ![p] = "save"] /\ seen' = [seen EXCEPT ![p] = archive]
          /\ UNCHANGED <<registry, archive, hand, removed, faults>>
      BY <2>3 DEF LoadArchive
    <3> QED BY <1>2, <3>1
  <2>4. ASSUME NEW p \in Procs, SaveArchive(p) PROVE ArchiveTypes'
    <3>1. hand[p] # Nothing => hand[p] \in Ids BY <1>2
    <3> QED
    BY <1>2, <2>4 DEF SaveArchive, Return
  <2>5. ASSUME NEW p \in Procs, SaveFails(p) PROVE ArchiveTypes'
    BY <1>2, <2>5 DEF SaveFails, Return
  <2>6. ASSUME NEW p \in Procs, Crash(p) PROVE ArchiveTypes'
    BY <1>2, <2>6 DEF Crash, Return
  <2>7. CASE UNCHANGED archiveVars
    BY <1>2, <2>7 DEF archiveVars
  <2> QED
    BY <1>2, <2>1, <2>2, <2>3, <2>4, <2>5, <2>6, <2>7 DEF ArchiveNext
<1> QED
  BY <1>1, <1>2, PTL DEF ArchiveSpec

\* What is held or archived was removed, and is held once.
LEMMA ArchiveHeld == ArchiveSpec => []ArchiveInv
<1> USE SessionArchiveAssumption DEF ArchiveInv
<1>1. ArchiveInit => ArchiveInv
  BY DEF ArchiveInit
<1>2. ASSUME ArchiveTypes, ArchiveInv, [ArchiveNext]_archiveVars PROVE ArchiveInv'
  <2>1. ASSUME NEW p \in Procs, NEW i \in Ids, DeleteSession(p, i) PROVE ArchiveInv'
    BY <1>2, <2>1 DEF DeleteSession, ArchiveTypes
  <2>2. ASSUME NEW p \in Procs, NEW i \in Ids, Discard(p, i) PROVE ArchiveInv'
    BY <1>2, <2>2 DEF Discard
  <2>3. ASSUME NEW p \in Procs, LoadArchive(p) PROVE ArchiveInv'
    <3>1. stage[p] = "load" /\ stage' = [stage EXCEPT ![p] = "save"] /\ seen' = [seen EXCEPT ![p] = archive]
          /\ UNCHANGED <<registry, archive, hand, removed, faults>>
      BY <2>3 DEF LoadArchive
    <3> QED BY <1>2, <3>1 DEF ArchiveTypes
  <2>4. ASSUME NEW p \in Procs, SaveArchive(p) PROVE ArchiveInv'
    BY <1>2, <2>4 DEF SaveArchive, Return, ArchiveTypes
  <2>5. ASSUME NEW p \in Procs, SaveFails(p) PROVE ArchiveInv'
    BY <1>2, <2>5 DEF SaveFails, Return, ArchiveTypes
  <2>6. ASSUME NEW p \in Procs, Crash(p) PROVE ArchiveInv'
    BY <1>2, <2>6 DEF Crash, Return, ArchiveTypes
  <2>7. CASE UNCHANGED archiveVars
    BY <1>2, <2>7 DEF archiveVars
  <2> QED
    BY <1>2, <2>1, <2>2, <2>3, <2>4, <2>5, <2>6, <2>7 DEF ArchiveNext
<1> QED
  BY <1>1, <1>2, ArchiveTyped, PTL DEF ArchiveSpec

\* Archivings that do not overlap lose nothing.
LEMMA ArchiveSequential == ArchiveSpec => []Sequential
<1> USE SessionArchiveAssumption DEF Sequential
<1>1. ArchiveInit => Sequential
  BY DEF ArchiveInit
<1>2. ASSUME ArchiveTypes, ArchiveInv, Sequential, [ArchiveNext]_archiveVars PROVE Sequential'
  <2>1. ASSUME NEW p \in Procs, NEW i \in Ids, DeleteSession(p, i) PROVE Sequential'
    BY <1>2, <2>1 DEF DeleteSession, ArchiveTypes
  <2>2. ASSUME NEW p \in Procs, NEW i \in Ids, Discard(p, i) PROVE Sequential'
    BY <1>2, <2>2 DEF Discard
  <2>3. ASSUME NEW p \in Procs, LoadArchive(p) PROVE Sequential'
    <3>1. stage[p] = "load" /\ stage' = [stage EXCEPT ![p] = "save"] /\ seen' = [seen EXCEPT ![p] = archive]
          /\ UNCHANGED <<registry, archive, hand, removed, faults>>
      BY <2>3 DEF LoadArchive
    <3>2. ~overlap' => ~overlap /\ \A q \in Procs \ {p} : stage[q] # "save"
      BY <2>3 DEF LoadArchive
    <3> QED BY <1>2, <3>1, <3>2 DEF ArchiveTypes
  <2>4. ASSUME NEW p \in Procs, SaveArchive(p) PROVE Sequential'
    BY <1>2, <2>4 DEF SaveArchive, Return, ArchiveTypes, ArchiveInv
  <2>5. ASSUME NEW p \in Procs, SaveFails(p) PROVE Sequential'
    BY <1>2, <2>5 DEF SaveFails, Return, ArchiveTypes
  <2>6. ASSUME NEW p \in Procs, Crash(p) PROVE Sequential'
    BY <1>2, <2>6 DEF Crash, Return, ArchiveTypes
  <2>7. CASE UNCHANGED archiveVars
    BY <1>2, <2>7 DEF archiveVars
  <2> QED
    BY <1>2, <2>1, <2>2, <2>3, <2>4, <2>5, <2>6, <2>7 DEF ArchiveNext
<1> QED
  BY <1>1, <1>2, ArchiveTyped, ArchiveHeld, PTL DEF ArchiveSpec

\* For any number of processes: no session is in the registry and in the archive
\* at once or held twice, and none is lost without a fault or two archivings at
\* once.
THEOREM OneRecord == ArchiveSpec => []OnePlace
<1>1. ArchiveInv /\ Sequential => OnePlace
  BY DEF ArchiveInv, Sequential, OnePlace, Archiving
<1> QED
  BY <1>1, ArchiveHeld, ArchiveSequential, PTL

-----------------------------------------------------------------------------
(* Conversations *)

\* The entry of an agent, a prompt in history.jsonl, what the daemon is about to
\* bind and a restart under way.
Entries == [is : {"new", "registered", "removed"}, owned : SUBSET Nat, active : Nat, start : Nat,
            stats : {"none", "zero", "some"}]
Prompts == [conv : Nat, dir : Directories \cup {Elsewhere}]
Bindings == [at : {"idle", "bind", "discover"}, agent : Owners \cup {"none"}, owned : SUBSET Nat,
             zero : BOOLEAN, found : SUBSET Nat, latest : Nat]
Relaunches == [at : {"idle", "send"}, fresh : BOOLEAN, active : Nat]

\* The types, without the bounds.
ConvTyped ==
  /\ record \in [Owners -> Entries] /\ running \in [Owners -> Nat] /\ convs \in Nat
  /\ prompts \in Seq(Prompts) /\ cache \in [TmuxSessions \X Directories -> Nat]
  /\ daemon \in [TmuxSessions -> Bindings] /\ relaunch \in [Owners -> Relaunches]
  /\ tmuxOf \in [Owners -> TmuxSessions]

\* Ids that are kept anywhere are those of conversations that have begun.
Begun(c) == c \in Nat /\ c <= convs
IdsBegun ==
  /\ \A a \in Owners : /\ \A c \in record[a].owned : c # NoConv /\ Begun(c)
                       /\ Begun(record[a].active) /\ Begun(running[a]) /\ Begun(relaunch[a].active)
  /\ \A i \in DOMAIN prompts : /\ Begun(prompts[i].conv)
                               /\ prompts[i].dir \in Directories => prompts[i].conv # NoConv
  /\ \A k \in TmuxSessions \X Directories : cache[k] = NoLookup \/ Begun(cache[k])
  /\ \A t \in TmuxSessions : /\ \A c \in daemon[t].found : c # NoConv /\ Begun(c)
                             /\ Begun(daemon[t].latest)

\* What the daemon of a tmux session is about to bind is nobody else's there, and
\* no two agents of one tmux session share.
Exclusive ==
  /\ \A a \in Owners : record[a].is # "registered" => record[a].owned = {}
  /\ \A a, b \in Owners : a # b /\ tmuxOf[a] = tmuxOf[b] => record[a].owned \cap record[b].owned = {}
  /\ \A t \in TmuxSessions : daemon[t].at # "idle" =>
       /\ daemon[t].agent \in Owners /\ tmuxOf[daemon[t].agent] = t
       /\ \A b \in Owners \ {daemon[t].agent} : tmuxOf[b] = t => daemon[t].found \cap record[b].owned = {}

ConvInv == ConvTyped /\ IdsBegun /\ Exclusive

\* The last of some prompts in agents' directories is that of a conversation that has begun.
LEMMA LastConvIs ==
  ASSUME ConvTyped, IdsBegun, NEW is, is \subseteq DOMAIN prompts, \A i \in is : prompts[i].dir \in Directories
  PROVE  /\ LastConv(is) \in Nat /\ Begun(LastConv(is))
         /\ is # {} => LastConv(is) # NoConv /\ \E i \in is : LastConv(is) = prompts[i].conv
<1>1. CASE is = {}
  BY <1>1 DEF LastConv, NoConv, Begun, ConvTyped
<1>2. CASE is # {}
  <2>1. IsFiniteSet(is) /\ is \subseteq Int
    <3>1. DOMAIN prompts = 1 .. Len(prompts) /\ Len(prompts) \in Nat
      BY DEF ConvTyped
    <3>2. IsFiniteSet(DOMAIN prompts)
      BY <3>1, FS_Interval
    <3> QED
      BY <3>1, <3>2, FS_Subset
  <2>2. Max(is) \in is
    BY <1>2, <2>1, MaxIsIn
  <2> QED
    BY <1>2, <2>2 DEF LastConv, IdsBegun, Begun
<1> QED
  BY <1>1, <1>2

\* The values of what is not there have their types.
LEMMA NoEntryTyped == NoEntry \in Entries /\ NoBinding \in Bindings /\ NoRelaunch \in Relaunches
  BY DEF NoEntry, NoBinding, NoRelaunch, Entries, Bindings, Relaunches, NoConv

\* Conversations begin, and what runs or is about to be resumed has begun.
Grows ==
  /\ convs' \in Nat /\ convs <= convs'
  /\ running' \in [Owners -> Nat] /\ \A b \in Owners : running'[b] <= convs'
  /\ relaunch' \in [Owners -> Relaunches] /\ \A b \in Owners : relaunch'[b].active <= convs'

\* An entry of agent a that owns nothing new but conversations that begin.
GoodEntry(a, e) ==
  /\ e \in Entries /\ e.active <= convs'
  /\ \A c \in e.owned : c # NoConv /\ c <= convs' /\ (c \in record[a].owned \/ convs < c)
  /\ e.is # "registered" => e.owned = {}

\* A step that changes one agent's entry, and gives it nothing but what it owned
\* and what begins in it, keeps the invariant: launch, fork, relaunch, removal.
LEMMA EntryStep ==
  ASSUME ConvInv, Grows, NEW a \in Owners, NEW e, GoodEntry(a, e), record' = [record EXCEPT ![a] = e],
         UNCHANGED <<tmuxOf, prompts, cache, daemon>>
  PROVE  ConvInv'
<1> USE DEF Grows, GoodEntry
<1>1. ConvTyped'
  BY DEF ConvInv, ConvTyped
<1>2. IdsBegun'
  <2>1. \A b \in Owners : /\ \A c \in record'[b].owned : c # NoConv /\ c \in Nat /\ c <= convs'
                          /\ record'[b].active \in Nat /\ record'[b].active <= convs'
    BY DEF ConvInv, ConvTyped, IdsBegun, Begun, Entries
  <2>2. \A b \in Owners : relaunch'[b].active \in Nat /\ running'[b] \in Nat
    BY DEF Relaunches
  <2>3. \A c : Begun(c) => Begun(c)'
    BY DEF Begun, ConvInv, ConvTyped
  <2> QED
    BY <2>1, <2>2, <2>3 DEF ConvInv, ConvTyped, IdsBegun, Begun
<1>3. Exclusive'
  <2>1. \A b \in Owners \ {a} : record'[b] = record[b] /\ (tmuxOf[b] = tmuxOf[a] => record'[b].owned \cap e.owned = {})
    <3>1. \A b \in Owners \ {a} : record'[b] = record[b]
      BY DEF ConvInv, ConvTyped
    <3>2. convs \in Nat /\ \A b \in Owners : \A c \in record[b].owned : c \in Nat /\ c <= convs
      BY DEF ConvInv, ConvTyped, IdsBegun, Begun
    <3>3. \A b \in Owners \ {a} : tmuxOf[b] = tmuxOf[a] =>
            \A c \in record[b].owned : c \notin record[a].owned /\ ~ convs < c
      BY <3>2 DEF ConvInv, Exclusive
    <3>4. \A c \in e.owned : c \in record[a].owned \/ convs < c
      OBVIOUS
    <3> QED
      BY <3>1, <3>3, <3>4
  <2>2. record'[a] = e
    BY DEF ConvInv, ConvTyped
  <2>3. \A b \in Owners, c \in Owners : b # c /\ tmuxOf[b] = tmuxOf[c] => record'[b].owned \cap record'[c].owned = {}
    BY <2>1, <2>2 DEF ConvInv, Exclusive
  <2>4. ASSUME NEW t \in TmuxSessions, daemon[t].at # "idle"
        PROVE  \A b \in Owners \ {daemon[t].agent} : tmuxOf[b] = t => daemon[t].found \cap record'[b].owned = {}
    <3>1. convs \in Nat /\ \A c \in daemon[t].found : c \in Nat /\ c <= convs
      BY DEF ConvInv, ConvTyped, IdsBegun, Begun
    <3>2. \A c \in e.owned : c \in record[a].owned \/ convs < c
      OBVIOUS
    <3>3. \A b \in Owners \ {daemon[t].agent} : tmuxOf[b] = t => daemon[t].found \cap record[b].owned = {}
      BY <2>4 DEF ConvInv, Exclusive
    <3>4. \A c \in daemon[t].found : ~ convs < c
      BY <3>1
    <3>5. a # daemon[t].agent /\ tmuxOf[a] = t => daemon[t].found \cap e.owned = {}
      BY <3>2, <3>3, <3>4
    <3> QED
      BY <2>1, <2>2, <3>3, <3>5
  <2>5. \A b \in Owners : record'[b].is # "registered" => record'[b].owned = {}
    BY <2>1, <2>2 DEF ConvInv, Exclusive
  <2>6. \A t \in TmuxSessions : daemon[t].at # "idle" => daemon[t].agent \in Owners /\ tmuxOf[daemon[t].agent] = t
    BY DEF ConvInv, Exclusive
  <2> QED
    BY <2>3, <2>4, <2>5, <2>6 DEF Exclusive
<1> QED
  BY <1>1, <1>2, <1>3 DEF ConvInv

\* What the file, the cache and the daemon may hold after a step in which nobody's entry changes.
GoodFile ==
  /\ prompts' \in Seq(Prompts)
  /\ \A i \in DOMAIN prompts' : /\ prompts'[i].conv <= convs'
                                /\ prompts'[i].dir \in Directories => prompts'[i].conv # NoConv
GoodCache ==
  /\ cache' \in [TmuxSessions \X Directories -> Nat]
  /\ \A k \in TmuxSessions \X Directories : cache'[k] = NoLookup \/ cache'[k] <= convs'
GoodBinding(t, v) ==
  /\ v \in Bindings /\ v.latest <= convs'
  /\ \A c \in v.found : c # NoConv /\ c <= convs'
  /\ v.at # "idle" =>
       /\ v.agent \in Owners /\ tmuxOf[v.agent] = t
       /\ \A b \in Owners \ {v.agent} : tmuxOf[b] = t => v.found \cap record[b].owned = {}
GoodDaemon == daemon' \in [TmuxSessions -> Bindings] /\ \A t \in TmuxSessions : GoodBinding(t, daemon'[t])

\* So does one that changes no entry, when what the daemon holds afterwards is
\* nobody else's.
LEMMA OtherStep ==
  ASSUME ConvInv, Grows, GoodFile, GoodCache, GoodDaemon, UNCHANGED <<tmuxOf, record>>
  PROVE  ConvInv'
<1>1. ConvTyped'
  BY DEF ConvInv, ConvTyped, Grows, GoodFile, GoodCache, GoodDaemon
<1>2. IdsBegun'
  <2>1. ASSUME NEW a \in Owners
        PROVE  (/\ \A c \in record[a].owned : c # NoConv /\ Begun(c)
                /\ Begun(record[a].active) /\ Begun(running[a]) /\ Begun(relaunch[a].active))'
    <3>1. \A c : Begun(c) => (c \in Nat /\ c <= convs')
      BY DEF Begun, ConvInv, ConvTyped, Grows
    <3>2. running'[a] \in Nat /\ relaunch'[a].active \in Nat
      BY DEF Grows, Relaunches
    <3>3. running'[a] <= convs' /\ relaunch'[a].active <= convs'
      BY DEF Grows
    <3> QED
      BY <3>1, <3>2, <3>3 DEF ConvInv, IdsBegun, Begun
  <2>2. (\A i \in DOMAIN prompts : /\ Begun(prompts[i].conv)
                                   /\ prompts[i].dir \in Directories => prompts[i].conv # NoConv)'
    <3>1. \A i \in DOMAIN prompts' : prompts'[i] \in Prompts
      BY DEF GoodFile
    <3>2. \A p \in Prompts : p.conv \in Nat
      BY DEF Prompts
    <3> QED
      BY <3>1, <3>2 DEF GoodFile, Begun
  <2>3. (\A k \in TmuxSessions \X Directories : cache[k] = NoLookup \/ Begun(cache[k]))'
    <3>1. \A k \in TmuxSessions \X Directories : cache'[k] \in Nat /\ (cache'[k] = NoLookup \/ cache'[k] <= convs')
      BY DEF GoodCache
    <3>2. \A k \in TmuxSessions \X Directories : (cache[k] = NoLookup)' \/ Begun(cache[k])'
      BY <3>1 DEF Begun, NoLookup
    <3> QED
      BY <3>2
  <2>4. (\A t \in TmuxSessions : /\ \A c \in daemon[t].found : c # NoConv /\ Begun(c)
                                 /\ Begun(daemon[t].latest))'
    BY DEF GoodDaemon, GoodBinding, Bindings, Begun
  <2>5. (\A a \in Owners : /\ \A c \in record[a].owned : c # NoConv /\ Begun(c)
                           /\ Begun(record[a].active) /\ Begun(running[a]) /\ Begun(relaunch[a].active))'
    BY <2>1
  <2> QED
    BY ONLY <2>2, <2>3, <2>4, <2>5 DEF IdsBegun
<1>3. Exclusive'
  BY DEF ConvInv, Exclusive, GoodDaemon, GoodBinding
<1> QED
  BY <1>1, <1>2, <1>3 DEF ConvInv

\* What is left as it was stays good when conversations begin.
LEMMA StaysGood ==
  ASSUME ConvInv, convs' \in Nat, convs <= convs'
  PROVE  /\ UNCHANGED prompts => GoodFile
         /\ UNCHANGED cache => GoodCache
         /\ UNCHANGED <<daemon, record>> => GoodDaemon
         /\ UNCHANGED <<running, relaunch>> => Grows
<1>1. \A c : Begun(c) => (c \in Nat /\ c <= convs')
  BY DEF Begun, ConvInv, ConvTyped
<1>2. UNCHANGED prompts => GoodFile
  BY <1>1 DEF ConvInv, ConvTyped, IdsBegun, GoodFile
<1>3. UNCHANGED cache => GoodCache
  BY <1>1 DEF ConvInv, ConvTyped, IdsBegun, GoodCache
<1>4. UNCHANGED <<daemon, record>> => GoodDaemon
  BY <1>1 DEF ConvInv, ConvTyped, IdsBegun, Exclusive, GoodDaemon, GoodBinding
<1>5. UNCHANGED <<running, relaunch>> => Grows
  BY <1>1 DEF ConvInv, ConvTyped, IdsBegun, Grows
<1> QED
  BY <1>2, <1>3, <1>4, <1>5

\* A step of one daemon that leaves what it holds good leaves all good.
LEMMA OneDaemonSteps ==
  ASSUME ConvInv, convs' = convs, NEW t \in TmuxSessions, NEW v, GoodBinding(t, v), UNCHANGED <<tmuxOf, record>>,
         daemon' = [daemon EXCEPT ![t] = v]
  PROVE  GoodDaemon
<1>1. daemon \in [TmuxSessions -> Bindings] /\ \A u \in TmuxSessions : GoodBinding(u, daemon[u])
  BY DEF ConvInv, ConvTyped, IdsBegun, Begun, Exclusive, GoodBinding
<1>2. daemon' \in [TmuxSessions -> Bindings] /\ \A u \in TmuxSessions : (daemon'[u] = v /\ u = t) \/ daemon'[u] = daemon[u]
  BY <1>1 DEF GoodBinding
<1> QED
  BY <1>1, <1>2 DEF GoodDaemon

\* The bound is a number, and nobody works elsewhere.
LEMMA ConvAssumed == MaxConvs \in Nat /\ Elsewhere \notin Directories
  BY ConversationsAssumption DEF Directories

\* A conversation begins in the window of one agent, two if Claude does not honour
\* the id.
LEMMA Starts ==
  ASSUME ConvInv, NEW a \in Owners,
         HonouredOrNot(a) \/ (Begins(a) /\ running' = [running EXCEPT ![a] = convs + 1])
  PROVE  /\ convs' \in Nat /\ convs < convs'
         /\ UNCHANGED relaunch \/ relaunch' = [relaunch EXCEPT ![a] = NoRelaunch] => Grows
<1>1. convs \in Nat /\ running \in [Owners -> Nat] /\ \A b \in Owners : running[b] <= convs
  BY DEF ConvInv, ConvTyped, IdsBegun, Begun
<1>2. PICK k \in {1, 2} : convs' = convs + k /\ running' = [running EXCEPT ![a] = convs + k]
  BY DEF HonouredOrNot, Begins
<1>3. /\ relaunch \in [Owners -> Relaunches] /\ \A b \in Owners : relaunch[b].active \in Nat /\ relaunch[b].active <= convs
      /\ NoRelaunch \in Relaunches /\ NoRelaunch.active = 0
  BY NoEntryTyped DEF ConvInv, ConvTyped, IdsBegun, Begun, Relaunches, NoRelaunch, NoConv
<1>4. convs' \in Nat /\ convs < convs'
  BY <1>1, <1>2
<1>5. running' \in [Owners -> Nat] /\ \A b \in Owners : running'[b] <= convs'
  <2>1. convs + k \in Nat /\ convs <= convs + k
    BY <1>1
  <2>2. running' \in [Owners -> Nat] /\ \A b \in Owners : running'[b] \in {running[b], convs + k}
    BY <1>1, <1>2, <2>1
  <2> QED
    BY <1>1, <1>2, <2>1, <2>2
<1>6. ASSUME UNCHANGED relaunch \/ relaunch' = [relaunch EXCEPT ![a] = NoRelaunch]
      PROVE  relaunch' \in [Owners -> Relaunches] /\ \A b \in Owners : relaunch'[b].active <= convs'
  <2>1. relaunch' \in [Owners -> Relaunches] /\ \A b \in Owners : relaunch'[b] \in {relaunch[b], NoRelaunch}
    BY <1>3, <1>6
  <2>2. \A b \in Owners : relaunch'[b].active \in Nat /\ relaunch'[b].active <= convs
    <3>1. 0 <= convs
      BY <1>1
    <3> QED
      BY <1>3, <2>1, <3>1
  <2> QED
    BY <1>1, <1>4, <2>1, <2>2
<1> QED
  BY <1>1, <1>4, <1>5, <1>6 DEF Grows

\* Every step keeps the invariant.
LEMMA ConvStep ==
  ASSUME ConvInv, ConvNext
  PROVE  ConvInv'
<1>0. /\ convs \in Nat /\ record \in [Owners -> Entries] /\ running \in [Owners -> Nat]
      /\ relaunch \in [Owners -> Relaunches] /\ prompts \in Seq(Prompts) /\ cache \in [TmuxSessions \X Directories -> Nat]
      /\ daemon \in [TmuxSessions -> Bindings] /\ tmuxOf \in [Owners -> TmuxSessions] /\ Len(prompts) \in Nat
      /\ \A b \in Owners : running[b] <= convs /\ relaunch[b].active <= convs /\ record[b].active <= convs
      /\ \A b \in Owners : record[b] \in Entries /\ relaunch[b] \in Relaunches
  BY DEF ConvInv, ConvTyped, IdsBegun, Begun
<1>1. ASSUME NEW a \in Owners, LaunchAgent(a) PROVE ConvInv'
  <2> DEFINE e == [NoEntry EXCEPT !.is = "registered", !.owned = {convs + 1}, !.active = convs + 1, !.start = Len(prompts)]
  <2>1. e \in Entries /\ e.owned = {convs + 1} /\ e.active = convs + 1 /\ e.is = "registered"
    <3>1. convs + 1 \in Nat /\ {convs + 1} \in SUBSET Nat
      BY <1>0
    <3> QED
      BY <1>0, <3>1 DEF NoEntry, NoConv, Entries
  <2>2. record' = [record EXCEPT ![a] = e] /\ UNCHANGED <<tmuxOf, prompts, cache, daemon, relaunch>> /\ HonouredOrNot(a)
    BY <1>1 DEF LaunchAgent
  <2> HIDE DEF e
  <2>3. convs < convs' /\ Grows
    BY <2>2, Starts
  <2>4. GoodEntry(a, e)
    BY <1>0, <2>1, <2>3 DEF GoodEntry, Grows, NoConv
  <2> QED
    BY <2>2, <2>3, <2>4, EntryStep
<1>2. ASSUME NEW a \in Owners, NEW b \in Owners, LaunchFork(a, b) PROVE ConvInv'
  <2> DEFINE e == [NoEntry EXCEPT !.is = "registered", !.start = Len(prompts)]
  <2>1. e \in Entries /\ e.owned = {} /\ e.active = 0 /\ e.is = "registered"
    BY <1>0 DEF NoEntry, NoConv, Entries
  <2>2. record' = [record EXCEPT ![a] = e] /\ UNCHANGED <<tmuxOf, prompts, cache, daemon, relaunch>>
        /\ Begins(a) /\ running' = [running EXCEPT ![a] = convs + 1]
    BY <1>2 DEF LaunchFork
  <2> HIDE DEF e
  <2>3. convs < convs' /\ Grows
    BY <2>2, Starts
  <2>4. GoodEntry(a, e)
    BY <1>0, <2>1, <2>3 DEF GoodEntry, Grows, NoConv
  <2> QED
    BY <2>2, <2>3, <2>4, EntryStep
<1>3. ASSUME NEW a \in Owners, NEW fresh \in BOOLEAN, RelaunchBegins(a, fresh) PROVE ConvInv'
  <2> DEFINE r == [NoRelaunch EXCEPT !.at = "send", !.fresh = fresh, !.active = record[a].active]
  <2>1. r \in Relaunches /\ r.active = record[a].active
    BY <1>0 DEF NoRelaunch, Relaunches, Entries
  <2>2. relaunch' = [relaunch EXCEPT ![a] = r] /\ running' = [running EXCEPT ![a] = 0]
        /\ UNCHANGED <<tmuxOf, record, convs, prompts, cache, daemon>>
    BY <1>3 DEF RelaunchBegins, NoConv
  <2> HIDE DEF r
  <2>3. Grows
    BY <1>0, <2>1, <2>2 DEF Grows
  <2> QED
    BY <1>0, <2>2, <2>3, StaysGood, OtherStep
<1>4. ASSUME NEW a \in Owners, RelaunchSends(a) PROVE ConvInv'
  <2>1. relaunch' = [relaunch EXCEPT ![a] = NoRelaunch] /\ UNCHANGED <<tmuxOf, prompts, cache, daemon>> /\ record[a].is = "registered"
    BY <1>4 DEF RelaunchSends, Registered
  <2>2. CASE relaunch[a].fresh \/ relaunch[a].active = NoConv
    <3> DEFINE e == [record[a] EXCEPT !.is = "registered", !.owned = {convs + 1}, !.active = convs + 1]
    <3>1. e \in Entries /\ e.owned = {convs + 1} /\ e.active = convs + 1 /\ e.is = "registered"
      <4>1. convs + 1 \in Nat /\ {convs + 1} \in SUBSET Nat /\ record[a] \in Entries
        BY <1>0
      <4> QED
        BY <4>1 DEF Entries
    <3>2. record' = [record EXCEPT ![a] = e] /\ HonouredOrNot(a)
      BY <1>4, <2>2 DEF RelaunchSends
    <3> HIDE DEF e
    <3>3. convs < convs' /\ Grows
      BY <2>1, <3>2, Starts
    <3>4. GoodEntry(a, e)
      BY <1>0, <3>1, <3>3 DEF GoodEntry, Grows, NoConv
    <3> QED
      BY <2>1, <3>2, <3>3, <3>4, EntryStep
  <2>3. CASE ~ (relaunch[a].fresh \/ relaunch[a].active = NoConv)
    <3>1. record' = [record EXCEPT ![a].is = "registered"] /\ UNCHANGED convs
          /\ running' = [running EXCEPT ![a] = relaunch[a].active]
      BY <1>4, <2>3 DEF RelaunchSends
    <3>2. record' = record
      <4>1. [record[a] EXCEPT !.is = "registered"] = record[a]
        BY <1>0, <2>1 DEF Entries
      <4> QED
        BY <1>0, <3>1, <4>1
    <3>3. relaunch[a].active \in Nat /\ relaunch[a].active <= convs /\ NoRelaunch.active = 0
      BY <1>0 DEF Relaunches, NoRelaunch, NoConv
    <3>4. Grows
      <4>1. running' \in [Owners -> Nat] /\ \A b \in Owners : running'[b] <= convs'
        BY <1>0, <3>1, <3>3
      <4>2. relaunch' \in [Owners -> Relaunches] /\ \A b \in Owners : relaunch'[b].active <= convs'
        BY <1>0, <2>1, <3>1, <3>3, NoEntryTyped
      <4> QED
        BY <1>0, <3>1, <4>1, <4>2 DEF Grows
    <3> QED
      BY <1>0, <2>1, <3>1, <3>2, <3>4, StaysGood, OtherStep
  <2> QED
    BY <2>2, <2>3
<1>5. ASSUME NEW a \in Owners, RemoveAgent(a) PROVE ConvInv'
  <2> DEFINE e == [NoEntry EXCEPT !.is = "removed"]
  <2>1. e \in Entries /\ e.owned = {} /\ e.active = 0
    BY DEF NoEntry, NoConv, Entries
  <2>2. record' = [record EXCEPT ![a] = e] /\ UNCHANGED <<tmuxOf, convs, prompts, cache, daemon, relaunch>>
        /\ running' = [running EXCEPT ![a] = 0]
    BY <1>5 DEF RemoveAgent, NoConv
  <2> HIDE DEF e
  <2>3. Grows
    BY <1>0, <2>2 DEF Grows
  <2>4. GoodEntry(a, e)
    BY <1>0, <2>1, <2>2 DEF GoodEntry
  <2> QED
    BY <2>2, <2>3, <2>4, EntryStep
<1>6. ASSUME NEW a \in Owners, PromptAgent(a) PROVE ConvInv'
  <2> DEFINE p == [conv |-> running[a], dir |-> DirectoryOf[a]]
  <2>1. p \in Prompts /\ p.conv # NoConv /\ p.conv <= convs
    BY <1>0, <1>6 DEF PromptAgent, Prompts, Directories
  <2>2. prompts' = Append(prompts, p) /\ UNCHANGED <<tmuxOf, record, running, convs, daemon, relaunch>>
        /\ cache' = [k \in TmuxSessions \X Directories |-> NoLookup]
    BY <1>6 DEF PromptAgent
  <2> HIDE DEF p
  <2>3. GoodFile
    <3>1. prompts' \in Seq(Prompts) /\ \A i \in DOMAIN prompts' : prompts'[i] = p \/ (i \in DOMAIN prompts /\ prompts'[i] = prompts[i])
      BY <1>0, <2>1, <2>2
    <3> QED
      BY <2>1, <2>2, <3>1 DEF GoodFile, ConvInv, IdsBegun, Begun
  <2>4. GoodCache
    BY <2>2, ConvAssumed DEF GoodCache, NoLookup
  <2> QED
    BY <1>0, <2>2, <2>3, <2>4, StaysGood, OtherStep
<1>11. CASE PromptElsewhere
  <2> DEFINE p == [conv |-> NoConv, dir |-> Elsewhere]
  <2>1. p \in Prompts /\ p.dir \notin Directories /\ p.conv <= convs
    BY <1>0, ConvAssumed DEF Prompts, NoConv
  <2>2. prompts' = Append(prompts, p) /\ UNCHANGED <<tmuxOf, record, running, convs, daemon, relaunch>>
        /\ cache' = [k \in TmuxSessions \X Directories |-> NoLookup]
    BY <1>11 DEF PromptElsewhere
  <2> HIDE DEF p
  <2>3. GoodFile
    <3>1. prompts' \in Seq(Prompts) /\ \A i \in DOMAIN prompts' : prompts'[i] = p \/ (i \in DOMAIN prompts /\ prompts'[i] = prompts[i])
      BY <1>0, <2>1, <2>2
    <3> QED
      BY <2>1, <2>2, <3>1 DEF GoodFile, ConvInv, IdsBegun, Begun
  <2>4. GoodCache
    BY <2>2, ConvAssumed DEF GoodCache, NoLookup
  <2> QED
    BY <1>0, <2>2, <2>3, <2>4, StaysGood, OtherStep
<1>7. ASSUME NEW a \in Owners, ClearAgent(a) PROVE ConvInv'
  <2>1. Begins(a) /\ running' = [running EXCEPT ![a] = convs + 1] /\ UNCHANGED <<tmuxOf, record, prompts, cache, daemon, relaunch>>
    BY <1>7 DEF ClearAgent
  <2>2. convs' \in Nat /\ convs < convs' /\ Grows
    BY <2>1, Starts
  <2> QED
    BY <1>0, <2>1, <2>2, StaysGood, OtherStep
<1>8. ASSUME NEW a \in Owners, SyncLooks(a) PROVE ConvInv'
  <2> DEFINE t == tmuxOf[a]
             c == CachedFor(t, a)
             k == <<t, DirectoryOf[a]>>
             v == [at |-> "bind", agent |-> a, owned |-> record[a].owned, zero |-> record[a].stats = "zero",
                   latest |-> c, found |-> IF c = NoConv \/ OwnedByOthers(c, a) THEN {} ELSE {c}]
  <2>0. t \in TmuxSessions /\ k \in TmuxSessions \X Directories
    BY <1>0 DEF Directories
  <2>2. /\ cache' \in {cache, [cache EXCEPT ![k] = c]} /\ daemon' = [daemon EXCEPT ![t] = v]
        /\ UNCHANGED <<tmuxOf, record, running, convs, prompts, relaunch>>
    BY <1>8 DEF SyncLooks
  <2>3. c \in Nat /\ c <= convs
    <3>1. cache[k] = NoLookup => c = LastConv(InTail(a))
      BY DEF CachedFor
    <3>2. InTail(a) \subseteq DOMAIN prompts /\ \A i \in InTail(a) : prompts[i].dir \in Directories
      BY DEF InTail, Since, Directories
    <3>3. LastConv(InTail(a)) \in Nat /\ LastConv(InTail(a)) <= convs
      BY <3>2, LastConvIs DEF ConvInv, Begun
    <3>4. cache[k] # NoLookup => c = cache[k] /\ c \in Nat /\ c <= convs
      BY <2>0 DEF CachedFor, ConvInv, IdsBegun, Begun
    <3> QED
      BY <3>1, <3>3, <3>4
  <2>4. \A b \in Owners \ {a} : tmuxOf[b] = t /\ c # NoConv /\ ~ OwnedByOthers(c, a) => c \notin record[b].owned
    BY DEF OwnedByOthers, Others, Registered, ConvInv, Exclusive
  <2> HIDE DEF c, k
  <2>5. GoodCache
    <3>1. cache \in [TmuxSessions \X Directories -> Nat]
          /\ \A l \in TmuxSessions \X Directories : cache[l] = NoLookup \/ cache[l] <= convs
      BY DEF ConvInv, ConvTyped, IdsBegun, Begun
    <3>2. CASE cache' = cache
      BY <2>2, <3>1, <3>2 DEF GoodCache
    <3>3. CASE cache' = [cache EXCEPT ![k] = c]
      <4>1. cache' \in [TmuxSessions \X Directories -> Nat]
            /\ \A l \in TmuxSessions \X Directories : cache'[l] = cache[l] \/ cache'[l] = c
        BY <2>0, <2>3, <3>1, <3>3
      <4> QED
        BY <2>2, <2>3, <3>1, <4>1 DEF GoodCache
    <3> QED
      BY <2>2, <3>2, <3>3
  <2>6. GoodBinding(t, v)
    <3>1. (record[a].stats = "zero") \in BOOLEAN
      BY Zenon
    <3>2. v.found \subseteq {c} /\ v.latest = c /\ v.agent = a /\ record[a].owned \in SUBSET Nat
          /\ (v.found # {} => c # NoConv /\ ~ OwnedByOthers(c, a))
      BY <1>0 DEF Entries
    <3>3. v \in Bindings
      BY <2>3, <3>1, <3>2 DEF Bindings
    <3> HIDE DEF v
    <3> QED
      BY <2>2, <2>3, <2>4, <3>2, <3>3 DEF GoodBinding
  <2> HIDE DEF v
  <2>7. GoodDaemon
    BY <2>0, <2>2, <2>6, OneDaemonSteps
  <2> QED
    BY <1>0, <2>2, <2>5, <2>7, StaysGood, OtherStep
<1>9. ASSUME NEW t \in TmuxSessions, SyncDiscovers(t) PROVE ConvInv'
  <2> DEFINE a == daemon[t].agent
             free == {i \in Since(a) : prompts[i].conv \notin daemon[t].owned /\ ~ OwnedByOthers(prompts[i].conv, a)}
             f == {prompts[i].conv : i \in free}
             v == IF a \notin Registered THEN NoBinding
                  ELSE [daemon[t] EXCEPT !.at = "bind", !.owned = {}, !.zero = FALSE, !.latest = LastConv(free), !.found = f]
  <2>1. a \in Owners /\ tmuxOf[a] = t /\ UNCHANGED <<tmuxOf, record, running, convs, prompts, cache, relaunch>>
    BY <1>9 DEF SyncDiscovers, ConvInv, Exclusive
  <2>2. free \subseteq DOMAIN prompts /\ \A i \in free : prompts[i].dir \in Directories
    BY <2>1 DEF Since, Directories
  <2>3. LastConv(free) \in Nat /\ LastConv(free) <= convs
    BY <2>2, LastConvIs DEF ConvInv, Begun
  <2>4. \A i \in free, b \in Owners \ {a} : tmuxOf[b] = t => prompts[i].conv \notin record[b].owned
    BY <2>1 DEF OwnedByOthers, Others, Registered, ConvInv, Exclusive
  <2>5. \A i \in free : prompts[i].conv \in Nat /\ prompts[i].conv <= convs /\ prompts[i].conv # NoConv
    BY <2>2 DEF ConvInv, IdsBegun, Begun
  <2>6. daemon' = [daemon EXCEPT ![t] = v]
    BY <1>9 DEF SyncDiscovers
  <2> HIDE DEF free
  <2>7. GoodBinding(t, v)
    <3>0. GoodBinding(t, NoBinding)
      <4>1. NoBinding \in Bindings /\ NoBinding.found = {} /\ NoBinding.latest = 0 /\ NoBinding.at = "idle"
        BY NoEntryTyped DEF NoBinding, NoConv
      <4> QED
        BY <1>0, <2>1, <4>1 DEF GoodBinding
    <3>1. CASE v = NoBinding
      <4> HIDE DEF v
      <4> QED
        BY <3>0, <3>1
    <3>2. CASE v = [daemon[t] EXCEPT !.at = "bind", !.owned = {}, !.zero = FALSE, !.latest = LastConv(free), !.found = f]
      <4>1. f \in SUBSET Nat /\ (\A c \in f : c # NoConv /\ c <= convs)
            /\ \A b \in Owners \ {a} : tmuxOf[b] = t => f \cap record[b].owned = {}
        BY <2>4, <2>5
      <4> HIDE DEF f, v
      <4>2. daemon[t] \in Bindings
        BY <1>0
      <4>3. v \in Bindings /\ v.agent = a /\ v.latest = LastConv(free) /\ v.found = f
        BY <2>3, <3>2, <4>1, <4>2 DEF Bindings
      <4> QED
        BY <2>1, <2>3, <4>1, <4>3 DEF GoodBinding
    <3> QED
      BY <3>1, <3>2
  <2> HIDE DEF v
  <2>8. GoodDaemon
    BY <2>1, <2>6, <2>7, OneDaemonSteps
  <2> QED
    BY <1>0, <2>1, <2>8, StaysGood, OtherStep
<1>10. ASSUME NEW t \in TmuxSessions, SyncBinds(t) PROVE ConvInv'
  <2> DEFINE a == daemon[t].agent
             bound == IF daemon[t].found = {} THEN record[a]
                      ELSE [record[a] EXCEPT !.owned = record[a].owned \cup daemon[t].found, !.active = daemon[t].latest]
             next == [daemon[t] EXCEPT !.at = "discover", !.found = {}, !.latest = NoConv]
             v == IF daemon[t].owned # {} /\ daemon[t].zero THEN next ELSE NoBinding
  <2>1. /\ a \in Owners /\ tmuxOf[a] = t /\ UNCHANGED <<tmuxOf, running, convs, prompts, cache, relaunch>>
        /\ \A b \in Owners \ {a} : tmuxOf[b] = t => daemon[t].found \cap record[b].owned = {}
    BY <1>10 DEF SyncBinds, ConvInv, Exclusive
  <2>2. daemon' = [daemon EXCEPT ![t] = v]
    BY <1>10 DEF SyncBinds
  <2>3. v \in Bindings /\ v.found = {} /\ v.latest = 0 /\ (v.at # "idle" => v.agent = a)
    <3>1. NoBinding \in Bindings /\ NoBinding.found = {} /\ NoBinding.latest = 0 /\ NoBinding.at = "idle"
      BY NoEntryTyped DEF NoBinding, NoConv
    <3>2. next \in Bindings /\ next.found = {} /\ next.latest = 0 /\ next.agent = a
      <4>1. daemon[t] \in Bindings
        BY <1>0
      <4> QED
        BY <4>1 DEF Bindings, NoConv
    <3> HIDE DEF next
    <3> QED
      BY <3>1, <3>2
  <2>4. \/ record' = record
        \/ /\ record[a].is = "registered"
           /\ \E n \in {bound.stats, record[a].stats, TokensOf(a, bound.owned)} :
                record' = [record EXCEPT ![a] = [bound EXCEPT !.stats = n]]
    <3> HIDE DEF bound
    <3>1. a \in Registered => record[a].is = "registered"
      BY DEF Registered
    <3> QED
      BY <1>10, <3>1 DEF SyncBinds, CountedOrNot, bound
  <2> HIDE DEF v
  <2>5. CASE record' = record
    <3>1. GoodBinding(t, v)
      BY <1>0, <2>1, <2>3 DEF GoodBinding
    <3>2. GoodDaemon
      BY <2>1, <2>2, <2>5, <3>1, OneDaemonSteps
    <3> QED
      BY <1>0, <2>1, <2>5, <3>2, StaysGood, OtherStep
  <2>6. ASSUME record[a].is = "registered", NEW n \in {bound.stats, record[a].stats, TokensOf(a, bound.owned)},
               record' = [record EXCEPT ![a] = [bound EXCEPT !.stats = n]]
        PROVE  ConvInv'
    <3>1. bound \in Entries /\ bound.is = "registered"
          /\ bound.owned \subseteq record[a].owned \cup daemon[t].found
          /\ bound.active \in {record[a].active, daemon[t].latest}
      <4>1. record[a] \in Entries /\ daemon[t].latest \in Nat /\ (record[a].owned \cup daemon[t].found) \in SUBSET Nat
        BY <1>0, <2>1 DEF Entries, Bindings
      <4> QED
        BY <2>6, <4>1 DEF Entries
    <3>2. record[a] \in Entries /\ TokensOf(a, bound.owned) \in {"some", "zero"}
      BY <1>0, <2>1 DEF TokensOf
    <3> HIDE DEF bound
    <3> DEFINE e == [bound EXCEPT !.stats = n]
    <3>3. n \in {"none", "zero", "some"}
      BY <2>6, <3>1, <3>2 DEF Entries
    <3>4. e \in Entries /\ e.is = "registered" /\ e.owned = bound.owned /\ e.active = bound.active
      BY <3>1, <3>3 DEF Entries
    <3>5. record' = [record EXCEPT ![a] = e]
      BY <2>6
    <3> HIDE DEF e
    <3>6. record'[a] = e /\ \A b \in Owners \ {a} : record'[b] = record[b]
      BY <1>0, <2>1, <3>5
    <3>7. \A c \in e.owned : c # NoConv /\ Begun(c)
      BY <2>1, <3>1, <3>4 DEF ConvInv, IdsBegun
    <3>8. Begun(e.active)
      BY <2>1, <3>1, <3>4 DEF ConvInv, IdsBegun
    <3>12. daemon' \in [TmuxSessions -> Bindings] /\ daemon'[t] = v
           /\ \A u \in TmuxSessions : u # t => daemon'[u] = daemon[u]
      BY <1>0, <2>2, <2>3
    <3>9. ConvTyped'
      BY <1>0, <2>1, <3>4, <3>5, <3>12 DEF ConvTyped
    <3>10. IdsBegun'
      <4>1. (\A b \in Owners : /\ \A c \in record[b].owned : c # NoConv /\ Begun(c)
                               /\ Begun(record[b].active) /\ Begun(running[b]) /\ Begun(relaunch[b].active))'
        BY <2>1, <3>6, <3>7, <3>8 DEF ConvInv, IdsBegun, Begun
      <4>2. (\A i \in DOMAIN prompts : /\ Begun(prompts[i].conv)
                                       /\ prompts[i].dir \in Directories => prompts[i].conv # NoConv)'
            /\ (\A k \in TmuxSessions \X Directories : cache[k] = NoLookup \/ Begun(cache[k]))'
        BY <2>1 DEF ConvInv, IdsBegun, Begun, NoLookup
      <4>3. (\A u \in TmuxSessions : /\ \A c \in daemon[u].found : c # NoConv /\ Begun(c)
                                     /\ Begun(daemon[u].latest))'
        <5>1. ASSUME NEW u \in TmuxSessions
              PROVE  (/\ \A c \in daemon[u].found : c # NoConv /\ Begun(c)
                      /\ Begun(daemon[u].latest))'
          <6>1. CASE u = t
            BY <1>0, <2>1, <2>3, <3>12, <6>1 DEF Begun
          <6>2. CASE u # t
            BY <1>0, <2>1, <3>12, <6>2 DEF ConvInv, IdsBegun, Begun
          <6> QED
            BY <6>1, <6>2
        <5> QED
          BY <5>1
      <4> QED
        BY <4>1, <4>2, <4>3 DEF IdsBegun
    <3>11. Exclusive'
      <4>1. \A b \in Owners \ {a} : tmuxOf[b] = t => e.owned \cap record[b].owned = {}
        BY <2>1, <3>1, <3>4 DEF ConvInv, Exclusive
      <4>2. \A b, c \in Owners : b # c /\ tmuxOf[b] = tmuxOf[c] => record'[b].owned \cap record'[c].owned = {}
        BY <2>1, <3>6, <4>1 DEF ConvInv, Exclusive
      <4>3. \A b \in Owners : record'[b].is # "registered" => record'[b].owned = {}
        BY <2>1, <3>4, <3>6 DEF ConvInv, Exclusive
      <4>4. ASSUME NEW u \in TmuxSessions, daemon'[u].at # "idle"
            PROVE  /\ daemon'[u].agent \in Owners /\ tmuxOf[daemon'[u].agent] = u
                   /\ \A b \in Owners \ {daemon'[u].agent} : tmuxOf[b] = u => daemon'[u].found \cap record'[b].owned = {}
        <5>1. CASE u = t
          BY <2>1, <2>3, <3>12, <4>4, <5>1
        <5>2. CASE u # t
          <6>1. daemon'[u] = daemon[u]
            BY <3>12, <5>2
          <6>2. /\ daemon[u].agent \in Owners /\ tmuxOf[daemon[u].agent] = u
                /\ \A b \in Owners \ {daemon[u].agent} : tmuxOf[b] = u => daemon[u].found \cap record[b].owned = {}
            BY <4>4, <6>1 DEF ConvInv, Exclusive
          <6>3. \A b \in Owners : tmuxOf[b] = u => record'[b] = record[b]
            BY <2>1, <3>6, <5>2
          <6> QED
            BY <6>1, <6>2, <6>3
        <5> QED
          BY <5>1, <5>2
      <4> QED
        BY <2>1, <4>2, <4>3, <4>4 DEF Exclusive
    <3> QED
      BY <3>9, <3>10, <3>11 DEF ConvInv
  <2> QED
    BY <2>4, <2>5, <2>6
<1> QED
  BY <1>1, <1>2, <1>3, <1>4, <1>5, <1>6, <1>7, <1>8, <1>9, <1>10, <1>11 DEF ConvNext

\* The inductive invariant holds of every behaviour.
LEMMA ConvKept == ConvSpec => []ConvInv
<1>1. ConvInit => ConvInv
  <2>1. ConvInit => ConvTyped
    BY NoEntryTyped, ConvAssumed DEF ConvInit, ConvTyped, NoLookup, NoConv, Prompts
  <2>2. ConvInit => IdsBegun
    BY DEF ConvInit, IdsBegun, Begun, NoLookup, NoConv, NoEntry, NoBinding, NoRelaunch
  <2>3. ConvInit => Exclusive
    BY DEF ConvInit, Exclusive, NoEntry, NoBinding
  <2> QED
    BY <2>1, <2>2, <2>3 DEF ConvInv
<1>2. ConvInv /\ [ConvNext]_convVars => ConvInv'
  <2>1. CASE ConvNext
    BY <2>1, ConvStep
  <2>2. CASE UNCHANGED convVars
    BY <2>2 DEF convVars, ConvInv, ConvTyped, IdsBegun, Begun, Exclusive, NoLookup
  <2> QED
    BY <2>1, <2>2
<1> QED
  BY <1>1, <1>2, PTL DEF ConvSpec

\* For any number of agents in one directory, launched, forked, restarted, cleared
\* and removed while the daemons of any number of tmux sessions look for their
\* conversations: in one tmux session no conversation has two owners.  The inductive part is that what the daemon is about to bind is
\* nobody else's, and that whatever is prescribed in between is new.
THEOREM ConversationsKept == ConvSpec => []OneOwner
<1>1. ConvInv => OneOwner
  BY DEF ConvInv, Exclusive, OneOwner, Registered
<1> QED
  BY <1>1, ConvKept, PTL

-----------------------------------------------------------------------------
(* Tokens *)

\* The types; every call that is anywhere was made, and is numbered.
TokensTyped ==
  /\ clock \in Nat
  /\ started \in [Billed -> Int] /\ \A a \in Billed : started[a] <= clock
  /\ place \in [Billed -> {"host", "container"}]
  /\ own \in [Billed -> SUBSET Transcripts]
  /\ current \in [Billed -> Transcripts \cup {NoFile}]
  /\ source \in [Billed -> Transcripts \cup {NoFile}]
  /\ recorded \in [Billed -> Nat] /\ owed \in [Billed -> Nat]

CallsKnown ==
  /\ IsFiniteSet(Made)
  /\ \A m \in Made : m.number \in Nat /\ m.number <= Cardinality(Made) /\ m.at \in Nat
  /\ calls \in [Billed -> SUBSET Made] /\ late \in [Billed -> SUBSET Made]
  /\ file \in [Transcripts -> SUBSET Made] /\ agentLogs \in [Transcripts -> SUBSET Made]

\* Nobody has the conversation of another, and none that is in use is empty.
NoneEmpty(a) ==
  /\ current[a] # NoFile => file[current[a]] # {}
  /\ source[a] # NoFile => file[source[a]] # {}
  /\ \A c \in own[a] : file[c] # {}

ApartFrom(a, b) ==
  /\ own[a] \cap own[b] = {} /\ current[a] \notin own[b]
  /\ current[a] # NoFile => current[a] # current[b]

FilesApart ==
  /\ \A a \in Billed : NoneEmpty(a)
  /\ \A c \in Transcripts : file[c] = {} => agentLogs[c] = {}
  /\ \A a, b \in Billed : a # b => ApartFrom(a, b)

\* The calls in a conversation that were made since the agent was started.
CalledSince(a, log) == {m \in log : m.at >= started[a]}

\* How an agent's conversations begin: with nothing, or with a copy.
BeginsWell(a) ==
  /\ ~Alive(a) => own[a] = {} /\ current[a] = NoFile /\ source[a] = NoFile /\ place[a] = "host"
  /\ source[a] # NoFile => place[a] = "host" /\ own[a] = {} /\ current[a] = NoFile
  /\ current[a] # NoFile /\ current[a] \notin own[a] =>
       /\ place[a] = "host" /\ own[a] = {} /\ agentLogs[current[a]] = {}
       /\ CalledSince(a, file[current[a]]) = late[a]
  /\ place[a] = "container" => \A c \in own[a] : CalledSince(a, file[c]) = file[c]

Beginnings == \A a \in Billed : BeginsWell(a)

\* The copied calls that are in the agent's conversations.
Shared(a) == {m \in late[a] : \E c \in own[a] : m \in file[c]}

\* What is counted from the files is what was called, and what was copied.
BooksOf(a) == SumOf(CountedIn(a), own[a]) = Cardinality(calls[a]) + Cardinality(Shared(a))

TokensInv ==
  /\ TokensTyped /\ CallsKnown /\ FilesApart /\ Beginnings
  /\ (\A a \in Billed : BooksOf(a)) /\ TokensAreTrue

\* Sets of calls are finite, and there are finitely many conversations.
LEMMA TokensFinite ==
  ASSUME CallsKnown
  PROVE  /\ IsFiniteSet(Transcripts) /\ \A S \in SUBSET Transcripts : IsFiniteSet(S)
         /\ \A S \in SUBSET Made : IsFiniteSet(S) /\ Cardinality(S) \in Nat
<1>1. IsFiniteSet(Transcripts)
  BY TokenAssumption, FS_Interval DEF Transcripts
<1> QED
  BY <1>1, FS_Subset, FS_CardinalityType DEF CallsKnown

\* A new call is in no file yet.
LEMMA NewCallIsNew ==
  ASSUME CallsKnown, clock \in Nat
  PROVE  /\ NewCall.at = clock /\ NewCall.number = Cardinality(Made) + 1
         /\ NewCall \notin Made
         /\ \A S \in SUBSET Made : Cardinality(S \cup {NewCall}) = Cardinality(S) + 1
<1>1. Cardinality(Made) \in Nat
  BY FS_CardinalityType DEF CallsKnown
<1>2. NewCall.at = clock /\ NewCall.number = Cardinality(Made) + 1
  BY DEF NewCall
<1>3. NewCall \notin Made
  BY <1>1, <1>2 DEF CallsKnown
<1> QED
  BY <1>2, <1>3, TokensFinite, FS_AddElement

\* A call adds itself, and nothing else, to the calls that were made.
LEMMA MadeGrows ==
  ASSUME CallsKnown, clock \in Nat, NEW a \in Billed, Calls(a)
  PROVE  /\ Made' = Made \cup {NewCall} /\ calls' \in [Billed -> SUBSET Made']
         /\ IsFiniteSet(Made')
         /\ \A m \in Made' : m.number \in Nat /\ m.number <= Cardinality(Made') /\ m.at \in Nat
<1> DEFINE n == NewCall
<1>1. calls' = [calls EXCEPT ![a] = @ \cup {n}] /\ calls \in [Billed -> SUBSET Made]
  BY DEF Calls, CallsKnown
<1> HIDE DEF n
<1>2. Made' = Made \cup {n}
  <2>1. \A b \in Billed : calls'[b] = IF b = a THEN calls[a] \cup {n} ELSE calls[b]
    BY <1>1
  <2>2. Made = UNION {calls[b] : b \in Billed} /\ Made' = UNION {calls'[b] : b \in Billed}
    BY DEF Made
  <2>3. ASSUME NEW m \in Made' PROVE m \in Made \cup {n}
    <3>1. PICK b \in Billed : m \in calls'[b]
      BY <2>2, <2>3
    <3>2. m \in calls[b] \/ m = n
      BY <2>1, <3>1
    <3> QED
      BY <2>2, <3>2
  <2>4. ASSUME NEW m \in Made PROVE m \in Made'
    BY <2>1, <2>2, <2>4
  <2>5. n \in Made'
    BY <2>1, <2>2
  <2> QED
    BY <2>3, <2>4, <2>5
<1>3. calls' \in [Billed -> SUBSET Made']
  BY <1>1, <1>2
<1>4. IsFiniteSet(Made') /\ Cardinality(Made') = Cardinality(Made) + 1
  BY <1>2, NewCallIsNew, FS_AddElement DEF n, CallsKnown
<1>5. ASSUME NEW m \in Made'
      PROVE  m.number \in Nat /\ m.number <= Cardinality(Made') /\ m.at \in Nat
  <2>1. Cardinality(Made) \in Nat
    BY TokensFinite
  <2>2. CASE m = n
    BY <1>4, <2>1, <2>2, NewCallIsNew DEF n
  <2>3. CASE m \in Made
    BY <1>4, <2>1, <2>3 DEF CallsKnown
  <2> QED
    BY <1>2, <2>2, <2>3
<1> QED
  BY <1>2, <1>3, <1>4, <1>5 DEF n

\* Where local time is UTC, what _parse_session_lines lets pass are the calls since
\* the start.
LEMMA RecentIs ==
  ASSUME Offset = 0, NEW s \in Int, NEW S, \A m \in S : m.at \in Nat
  PROVE  {m \in S : Recent(m, s)} = {m \in S : m.at >= s}
  BY DEF Recent

\* So a conversation contributes the calls in its file and in those of its subagents
\* since the start.
LEMMA CountedIs ==
  ASSUME Offset = 0, TokensTyped, CallsKnown, NEW a \in Billed, NEW c \in Transcripts
  PROVE  CountedIn(a)[c] = Cardinality(CalledSince(a, file[c])) + Cardinality(CalledSince(a, agentLogs[c]))
<1>1. \A S \in SUBSET Made : {m \in S : Recent(m, SessionStart(a))} = CalledSince(a, S)
  BY DEF Recent, SessionStart, CalledSince, TokensTyped, CallsKnown
<1>2. file[c] \in SUBSET Made /\ agentLogs[c] \in SUBSET Made
  BY DEF CallsKnown
<1> QED
  BY <1>1, <1>2 DEF CountedIn, SubagentCalls

\* Whatever local time is, a conversation contributes a number of calls.
LEMMA CountedIsNumber ==
  ASSUME CallsKnown, NEW a \in Billed, NEW c \in Transcripts
  PROVE  CountedIn(a)[c] \in Nat
<1> DEFINE recent(log) == {m \in log : Recent(m, SessionStart(a))}
<1>1. recent(file[c]) \in SUBSET Made /\ recent(agentLogs[c]) \in SUBSET Made
  BY DEF CallsKnown
<1>2. CountedIn(a)[c] = Cardinality(recent(file[c])) + Cardinality(recent(agentLogs[c]))
  BY DEF CountedIn, SubagentCalls
<1> HIDE DEF recent
<1> QED
  BY <1>1, <1>2, TokensFinite

\* The daemon's sums are numbers.
LEMMA TotalsAreNumbers ==
  ASSUME TokensTyped, CallsKnown, NEW a \in Billed
  PROVE  /\ HostTotal(a) = SumOf(CountedIn(a), own[a]) /\ HostTotal(a) \in Nat
         /\ \A read \in SUBSET own[a] :
              /\ MapThenSumSet(LAMBDA c : InContainer[c], read) = SumOf(InContainer, read)
              /\ SumOf(InContainer, read) \in Nat
         /\ Cardinality(calls[a]) + Cardinality(Shared(a)) \in Nat
<1>1. own[a] \subseteq Transcripts /\ \A S \in SUBSET own[a] : IsFiniteSet(S)
  BY TokensFinite DEF TokensTyped
<1>2. HostTotal(a) = SumOf(CountedIn(a), own[a])
  BY DEF HostTotal, SumOf
<1>3. HostTotal(a) \in Nat
  <2>1. \A c \in own[a] : CountedIn(a)[c] \in Nat
    BY <1>1, CountedIsNumber
  <2>2. IsFiniteSet(own[a])
    BY <1>1
  <2>3. SumOf(CountedIn(a), own[a]) \in Nat
    BY <2>1, <2>2, SumType
  <2> QED
    BY <1>2, <2>3
<1>4. ASSUME NEW read \in SUBSET own[a] PROVE SumOf(InContainer, read) \in Nat
  <2>1. \A c \in read : InContainer[c] \in Nat
    BY <1>1, TokensFinite DEF InContainer, CallsKnown
  <2> QED
    BY <1>1, <2>1, SumType
<1>5. \A read : MapThenSumSet(LAMBDA c : InContainer[c], read) = SumOf(InContainer, read)
  BY DEF SumOf
<1>6. Cardinality(calls[a]) + Cardinality(Shared(a)) \in Nat
  <2>1. calls[a] \in SUBSET Made /\ Shared(a) \in SUBSET Made
    BY DEF CallsKnown, Shared
  <2> QED
    BY <2>1, TokensFinite
<1> QED
  BY <1>2, <1>3, <1>4, <1>5, <1>6

\* Every step keeps the types.
LEMMA TokenTypes ==
  ASSUME TokensTyped, CallsKnown, TokenNext
  PROVE  TokensTyped'
<1> USE DEF TokensTyped
<1>1. ASSUME NEW a \in Billed, Launches(a) PROVE TokensTyped'
  BY <1>1 DEF Launches
<1>2. ASSUME NEW a \in Billed, NEW b \in Billed, Forks(a, b) PROVE TokensTyped'
  BY <1>2 DEF Forks
<1>3. ASSUME NEW b \in Billed, ForkCopies(b) PROVE TokensTyped'
  BY <1>3 DEF ForkCopies, Unused
<1>4. ASSUME NEW a \in Billed, Answers(a) PROVE TokensTyped'
  <2>1. PICK c \in Transcripts : /\ current' = [current EXCEPT ![a] = c]
                                 /\ own' = [own EXCEPT ![a] = @ \cup {c}]
    BY <1>4 DEF Answers, Unused
  <2> QED
    BY <1>4, <2>1 DEF Answers
<1>5. ASSUME NEW a \in Billed, AsksSubagent(a) \/ Compacts(a) \/ ClearsConversation(a)
      PROVE  TokensTyped'
  BY <1>5 DEF AsksSubagent, Compacts, ClearsConversation
<1>6. ASSUME NEW a \in Billed, SyncsHost(a) \/ SyncsContainer(a) PROVE TokensTyped'
  <2>1. PICK total \in Nat : Records(a, total)
    BY <1>6, TotalsAreNumbers DEF SyncsHost, SyncsContainer
  <2>2. recorded' \in [Billed -> Nat]
    BY <2>1 DEF Records
  <2>3. owed' = [owed EXCEPT ![a] = Cardinality(calls[a]) + Cardinality(Shared(a))]
    BY <2>1 DEF Records, Shared
  <2>4. owed' \in [Billed -> Nat]
    BY <2>3, TotalsAreNumbers
  <2> QED
    BY <2>1, <2>2, <2>4 DEF Records
<1>7. CASE HourPasses
  BY <1>7 DEF HourPasses
<1> QED
  BY <1>1, <1>2, <1>3, <1>4, <1>5, <1>6, <1>7 DEF TokenNext

\* Every step leaves in the files only calls that were made, each with a number of
\* its own.
LEMMA CallsStep ==
  ASSUME TokensTyped, CallsKnown, TokenNext
  PROVE  CallsKnown'
<1>1. ASSUME UNCHANGED calls,
             late' \in [Billed -> SUBSET Made],
             file' \in [Transcripts -> SUBSET Made],
             agentLogs' \in [Transcripts -> SUBSET Made]
      PROVE  CallsKnown'
  <2>1. Made' = Made
    BY <1>1 DEF Made
  <2> QED
    BY <1>1, <2>1 DEF CallsKnown
<1>2. ASSUME NEW a \in Billed, Calls(a),
             late' \in [Billed -> SUBSET (Made \cup {NewCall})],
             file' \in [Transcripts -> SUBSET (Made \cup {NewCall})],
             agentLogs' \in [Transcripts -> SUBSET (Made \cup {NewCall})]
      PROVE  CallsKnown'
  BY <1>2, MadeGrows DEF CallsKnown, TokensTyped
<1>3. ASSUME NEW b \in Billed, ForkCopies(b) PROVE CallsKnown'
  <2>1. PICK c \in Transcripts : file' = [file EXCEPT ![c] = file[source[b]]]
    BY <1>3 DEF ForkCopies, Unused
  <2>2. source[b] \in Transcripts
    BY <1>3 DEF ForkCopies, TokensTyped
  <2>3. file' \in [Transcripts -> SUBSET Made]
    BY <2>1, <2>2 DEF CallsKnown
  <2>4. late' \in [Billed -> SUBSET Made]
    BY <1>3, <2>2 DEF ForkCopies, CallsKnown
  <2>5. UNCHANGED <<calls, agentLogs>>
    BY <1>3 DEF ForkCopies
  <2>6. agentLogs' \in [Transcripts -> SUBSET Made]
    BY <2>5 DEF CallsKnown
  <2> QED
    BY <1>1, <2>3, <2>4, <2>5, <2>6
<1>4. ASSUME NEW a \in Billed, Answers(a) PROVE CallsKnown'
  <2> DEFINE n == NewCall
  <2>1. PICK c \in Transcripts : file' = [file EXCEPT ![c] = @ \cup {n}]
    BY <1>4 DEF Answers, Unused, TokensTyped
  <2> HIDE DEF n
  <2>2. file' \in [Transcripts -> SUBSET (Made \cup {n})]
    BY <2>1 DEF CallsKnown
  <2>3. Calls(a) /\ UNCHANGED <<late, agentLogs>>
    BY <1>4 DEF Answers
  <2>4. late' \in [Billed -> SUBSET (Made \cup {n})] /\ agentLogs' \in [Transcripts -> SUBSET (Made \cup {n})]
    BY <2>3 DEF CallsKnown
  <2> QED
    BY <1>2, <2>2, <2>3, <2>4 DEF n
<1>5. ASSUME NEW a \in Billed, AsksSubagent(a) PROVE CallsKnown'
  <2> DEFINE n == NewCall
  <2>1. agentLogs' = [agentLogs EXCEPT ![current[a]] = @ \cup {n}]
    BY <1>5 DEF AsksSubagent
  <2>2. current[a] \in Transcripts
    BY <1>5 DEF AsksSubagent, TokensTyped
  <2> HIDE DEF n
  <2>3. agentLogs' \in [Transcripts -> SUBSET (Made \cup {n})]
    BY <2>1, <2>2 DEF CallsKnown
  <2>4. Calls(a) /\ UNCHANGED <<late, file>>
    BY <1>5 DEF AsksSubagent
  <2>5. late' \in [Billed -> SUBSET (Made \cup {n})] /\ file' \in [Transcripts -> SUBSET (Made \cup {n})]
    BY <2>4 DEF CallsKnown
  <2> QED
    BY <1>2, <2>3, <2>4, <2>5 DEF n
<1>6. ASSUME UNCHANGED <<calls, late, file, agentLogs>> PROVE CallsKnown'
  BY <1>1, <1>6 DEF CallsKnown
<1> QED
  BY <1>3, <1>4, <1>5, <1>6 DEF TokenNext, Launches, Forks, Compacts, ClearsConversation, HourPasses,
     SyncsHost,
     SyncsContainer, Records

\* A conversation that an agent begins, or goes on with, is nobody else's.
LEMMA TakenApart ==
  ASSUME TokensTyped, FilesApart, NEW a \in Billed, NEW c \in Transcripts,
         c \in Unused \/ c = current[a]
  PROVE  \A b \in Billed \ {a} : c \notin own[b] /\ c # current[b]
<1>1. c # NoFile
  BY DEF Transcripts, NoFile
<1> QED
  BY <1>1 DEF FilesApart, NoneEmpty, ApartFrom, TokensTyped, Unused

\* No step mixes the conversations of two agents.
LEMMA ApartStep ==
  ASSUME TokensTyped, CallsKnown, FilesApart, TokenNext
  PROVE  FilesApart'
<1> USE DEF TokensTyped
<1>0. \A c \in Transcripts : c # NoFile
  BY DEF Transcripts, NoFile
<1>1. ASSUME UNCHANGED <<own, current, source, file, agentLogs>> PROVE FilesApart'
  BY <1>1 DEF FilesApart, NoneEmpty, ApartFrom
<1>2. ASSUME NEW a \in Billed, NEW b \in Billed, Forks(a, b) PROVE FilesApart'
  <2>1. source' = [source EXCEPT ![b] = current[a]] /\ current[a] # NoFile
        /\ UNCHANGED <<own, current, file, agentLogs>>
    BY <1>2 DEF Forks
  <2> QED
    BY <2>1 DEF FilesApart, NoneEmpty, ApartFrom
<1>3. ASSUME NEW b \in Billed, ForkCopies(b) PROVE FilesApart'
  <2>1. PICK c \in Unused : /\ file' = [file EXCEPT ![c] = file[source[b]]]
                             /\ current' = [current EXCEPT ![b] = c]
    BY <1>3 DEF ForkCopies
  <2>2. c \in Transcripts /\ file[c] = {} /\ source[b] # NoFile
    BY <1>3 DEF ForkCopies, Unused
  <2>3. \A d \in Billed \ {b} : c \notin own[d] /\ c # current[d]
    BY <2>2, TakenApart
  <2>4. source' = [source EXCEPT ![b] = NoFile] /\ UNCHANGED <<own, agentLogs>>
    BY <1>3 DEF ForkCopies
  <2>5. \A d \in Transcripts : file[d] # {} => file'[d] # {}
    BY <2>1, <2>2 DEF CallsKnown
  <2>6. file'[c] # {}
    BY <2>1, <2>2 DEF CallsKnown, FilesApart, NoneEmpty, ApartFrom
  <2>7. \A a \in Billed : NoneEmpty(a)'
    BY <2>1, <2>2, <2>4, <2>5, <2>6 DEF FilesApart, NoneEmpty
  <2>8. \A d \in Transcripts : file'[d] = {} => agentLogs'[d] = {}
    BY <2>4, <2>5 DEF FilesApart, NoneEmpty, ApartFrom
  <2>9. ASSUME NEW d \in Billed, NEW e \in Billed, d # e
        PROVE  ApartFrom(d, e)'
    BY <2>1, <2>3, <2>4, <2>9 DEF FilesApart, NoneEmpty, ApartFrom
  <2> QED
    BY <2>7, <2>8, <2>9 DEF FilesApart
<1>4. ASSUME NEW a \in Billed, Answers(a) PROVE FilesApart'
  <2> DEFINE n == NewCall
  <2>1. PICK c \in IF current[a] = NoFile THEN Unused ELSE {current[a]} :
               /\ file' = [file EXCEPT ![c] = @ \cup {n}]
               /\ current' = [current EXCEPT ![a] = c]
               /\ own' = [own EXCEPT ![a] = @ \cup {c}]
    BY <1>4 DEF Answers
  <2> HIDE DEF n
  <2>2. c \in Transcripts /\ (c \in Unused \/ c = current[a])
    BY <2>1 DEF Unused
  <2>3. \A d \in Billed \ {a} : c \notin own[d] /\ c # current[d]
    BY <2>2, TakenApart
  <2>4. UNCHANGED <<source, agentLogs>>
    BY <1>4 DEF Answers
  <2>5. \A d \in Transcripts : file[d] # {} => file'[d] # {}
    BY <2>1, <2>2 DEF CallsKnown
  <2>6. file'[c] # {}
    BY <2>1, <2>2 DEF CallsKnown
  <2>7. \A b \in Billed : NoneEmpty(b)'
    BY <2>1, <2>2, <2>4, <2>5, <2>6 DEF FilesApart, NoneEmpty
  <2>8. \A d \in Transcripts : file'[d] = {} => agentLogs'[d] = {}
    BY <2>4, <2>5 DEF FilesApart, NoneEmpty, ApartFrom
  <2>9. ASSUME NEW d \in Billed, NEW e \in Billed, d # e
        PROVE  ApartFrom(d, e)'
    <3>1. own'[d] \cap own'[e] = {}
      BY <2>1, <2>3, <2>9 DEF FilesApart, NoneEmpty, ApartFrom
    <3>2. current'[d] \notin own'[e]
      BY <2>1, <2>3, <2>9 DEF FilesApart, NoneEmpty, ApartFrom
    <3>3. current'[d] # NoFile => current'[d] # current'[e]
      BY <2>1, <2>3, <2>9 DEF FilesApart, NoneEmpty, ApartFrom
    <3> QED
      BY <3>1, <3>2, <3>3 DEF ApartFrom
  <2> QED
    BY <2>7, <2>8, <2>9 DEF FilesApart
<1>5. ASSUME NEW a \in Billed, AsksSubagent(a) PROVE FilesApart'
  <2> DEFINE n == NewCall
  <2>1. agentLogs' = [agentLogs EXCEPT ![current[a]] = @ \cup {n}] /\ current[a] \in own[a]
        /\ UNCHANGED <<own, current, source, file>>
    BY <1>5 DEF AsksSubagent
  <2> HIDE DEF n
  <2>2. \A c \in Transcripts : file[c] = {} => agentLogs'[c] = {}
    BY <2>1 DEF FilesApart, NoneEmpty, ApartFrom, CallsKnown
  <2> QED
    BY <2>1, <2>2 DEF FilesApart, NoneEmpty, ApartFrom
<1>6. ASSUME NEW a \in Billed, ClearsConversation(a) PROVE FilesApart'
  <2>1. current' = [current EXCEPT ![a] = NoFile] /\ UNCHANGED <<own, source, file, agentLogs>>
    BY <1>6 DEF ClearsConversation
  <2> QED
    BY <1>0, <2>1 DEF FilesApart, NoneEmpty, ApartFrom
<1> QED
  BY <1>1, <1>2, <1>3, <1>4, <1>5, <1>6 DEF TokenNext, Launches, Compacts, HourPasses, SyncsHost,
     SyncsContainer, Records

\* A conversation that had no prompt yet is the copy a fork began with, and every
\* step keeps that: an agent in a container never has one.
LEMMA BeginningsStep ==
  ASSUME TokensTyped, CallsKnown, FilesApart, Beginnings, TokenNext
  PROVE  Beginnings'
<1> USE DEF TokensTyped
<1>1. ASSUME NEW a \in Billed,
             started'[a] = started[a], place'[a] = place[a], own'[a] = own[a],
             current'[a] \in {current[a], NoFile}, source'[a] = source[a], late'[a] = late[a],
             \A c \in own[a] \cup ({current[a]} \cap Transcripts) : file'[c] = file[c],
             current[a] \notin own[a] /\ current[a] # NoFile => agentLogs'[current[a]] = agentLogs[current[a]]
      PROVE  BeginsWell(a)'
  BY <1>1 DEF Beginnings, BeginsWell, Alive, CalledSince
<1>2. ASSUME UNCHANGED <<started, place, own, current, source, file, agentLogs, late>> PROVE Beginnings'
  BY <1>1, <1>2 DEF Beginnings
<1>3. ASSUME NEW a \in Billed, Launches(a) PROVE Beginnings'
  <2>1. UNCHANGED <<own, current, source, file, agentLogs, late>>
    BY <1>3 DEF Launches
  <2>2. own[a] = {} /\ current[a] = NoFile /\ source[a] = NoFile /\ started'[a] # NotYet
    BY <1>3 DEF Launches, Beginnings, BeginsWell, NotYet
  <2>3. BeginsWell(a)'
    BY <2>1, <2>2 DEF BeginsWell, Alive
  <2>4. \A b \in Billed \ {a} : started'[b] = started[b] /\ place'[b] = place[b]
    BY <1>3 DEF Launches
  <2> QED
    BY <1>1, <2>1, <2>3, <2>4 DEF Beginnings
<1>4. ASSUME NEW a \in Billed, NEW b \in Billed, Forks(a, b) PROVE Beginnings'
  <2>1. UNCHANGED <<place, own, current, file, agentLogs, late>>
    BY <1>4 DEF Forks
  <2>2. own[b] = {} /\ current[b] = NoFile /\ place[b] = "host" /\ started'[b] # NotYet
    BY <1>4 DEF Forks, Beginnings, BeginsWell, NotYet
  <2>3. BeginsWell(b)'
    BY <2>1, <2>2 DEF BeginsWell, Alive
  <2>4. \A d \in Billed \ {b} : started'[d] = started[d] /\ source'[d] = source[d]
    BY <1>4 DEF Forks
  <2> QED
    BY <1>1, <2>1, <2>3, <2>4 DEF Beginnings
<1>5. ASSUME NEW b \in Billed, ForkCopies(b) PROVE Beginnings'
  <2>1. PICK c \in Unused : /\ file' = [file EXCEPT ![c] = file[source[b]]]
                             /\ current' = [current EXCEPT ![b] = c]
    BY <1>5 DEF ForkCopies
  <2>2. c \in Transcripts /\ file[c] = {} /\ source[b] # NoFile
    BY <1>5 DEF ForkCopies, Unused
  <2>3. \A d \in Billed \ {b} : c \notin own[d] /\ c # current[d]
    BY <2>2, TakenApart
  <2>4. /\ source' = [source EXCEPT ![b] = NoFile] /\ UNCHANGED <<started, place, own, agentLogs>>
        /\ late' = [late EXCEPT ![b] = {m \in file[source[b]] : m.at >= started[b]}]
    BY <1>5 DEF ForkCopies
  <2>5. place[b] = "host" /\ own[b] = {} /\ started[b] # NotYet /\ agentLogs[c] = {}
    BY <2>2 DEF Beginnings, BeginsWell, FilesApart, NoneEmpty, ApartFrom, Alive
  <2>6. file'[c] = file[source[b]] /\ \A d \in Transcripts \ {c} : file'[d] = file[d]
    BY <2>1, <2>2 DEF CallsKnown
  <2>7. late'[b] = {m \in file[source[b]] : m.at >= started[b]}
    BY <2>4 DEF CallsKnown
  <2>8. BeginsWell(b)'
    <3>1. current'[b] = c /\ source'[b] = NoFile
      BY <2>1, <2>4
    <3>2. {m \in file'[c] : m.at >= started'[b]} = late'[b]
      BY <2>4, <2>6, <2>7
    <3> QED
      BY <2>4, <2>5, <3>1, <3>2 DEF BeginsWell, Alive, CalledSince
  <2>9. ASSUME NEW d \in Billed, d # b PROVE BeginsWell(d)'
    <3>1. current'[d] = current[d] /\ source'[d] = source[d] /\ late'[d] = late[d]
      BY <2>1, <2>4, <2>9 DEF CallsKnown
    <3>2. \A e \in own[d] \cup ({current[d]} \cap Transcripts) : file'[e] = file[e]
      BY <2>3, <2>6, <2>9
    <3> QED
      BY <1>1, <2>4, <3>1, <3>2
  <2> QED
    BY <2>8, <2>9 DEF Beginnings
<1>6. ASSUME NEW a \in Billed, Answers(a) PROVE Beginnings'
  <2> DEFINE n == NewCall
  <2>1. PICK c \in IF current[a] = NoFile THEN Unused ELSE {current[a]} :
               /\ file' = [file EXCEPT ![c] = @ \cup {n}]
               /\ current' = [current EXCEPT ![a] = c]
               /\ own' = [own EXCEPT ![a] = @ \cup {c}]
    BY <1>6 DEF Answers
  <2> HIDE DEF n
  <2>2. c \in Transcripts /\ (c \in Unused \/ c = current[a])
    BY <2>1 DEF Unused
  <2>3. \A d \in Billed \ {a} : c \notin own[d] /\ c # current[d]
    BY <2>2, TakenApart
  <2>4. Alive(a) /\ source[a] = NoFile /\ UNCHANGED <<started, place, source, agentLogs, late>>
    BY <1>6 DEF Answers
  <2>5. file'[c] = file[c] \cup {n} /\ \A d \in Transcripts \ {c} : file'[d] = file[d]
    BY <2>1, <2>2 DEF CallsKnown
  <2>6. current'[a] = c /\ own'[a] = own[a] \cup {c}
    BY <2>1
  <2>7. place[a] = "container" => \A d \in own'[a] : CalledSince(a, file[d])' = file'[d]
    <3>1. n.at >= started[a]
      BY NewCallIsNew DEF n
    <3>2. place[a] = "container" => file[c] = {} \/ c \in own[a]
      BY <2>1 DEF Beginnings, BeginsWell, Unused
    <3>3. place[a] = "container" => CalledSince(a, file[c]) = file[c]
      BY <3>2 DEF Beginnings, BeginsWell, CalledSince
    <3>4. place[a] = "container" => {m \in file'[c] : m.at >= started'[a]} = file'[c]
      BY <2>4, <2>5, <3>1, <3>3 DEF CalledSince
    <3>5. place[a] = "container" => \A d \in own[a] \ {c} : CalledSince(a, file[d])' = file'[d]
      BY <2>4, <2>5 DEF Beginnings, BeginsWell, CalledSince
    <3> QED
      BY <2>6, <3>4, <3>5 DEF CalledSince
  <2>8. BeginsWell(a)'
    BY <2>4, <2>6, <2>7 DEF BeginsWell, Alive
  <2>9. ASSUME NEW d \in Billed, d # a PROVE BeginsWell(d)'
    <3>1. current'[d] = current[d] /\ own'[d] = own[d]
      BY <2>1, <2>9
    <3>2. \A e \in own[d] \cup ({current[d]} \cap Transcripts) : file'[e] = file[e]
      BY <2>3, <2>5, <2>9
    <3> QED
      BY <1>1, <2>4, <3>1, <3>2
  <2> QED
    BY <2>8, <2>9 DEF Beginnings
<1>7. ASSUME NEW a \in Billed, AsksSubagent(a) PROVE Beginnings'
  <2> DEFINE n == NewCall
  <2>1. agentLogs' = [agentLogs EXCEPT ![current[a]] = @ \cup {n}] /\ current[a] \in own[a]
        /\ UNCHANGED <<started, place, own, current, source, file, late>>
    BY <1>7 DEF AsksSubagent
  <2> HIDE DEF n
  <2>2. ASSUME NEW d \in Billed, current[d] \notin own[d], current[d] # NoFile
        PROVE  agentLogs'[current[d]] = agentLogs[current[d]]
    <3>1. current[d] # current[a]
      BY <2>1, <2>2 DEF FilesApart, NoneEmpty, ApartFrom
    <3> QED
      BY <2>1, <2>2, <3>1 DEF CallsKnown
  <2> QED
    BY <1>1, <2>1, <2>2 DEF Beginnings
<1>8. ASSUME NEW a \in Billed, ClearsConversation(a) PROVE Beginnings'
  <2>1. current' = [current EXCEPT ![a] = NoFile]
        /\ UNCHANGED <<started, place, own, source, file, agentLogs, late>>
    BY <1>8 DEF ClearsConversation
  <2> QED
    BY <1>1, <2>1 DEF Beginnings
<1> QED
  BY <1>2, <1>3, <1>4, <1>5, <1>6, <1>7, <1>8
     DEF TokenNext, Compacts, HourPasses, SyncsHost, SyncsContainer, Records

\* The books of an agent whose conversations nobody touched are as they were.
LEMMA BooksStay ==
  ASSUME Offset = 0, TokensTyped, CallsKnown, TokensTyped', CallsKnown', NEW a \in Billed, BooksOf(a),
         own'[a] = own[a], calls'[a] = calls[a],
         started'[a] = started[a] \/ own[a] = {}, late'[a] = late[a] \/ own[a] = {},
         \A c \in own[a] : file'[c] = file[c] /\ agentLogs'[c] = agentLogs[c]
  PROVE  BooksOf(a)'
<1> DEFINE F == CountedIn(a)
           G == CountedIn(a)'
<1>1. IsFiniteSet(own[a]) /\ own[a] \subseteq Transcripts
  BY TokensFinite DEF TokensTyped
<1>2. \A c \in own[a] : F[c] \in Nat /\ F[c] = G[c]
  <2> SUFFICES ASSUME NEW c \in own[a] PROVE F[c] \in Nat /\ F[c] = G[c]
    OBVIOUS
  <2>1. c \in Transcripts
    BY <1>1
  <2>2. F[c] \in Nat
    BY <2>1, CountedIs, CountedIsNumber
  <2>3. F[c] = G[c]
    BY <2>1 DEF CountedIn, SubagentCalls, SessionStart
  <2> QED
    BY <2>2, <2>3
<1> HIDE DEF F, G
<1>3. SumOf(F, own[a]) = SumOf(G, own[a])
  BY <1>1, <1>2, SumAgrees
<1>4. Shared(a)' = Shared(a)
  BY DEF Shared
<1>5. SumOf(CountedIn(a), own[a]) = Cardinality(calls[a]) + Cardinality(Shared(a))
  BY DEF BooksOf
<1>6. SumOf(CountedIn(a)', own'[a]) = Cardinality(calls'[a]) + Cardinality(Shared(a)')
  BY <1>3, <1>4, <1>5 DEF F, G
<1> QED
  BY <1>6 DEF BooksOf

\* A call that goes into a conversation of the agent's, or into the file of one of
\* its subagents, is counted once more.
LEMMA BooksGrow ==
  ASSUME Offset = 0, TokensTyped, CallsKnown, TokensTyped', CallsKnown', NEW a \in Billed, BooksOf(a),
         Calls(a), UNCHANGED <<started, late>>, own'[a] = own[a],
         NEW c \in own[a],
         \A d \in own[a] \ {c} : file'[d] = file[d] /\ agentLogs'[d] = agentLogs[d],
         \/ file'[c] = file[c] \cup {NewCall} /\ agentLogs'[c] = agentLogs[c]
         \/ file'[c] = file[c] /\ agentLogs'[c] = agentLogs[c] \cup {NewCall}
  PROVE  BooksOf(a)'
<1> DEFINE n == NewCall
           F == CountedIn(a)
           G == CountedIn(a)'
<1>1. IsFiniteSet(own[a]) /\ own[a] \subseteq Transcripts
  BY TokensFinite DEF TokensTyped
<1>2. n \notin Made /\ n.at >= started[a] /\ started'[a] = started[a]
  BY NewCallIsNew DEF TokensTyped
<1>3. \A d \in own[a] : F[d] \in Nat
  BY <1>1, CountedIs, CountedIsNumber
<1>4. \A d \in own[a] \ {c} : F[d] = G[d]
  BY <1>1 DEF CountedIn, SubagentCalls, SessionStart
<1> HIDE DEF n
<1>5. ASSUME NEW S \in SUBSET Made
      PROVE  Cardinality({m \in S \cup {n} : m.at >= started[a]}) = Cardinality(CalledSince(a, S)) + 1
  <2>1. {m \in S \cup {n} : m.at >= started[a]} = CalledSince(a, S) \cup {n}
    BY <1>2 DEF CalledSince
  <2>2. CalledSince(a, S) \in SUBSET Made
    BY DEF CalledSince
  <2> QED
    BY <2>1, <2>2, NewCallIsNew DEF n, TokensTyped
<1>6. G[c] = F[c] + 1
  <2>1. c \in Transcripts /\ file[c] \in SUBSET Made /\ agentLogs[c] \in SUBSET Made
    BY <1>1 DEF CallsKnown
  <2>2. F[c] = Cardinality(CalledSince(a, file[c])) + Cardinality(CalledSince(a, agentLogs[c]))
    BY <2>1, CountedIs
  <2>3. G[c] = Cardinality({m \in file'[c] : Recent(m, started[a])})
               + Cardinality({m \in agentLogs'[c] : Recent(m, started[a])})
    BY <1>2, <2>1 DEF CountedIn, SubagentCalls, SessionStart, G
  <2>4. /\ {m \in file'[c] : Recent(m, started[a])} = {m \in file'[c] : m.at >= started[a]}
        /\ {m \in agentLogs'[c] : Recent(m, started[a])} = {m \in agentLogs'[c] : m.at >= started[a]}
    <3>1. \A m \in file'[c] \cup agentLogs'[c] : m.at \in Nat
      BY <2>1 DEF CallsKnown
    <3> QED
      BY <3>1, RecentIs DEF TokensTyped
  <2>5. CalledSince(a, file[c]) \in SUBSET Made /\ CalledSince(a, agentLogs[c]) \in SUBSET Made
    BY <2>1 DEF CalledSince
  <2>6. Cardinality(CalledSince(a, file[c])) \in Nat /\ Cardinality(CalledSince(a, agentLogs[c])) \in Nat
    BY <2>5, TokensFinite
  <2>7. CASE file'[c] = file[c] \cup {NewCall} /\ agentLogs'[c] = agentLogs[c]
    <3>1. Cardinality({m \in file'[c] : m.at >= started[a]}) = Cardinality(CalledSince(a, file[c])) + 1
      BY <1>5, <2>1, <2>7 DEF n
    <3>2. {m \in agentLogs'[c] : m.at >= started[a]} = CalledSince(a, agentLogs[c])
      BY <2>7 DEF CalledSince
    <3>3. G[c] = (Cardinality(CalledSince(a, file[c])) + 1) + Cardinality(CalledSince(a, agentLogs[c]))
      BY <2>3, <2>4, <3>1, <3>2
    <3>4. F[c] = Cardinality(CalledSince(a, file[c])) + Cardinality(CalledSince(a, agentLogs[c]))
      BY <2>2
    <3> HIDE DEF F, G
    <3> QED
      BY <2>6, <3>3, <3>4
  <2>8. CASE file'[c] = file[c] /\ agentLogs'[c] = agentLogs[c] \cup {NewCall}
    <3>1. Cardinality({m \in agentLogs'[c] : m.at >= started[a]}) = Cardinality(CalledSince(a, agentLogs[c])) + 1
      BY <1>5, <2>1, <2>8 DEF n
    <3>2. {m \in file'[c] : m.at >= started[a]} = CalledSince(a, file[c])
      BY <2>8 DEF CalledSince
    <3>3. G[c] = Cardinality(CalledSince(a, file[c])) + (Cardinality(CalledSince(a, agentLogs[c])) + 1)
      BY <2>3, <2>4, <3>1, <3>2
    <3>4. F[c] = Cardinality(CalledSince(a, file[c])) + Cardinality(CalledSince(a, agentLogs[c]))
      BY <2>2
    <3> HIDE DEF F, G
    <3> QED
      BY <2>6, <3>3, <3>4
  <2> QED
    BY <2>7, <2>8
<1>7. Cardinality(calls'[a]) = Cardinality(calls[a]) + 1
  <2>1. calls'[a] = calls[a] \cup {n} /\ calls[a] \in SUBSET Made
    BY DEF Calls, CallsKnown, n
  <2> QED
    BY <2>1, NewCallIsNew DEF n, TokensTyped
<1>8. Shared(a)' = Shared(a)
  <2>1. \A m \in late[a] : \A d \in own[a] : m \in file'[d] <=> m \in file[d]
    BY <1>2 DEF CallsKnown, n
  <2> QED
    BY <2>1 DEF Shared
<1>9. Cardinality(calls[a]) \in Nat /\ Cardinality(Shared(a)) \in Nat
  <2>1. calls[a] \in SUBSET Made /\ Shared(a) \in SUBSET Made
    BY DEF CallsKnown, Shared
  <2> QED
    BY <2>1, TokensFinite
<1>10. SumOf(CountedIn(a), own[a]) = Cardinality(calls[a]) + Cardinality(Shared(a))
  BY DEF BooksOf
<1> HIDE DEF F, G
<1>11. SumOf(G, own[a]) = SumOf(F, own[a]) + (G[c] - F[c])
  <2>1. \A d \in own[a] : F[d] \in Int /\ G[d] \in Int
    BY <1>3, <1>4, <1>6
  <2> QED
    BY <1>1, <1>4, <2>1, SumUpdate
<1>12. SumOf(G, own[a]) = SumOf(F, own[a]) + 1
  <2>1. SumOf(F, own[a]) \in Nat
    BY <1>1, <1>3, SumType
  <2> QED
    BY <1>3, <1>6, <1>11, <2>1
<1>13. SumOf(CountedIn(a)', own'[a]) = Cardinality(calls'[a]) + Cardinality(Shared(a)')
  BY <1>7, <1>8, <1>9, <1>10, <1>12 DEF F, G
<1> QED
  BY <1>13 DEF BooksOf

\* A first prompt opens a conversation: with it the call is counted, and in a fork
\* what the source said between the registration and the copy.
LEMMA BooksOpen ==
  ASSUME Offset = 0, TokensTyped, CallsKnown, TokensTyped', CallsKnown', NEW a \in Billed, BooksOf(a),
         Calls(a), UNCHANGED <<started, late, agentLogs>>,
         NEW c \in Transcripts, c \notin own[a], own'[a] = own[a] \cup {c}, agentLogs[c] = {},
         file'[c] = file[c] \cup {NewCall}, \A d \in own[a] : file'[d] = file[d],
         file[c] = {} \/ (own[a] = {} /\ CalledSince(a, file[c]) = late[a])
  PROVE  BooksOf(a)'
<1> DEFINE n == NewCall
           F == CountedIn(a)
           G == CountedIn(a)'
           k == Cardinality(CalledSince(a, file[c]))
<1>1. IsFiniteSet(own[a]) /\ own[a] \subseteq Transcripts
  BY TokensFinite DEF TokensTyped
<1>2. n \notin Made /\ n.at \in Nat /\ n.at >= started[a] /\ started'[a] = started[a]
  BY NewCallIsNew DEF TokensTyped
<1>3. \A d \in own[a] : F[d] \in Nat
  BY <1>1, CountedIs, CountedIsNumber
<1>4. \A d \in own[a] : F[d] = G[d]
  BY <1>1 DEF CountedIn, SubagentCalls, SessionStart
<1> HIDE DEF n
<1>5. file[c] \in SUBSET Made /\ CalledSince(a, file[c]) \in SUBSET Made /\ k \in Nat
  BY TokensFinite DEF CallsKnown, CalledSince
<1>6. G[c] = k + 1
  <2>1. G[c] = Cardinality({m \in file'[c] : Recent(m, started[a])})
               + Cardinality({m \in agentLogs[c] : Recent(m, started[a])})
    BY <1>2 DEF CountedIn, SubagentCalls, SessionStart, G
  <2>2. {m \in file'[c] : Recent(m, started[a])} = {m \in file'[c] : m.at >= started[a]}
    <3>1. \A m \in file'[c] : m.at \in Nat
      BY DEF CallsKnown
    <3> QED
      BY <3>1, RecentIs DEF TokensTyped
  <2>3. {m \in file'[c] : m.at >= started[a]} = CalledSince(a, file[c]) \cup {n}
    BY <1>2 DEF CalledSince, n
  <2>4. Cardinality(CalledSince(a, file[c]) \cup {n}) = k + 1
    BY <1>5, NewCallIsNew DEF n, TokensTyped
  <2>5. Cardinality({m \in agentLogs[c] : Recent(m, started[a])}) = 0
    <3>1. {m \in agentLogs[c] : Recent(m, started[a])} = {}
      OBVIOUS
    <3> QED
      BY <3>1, FS_EmptySet
  <2>6. G[c] = Cardinality(CalledSince(a, file[c]) \cup {n})
               + Cardinality({m \in agentLogs[c] : Recent(m, started[a])})
    BY <2>1, <2>2, <2>3
  <2> HIDE DEF G, k
  <2> QED
    BY <1>5, <2>4, <2>5, <2>6
<1>7. Cardinality(calls'[a]) = Cardinality(calls[a]) + 1
  <2>1. calls'[a] = calls[a] \cup {n} /\ calls[a] \in SUBSET Made
    BY DEF Calls, CallsKnown, n
  <2> QED
    BY <2>1, NewCallIsNew DEF n, TokensTyped
<1>8. Cardinality(Shared(a)') = Cardinality(Shared(a)) + k
  <2>1. n \notin late[a] /\ late[a] \subseteq Made
    BY <1>2 DEF CallsKnown
  <2>2. \A m \in late[a] : \A d \in own[a] : m \in file'[d] <=> m \in file[d]
    OBVIOUS
  <2>3. \A m \in late[a] : m \in file'[c] <=> m \in file[c]
    BY <2>1 DEF n
  <2>4. Shared(a)' = {m \in late[a] : \E d \in own[a] \cup {c} : m \in file'[d]}
    BY DEF Shared
  <2>5. Shared(a) \in SUBSET Made
    BY <2>1 DEF Shared
  <2>6. CASE file[c] = {}
    <3>1. Shared(a)' = Shared(a)
      BY <2>2, <2>3, <2>4, <2>6 DEF Shared
    <3>2. CalledSince(a, file[c]) = {}
      BY <2>6 DEF CalledSince
    <3>3. k = 0
      BY <3>2, FS_EmptySet
    <3>4. Cardinality(Shared(a)) \in Nat
      BY <2>5, TokensFinite
    <3> QED
      BY <3>1, <3>3, <3>4
  <2>7. CASE own[a] = {} /\ CalledSince(a, file[c]) = late[a]
    <3>1. Shared(a)' = CalledSince(a, file[c])
      BY <2>3, <2>4, <2>7 DEF CalledSince
    <3>2. Shared(a) = {}
      BY <2>7 DEF Shared
    <3>3. Cardinality(Shared(a)) = 0
      BY <3>2, FS_EmptySet
    <3> QED
      BY <1>5, <3>1, <3>3
  <2> QED
    BY <2>6, <2>7
<1>9. Cardinality(calls[a]) \in Nat /\ Cardinality(Shared(a)) \in Nat
  <2>1. calls[a] \in SUBSET Made /\ Shared(a) \in SUBSET Made
    BY DEF CallsKnown, Shared
  <2> QED
    BY <2>1, TokensFinite
<1>10. SumOf(CountedIn(a), own[a]) = Cardinality(calls[a]) + Cardinality(Shared(a))
  BY DEF BooksOf
<1> HIDE DEF F, G, k
<1>11. SumOf(F, own[a]) = SumOf(G, own[a])
  <2>1. \A d \in own[a] : F[d] \in Int /\ F[d] = G[d]
    BY <1>3, <1>4
  <2> QED
    BY <1>1, <2>1, SumAgrees
<1>12. SumOf(G, own[a] \cup {c}) = G[c] + SumOf(G, own[a])
  <2>1. IsFiniteSet(own[a] \cup {c}) /\ (own[a] \cup {c}) \ {c} = own[a]
    BY <1>1, FS_AddElement
  <2>2. \A d \in own[a] \cup {c} : G[d] \in Int
    BY <1>3, <1>4, <1>5, <1>6
  <2> QED
    BY <2>1, <2>2, SumRemove
<1>13. SumOf(CountedIn(a)', own'[a]) = Cardinality(calls'[a]) + Cardinality(Shared(a)')
  <2>1. SumOf(G, own[a] \cup {c}) = (k + 1) + (Cardinality(calls[a]) + Cardinality(Shared(a)))
    BY <1>6, <1>10, <1>11, <1>12 DEF F
  <2>2. SumOf(G, own[a] \cup {c}) = Cardinality(calls'[a]) + Cardinality(Shared(a)')
    BY <1>5, <1>7, <1>8, <1>9, <2>1
  <2> QED
    BY <2>2 DEF G
<1> QED
  BY <1>13 DEF BooksOf

\* Every step keeps every agent's books: what is counted from its files is what was
\* called for it and what was copied in between.
LEMMA BooksStep ==
  ASSUME Offset = 0, TokensTyped, CallsKnown, FilesApart, Beginnings, \A a \in Billed : BooksOf(a), TokenNext
  PROVE  \A a \in Billed : BooksOf(a)'
<1>0. TokensTyped' /\ CallsKnown'
  BY TokenTypes, CallsStep
<1> USE DEF TokensTyped
<1>1. ASSUME NEW a \in Billed,
             own'[a] = own[a], calls'[a] = calls[a],
             started'[a] = started[a] \/ own[a] = {}, late'[a] = late[a] \/ own[a] = {},
             \A c \in own[a] : file'[c] = file[c] /\ agentLogs'[c] = agentLogs[c]
      PROVE  BooksOf(a)'
  BY <1>0, <1>1, BooksStay
<1>2. ASSUME UNCHANGED <<started, own, calls, late, file, agentLogs>>
      PROVE  \A a \in Billed : BooksOf(a)'
  BY <1>1, <1>2
<1>3. ASSUME NEW b \in Billed, Launches(b) \/ \E a \in Billed : Forks(a, b)
      PROVE  \A a \in Billed : BooksOf(a)'
  <2>1. /\ UNCHANGED <<own, calls, late, file, agentLogs>> /\ ~Alive(b)
        /\ \A d \in Billed \ {b} : started'[d] = started[d]
    BY <1>3 DEF Launches, Forks
  <2>2. own[b] = {}
    BY <2>1 DEF Beginnings, BeginsWell
  <2> QED
    BY <1>1, <2>1, <2>2
<1>4. ASSUME NEW b \in Billed, ForkCopies(b) PROVE \A a \in Billed : BooksOf(a)'
  <2>1. PICK c \in Unused : file' = [file EXCEPT ![c] = file[source[b]]]
    BY <1>4 DEF ForkCopies
  <2>2. /\ UNCHANGED <<own, calls, started, agentLogs>> /\ source[b] # NoFile
        /\ \A d \in Billed \ {b} : late'[d] = late[d]
    BY <1>4 DEF ForkCopies, CallsKnown
  <2>3. own[b] = {}
    BY <2>2 DEF Beginnings, BeginsWell
  <2>4. \A a \in Billed : \A d \in own[a] : file'[d] = file[d]
    BY <2>1 DEF Unused, FilesApart, NoneEmpty, CallsKnown
  <2> QED
    BY <1>1, <2>2, <2>3, <2>4
<1>5. ASSUME NEW a \in Billed, Answers(a) PROVE \A b \in Billed : BooksOf(b)'
  <2> DEFINE n == NewCall
  <2>1. PICK c \in IF current[a] = NoFile THEN Unused ELSE {current[a]} :
               /\ file' = [file EXCEPT ![c] = @ \cup {n}]
               /\ own' = [own EXCEPT ![a] = @ \cup {c}]
    BY <1>5 DEF Answers
  <2> HIDE DEF n
  <2>2. c \in Transcripts /\ (c \in Unused \/ c = current[a])
    BY <2>1 DEF Unused
  <2>3. \A d \in Billed \ {a} : c \notin own[d]
    BY <2>2, TakenApart
  <2>4. Calls(a) /\ UNCHANGED <<started, agentLogs, late>> /\ \A d \in Billed \ {a} : calls'[d] = calls[d]
    BY <1>5 DEF Answers, Calls, CallsKnown
  <2>5. file'[c] = file[c] \cup {n} /\ \A d \in Transcripts \ {c} : file'[d] = file[d]
    BY <2>1, <2>2 DEF CallsKnown
  <2>6. own'[a] = own[a] \cup {c}
    BY <2>1
  <2>7. CASE c \in own[a]
    <3>1. own'[a] = own[a]
      BY <2>6, <2>7
    <3>2. \A d \in own[a] \ {c} : file'[d] = file[d] /\ agentLogs'[d] = agentLogs[d]
      BY <2>4, <2>5
    <3>3. BooksOf(a)'
      BY <1>0, <2>4, <2>5, <2>7, <3>1, <3>2, BooksGrow DEF n
    <3> QED
      BY <3>3, <1>1, <2>1, <2>3, <2>4, <2>5
  <2>8. CASE c \notin own[a]
    <3>1. file[c] = {} \/ (own[a] = {} /\ CalledSince(a, file[c]) = late[a])
      BY <2>1, <2>8 DEF Beginnings, BeginsWell, Unused
    <3>2. agentLogs[c] = {}
      BY <2>1, <2>2, <2>8 DEF Beginnings, BeginsWell, Unused, FilesApart
    <3>3. \A d \in own[a] : file'[d] = file[d]
      BY <2>5, <2>8
    <3>4. BooksOf(a)'
      BY <1>0, <2>2, <2>4, <2>5, <2>6, <2>8, <3>1, <3>2, <3>3, BooksOpen DEF n
    <3> QED
      BY <3>4, <1>1, <2>1, <2>3, <2>4, <2>5
  <2> QED
    BY <2>7, <2>8
<1>6. ASSUME NEW a \in Billed, AsksSubagent(a) PROVE \A b \in Billed : BooksOf(b)'
  <2> DEFINE n == NewCall
             c == current[a]
  <2>1. /\ agentLogs' = [agentLogs EXCEPT ![c] = @ \cup {n}] /\ c \in own[a]
        /\ UNCHANGED <<started, own, file, late>> /\ Calls(a)
        /\ \A d \in Billed \ {a} : calls'[d] = calls[d]
    BY <1>6 DEF AsksSubagent, Calls, CallsKnown
  <2> HIDE DEF n, c
  <2>2. agentLogs'[c] = agentLogs[c] \cup {n} /\ \A d \in Transcripts \ {c} : agentLogs'[d] = agentLogs[d]
    BY <2>1 DEF CallsKnown
  <2>3. BooksOf(a)'
    BY <1>0, <2>1, <2>2, BooksGrow DEF n
  <2>4. \A d \in Billed \ {a} : c \notin own[d]
    BY <2>1 DEF FilesApart, ApartFrom
  <2> QED
    BY <1>1, <2>1, <2>2, <2>3, <2>4
<1> QED
  BY <1>2, <1>3, <1>4, <1>5, <1>6
     DEF TokenNext, Compacts, ClearsConversation, HourPasses, SyncsHost, SyncsContainer, Records

\* In a container, where files are read from their beginning, no more is read than
\* there is: what the files hold was called since the start.
LEMMA ContainerReadsLess ==
  ASSUME Offset = 0, TokensTyped, CallsKnown, Beginnings, NEW a \in Billed, place[a] = "container",
         NEW read \in SUBSET own[a]
  PROVE  SumOf(InContainer, read) <= SumOf(CountedIn(a), own[a])
<1> DEFINE rest == own[a] \ read
           F == CountedIn(a)
<1>1. own[a] \subseteq Transcripts /\ IsFiniteSet(own[a]) /\ IsFiniteSet(read) /\ IsFiniteSet(rest)
  BY TokensFinite DEF TokensTyped
<1>2. \A c \in own[a] : InContainer[c] \in Nat /\ F[c] \in Nat /\ InContainer[c] <= F[c]
  <2> SUFFICES ASSUME NEW c \in own[a] PROVE InContainer[c] \in Nat /\ F[c] \in Nat /\ InContainer[c] <= F[c]
    OBVIOUS
  <2>1. c \in Transcripts /\ file[c] \in SUBSET Made /\ CalledSince(a, agentLogs[c]) \in SUBSET Made
    BY <1>1 DEF CallsKnown, CalledSince
  <2>2. InContainer[c] = Cardinality(file[c]) /\ InContainer[c] \in Nat
    BY <2>1, TokensFinite DEF InContainer
  <2>3. CalledSince(a, file[c]) = file[c]
    BY DEF Beginnings, BeginsWell
  <2>4. F[c] = Cardinality(file[c]) + Cardinality(CalledSince(a, agentLogs[c]))
    BY <2>1, <2>3, CountedIs
  <2>5. Cardinality(CalledSince(a, agentLogs[c])) \in Nat
    BY <2>1, TokensFinite
  <2> HIDE DEF F
  <2> QED
    BY <2>2, <2>4, <2>5
<1> HIDE DEF F
<1>3. SumOf(InContainer, own[a]) <= SumOf(F, own[a])
  <2>1. \A c \in own[a] : InContainer[c] \in Int /\ F[c] \in Int /\ InContainer[c] <= F[c]
    BY <1>2
  <2> QED
    BY <1>1, <2>1, SumMonotone
<1>4. SumOf(InContainer, own[a]) = SumOf(InContainer, read) + SumOf(InContainer, rest)
  <2>1. read \cap rest = {} /\ read \cup rest = own[a] /\ \A c \in read \cup rest : InContainer[c] \in Int
    BY <1>2
  <2> HIDE DEF rest
  <2> QED
    BY <1>1, <2>1, SumUnion
<1>5. SumOf(InContainer, read) \in Nat /\ SumOf(InContainer, rest) \in Nat
  <2>1. (\A c \in read : InContainer[c] \in Nat) /\ (\A c \in rest : InContainer[c] \in Nat)
    BY <1>2
  <2>2. SumOf(InContainer, read) \in Nat
    BY <1>1, <2>1, SumType
  <2> HIDE DEF rest
  <2>3. SumOf(InContainer, rest) \in Nat
    BY <1>1, <2>1, SumType
  <2> QED
    BY <2>2, <2>3
<1>6. SumOf(F, own[a]) \in Nat
  <2>1. \A c \in own[a] : F[c] \in Nat
    BY <1>2
  <2> QED
    BY <1>1, <2>1, SumType
<1>7. SumOf(InContainer, read) <= SumOf(F, own[a])
  BY <1>3, <1>4, <1>5, <1>6
<1> QED
  BY <1>7 DEF F

\* So what the daemon records is what is owed, and in a container not more.
LEMMA RecordsStep ==
  ASSUME Offset = 0, TokensTyped, CallsKnown, Beginnings, \A a \in Billed : BooksOf(a), TokensAreTrue, TokenNext
  PROVE  TokensAreTrue'
<1> USE DEF TokensTyped
<1>1. ASSUME UNCHANGED <<place, recorded, owed>> PROVE TokensAreTrue'
  BY <1>1 DEF TokensAreTrue
<1>2. ASSUME NEW a \in Billed, Launches(a) PROVE TokensAreTrue'
  <2>1. UNCHANGED <<recorded, owed>> /\ \A b \in Billed \ {a} : place'[b] = place[b]
    BY <1>2 DEF Launches
  <2>2. recorded[a] = owed[a] /\ owed[a] \in Nat
    BY <1>2 DEF Launches, Beginnings, BeginsWell, TokensAreTrue
  <2>3. recorded[a] <= owed[a]
    BY <2>2
  <2> QED
    BY <2>1, <2>2, <2>3 DEF TokensAreTrue
<1>3. ASSUME NEW a \in Billed, NEW total, Records(a, total),
             IF place[a] = "host" THEN total = Cardinality(calls[a]) + Cardinality(Shared(a))
                                  ELSE total <= Cardinality(calls[a]) + Cardinality(Shared(a))
      PROVE  TokensAreTrue'
  <2>1. /\ recorded' = [recorded EXCEPT ![a] = total]
        /\ owed' = [owed EXCEPT ![a] = Cardinality(calls[a]) + Cardinality(Shared(a))]
        /\ place' = place
    BY <1>3 DEF Records, Shared
  <2> QED
    BY <1>3, <2>1 DEF TokensAreTrue
<1>4. ASSUME NEW a \in Billed, SyncsHost(a) PROVE TokensAreTrue'
  <2>1. HostTotal(a) = Cardinality(calls[a]) + Cardinality(Shared(a))
    BY TotalsAreNumbers DEF BooksOf
  <2> QED
    BY <1>3, <1>4, <2>1 DEF SyncsHost
<1>5. ASSUME NEW a \in Billed, SyncsContainer(a) PROVE TokensAreTrue'
  <2>1. PICK read \in SUBSET own[a] : Records(a, MapThenSumSet(LAMBDA c : InContainer[c], read))
    BY <1>5 DEF SyncsContainer
  <2>2. Records(a, SumOf(InContainer, read))
    BY <2>1 DEF SumOf
  <2>3. place[a] = "container"
    BY <1>5 DEF SyncsContainer
  <2>4. SumOf(InContainer, read) <= Cardinality(calls[a]) + Cardinality(Shared(a))
    BY <2>3, ContainerReadsLess DEF BooksOf
  <2> QED
    BY <1>3, <2>2, <2>3, <2>4
<1> QED
  BY <1>1, <1>2, <1>4, <1>5 DEF TokenNext, Forks, ForkCopies, Answers, AsksSubagent, Compacts,
     ClearsConversation, HourPasses

\* For any number of agents, conversations and calls, where local time is UTC: each
\* call is counted for the agent it was made for, once, although forks and
\* compaction copy it, over clears and subagents; in a container never twice.
THEOREM TokensCounted == ASSUME Offset = 0 PROVE TokenSpec => []TokensAreTrue
<1>1. TokenInit => TokensInv
  <2> SUFFICES ASSUME TokenInit PROVE TokensInv
    OBVIOUS
  <2> USE DEF TokenInit
  <2>1. Made = {}
    BY DEF Made
  <2>2. TokensTyped
    BY DEF TokensTyped, NotYet, NoFile
  <2>3. CallsKnown
    BY <2>1, FS_EmptySet DEF CallsKnown
  <2>4. FilesApart
    BY DEF FilesApart, NoneEmpty, ApartFrom, NoFile
  <2>5. Beginnings
    BY DEF Beginnings, BeginsWell, Alive, NoFile
  <2>6. ASSUME NEW a \in Billed PROVE BooksOf(a)
    <3>1. own[a] = {} /\ calls[a] = {} /\ Shared(a) = {}
      BY DEF Shared
    <3>2. SumOf(CountedIn(a), {}) = 0
      BY FS_EmptySet, SumZero
    <3>3. Cardinality(calls[a]) = 0 /\ Cardinality(Shared(a)) = 0
      BY <3>1, FS_EmptySet
    <3> QED
      BY <3>1, <3>2, <3>3 DEF BooksOf
  <2>7. TokensAreTrue
    BY DEF TokensAreTrue
  <2> QED
    BY <2>2, <2>3, <2>4, <2>5, <2>6, <2>7 DEF TokensInv
<1>2. TokensInv /\ [TokenNext]_tokenVars => TokensInv'
  <2>1. ASSUME TokensInv, UNCHANGED tokenVars PROVE TokensInv'
    <3> USE <2>1 DEF TokensInv, tokenVars
    <3>1. TokensTyped' /\ TokensAreTrue'
      BY DEF TokensTyped, TokensAreTrue
    <3>2. CallsKnown'
      <4>1. Made' = Made
        BY DEF Made
      <4> QED
        BY <4>1 DEF CallsKnown
    <3>3. FilesApart'
      BY DEF FilesApart, NoneEmpty, ApartFrom
    <3>4. Beginnings'
      BY DEF Beginnings, BeginsWell, Alive, CalledSince
    <3>5. \A a \in Billed : BooksOf(a)'
      BY DEF BooksOf, CountedIn, SubagentCalls, SessionStart, Shared
    <3> QED
      BY <3>1, <3>2, <3>3, <3>4, <3>5
  <2>2. ASSUME TokensInv, TokenNext PROVE TokensInv'
    <3>1. /\ TokensTyped /\ CallsKnown /\ FilesApart /\ Beginnings /\ TokensAreTrue
          /\ \A a \in Billed : BooksOf(a)
      BY <2>2 DEF TokensInv
    <3>2. TokensTyped' /\ CallsKnown'
      BY <2>2, <3>1, TokenTypes, CallsStep
    <3>3. FilesApart' /\ Beginnings'
      BY <2>2, <3>1, ApartStep, BeginningsStep
    <3>4. (\A a \in Billed : BooksOf(a)') /\ TokensAreTrue'
      BY <2>2, <3>1, BooksStep, RecordsStep
    <3> QED
      BY <3>2, <3>3, <3>4 DEF TokensInv
  <2> QED
    BY <2>1, <2>2
<1>3. TokensInv => TokensAreTrue
  BY DEF TokensInv
<1> QED
  BY <1>1, <1>2, <1>3, PTL DEF TokenSpec

-----------------------------------------------------------------------------
(* The summariser *)

\* What a round can still spend.
Left(k) ==
  CASE round[k].at = "begun" -> 2
    [] round[k].at = "short" -> IF round[k].due THEN 2 ELSE 1
    [] round[k].at = "context" -> 1
    [] OTHER -> 0

\* The same as a function, to be added up.
Outstanding == [k \in Rounds |-> Left(k)]

\* The types, without the bounds.
CapTyped ==
  /\ cost \in Nat
  /\ round \in [Rounds -> [at : {"rest", "begun", "short", "context", "apply"}, seen : Nat, due : BOOLEAN]]
  /\ pane \in Nat /\ contextDue \in BOOLEAN

\* What was spent and what the rounds under way can still spend.
SpendingInv == CapTyped /\ cost + SumOf(Outstanding, Rounds) <= Cap - 1 + 2 * Cardinality(Rounds)

\* A round has at most two calls to make.
LEMMA LeftTyped == CapTyped => \A k \in Rounds : Outstanding[k] \in Nat /\ Outstanding[k] <= 2
  BY DEF Outstanding, Left, CapTyped

\* When one round goes on, what is outstanding changes by what that round can still
\* spend.
LEMMA OutstandingMoves ==
  ASSUME CapTyped, CapTyped', NEW k \in Rounds, \A j \in Rounds \ {k} : round'[j] = round[j]
  PROVE  /\ SumOf(Outstanding', Rounds) = SumOf(Outstanding, Rounds) + (Outstanding'[k] - Outstanding[k])
         /\ SumOf(Outstanding, Rounds) \in Nat
<1> DEFINE F == Outstanding
           G == Outstanding'
<1>1. \A j \in Rounds : F[j] \in Nat /\ G[j] \in Nat
  BY DEF Outstanding, Left, CapTyped
<1>2. \A j \in Rounds \ {k} : F[j] = G[j]
  BY DEF Outstanding, Left
<1> HIDE DEF F, G
<1>3. SumOf(G, Rounds) = SumOf(F, Rounds) + (G[k] - F[k])
  <2>1. \A j \in Rounds : F[j] \in Int /\ G[j] \in Int
    BY <1>1
  <2> QED
    BY <1>2, <2>1, SummariserAssumption, SumUpdate
<1>4. SumOf(F, Rounds) \in Nat
  BY <1>1, SummariserAssumption, SumType
<1> QED
  BY <1>3, <1>4 DEF F, G

\* Every step keeps: what was spent, and what the rounds under way can still spend,
\* is within the bound.  A round begins below the cap, however many do at once.
LEMMA SpendingStep ==
  ASSUME SpendingInv, SumNext
  PROVE  SpendingInv'
<1> USE SummariserAssumption DEF CapTyped
<1>0. CapTyped /\ cost + SumOf(Outstanding, Rounds) <= Cap - 1 + 2 * Cardinality(Rounds) /\ Cardinality(Rounds) \in Nat
  BY FS_CardinalityType DEF SpendingInv
<1>1. ASSUME UNCHANGED <<cost, round>>, pane' \in Nat, contextDue' \in BOOLEAN PROVE SpendingInv'
  <2>1. CapTyped' /\ Outstanding' = Outstanding
    BY <1>0, <1>1 DEF Outstanding, Left
  <2> QED
    BY <1>0, <1>1, <2>1 DEF SpendingInv
<1>2. ASSUME NEW k \in Rounds, CapTyped', \A j \in Rounds \ {k} : round'[j] = round[j],
             cost' + Outstanding'[k] <= cost + Outstanding[k]
      PROVE  SpendingInv'
  <2>1. Outstanding[k] \in Nat /\ Outstanding'[k] \in Nat
    BY <1>0, <1>2 DEF Outstanding, Left
  <2>2. /\ SumOf(Outstanding', Rounds) = SumOf(Outstanding, Rounds) + (Outstanding'[k] - Outstanding[k])
        /\ SumOf(Outstanding, Rounds) \in Nat
    BY <1>0, <1>2, OutstandingMoves
  <2>3. cost' + SumOf(Outstanding', Rounds) <= Cap - 1 + 2 * Cardinality(Rounds)
    BY <1>0, <1>2, <2>1, <2>2
  <2> QED
    BY <1>2, <2>3 DEF SpendingInv
<1>3. ASSUME NEW k \in Rounds, PausesIdle(k) \/ HaltsAtCap(k) PROVE SpendingInv'
  BY <1>0, <1>1, <1>3 DEF PausesIdle, HaltsAtCap
<1>4. ASSUME NEW k \in Rounds, StartsRound(k) PROVE SpendingInv'
  <2>1. CapTyped' /\ cost' = cost /\ cost < Cap
    BY <1>0, <1>4 DEF StartsRound, CapReached
  <2>2. \A j \in Rounds : Outstanding'[j] \in Int /\ Outstanding'[j] <= 2
    BY <2>1 DEF Outstanding, Left
  <2>3. SumOf(Outstanding', Rounds) <= 2 * Cardinality(Rounds)
    <3> DEFINE G == Outstanding'
    <3>1. \A j \in Rounds : G[j] \in Int /\ G[j] <= 2
      BY <2>2
    <3> HIDE DEF G
    <3>2. SumOf(G, Rounds) <= 2 * Cardinality(Rounds)
      BY <3>1, SumAtMost
    <3> QED
      BY <3>2 DEF G
  <2>4. SumOf(Outstanding', Rounds) \in Int
    <3> DEFINE G == Outstanding'
    <3>1. \A j \in Rounds : G[j] \in Int
      BY <2>2
    <3> HIDE DEF G
    <3>2. SumOf(G, Rounds) \in Int
      BY <3>1, SumType
    <3> QED
      BY <3>2 DEF G
  <2> QED
    BY <1>0, <2>1, <2>3, <2>4 DEF SpendingInv
<1>5. ASSUME NEW k \in Rounds, Looks(k) PROVE SpendingInv'
  <2>1. CapTyped' /\ cost' = cost /\ \A j \in Rounds \ {k} : round'[j] = round[j]
    BY <1>0, <1>5 DEF Looks
  <2>2. Outstanding[k] = 2 /\ Outstanding'[k] \in Nat /\ Outstanding'[k] <= 2
    BY <1>0, <1>5, <2>1 DEF Looks, Outstanding, Left
  <2> QED
    BY <1>0, <1>2, <2>1, <2>2
<1>6. ASSUME NEW k \in Rounds, NEW kind \in {"short", "context"}, Asks(k, kind) PROVE SpendingInv'
  <2>1. CapTyped' /\ \A j \in Rounds \ {k} : round'[j] = round[j]
    BY <1>0, <1>6 DEF Asks
  <2>2. cost' <= cost + 1
    BY <1>0, <1>6 DEF Asks
  <2>3. Outstanding'[k] \in Nat /\ Outstanding'[k] + 1 <= Outstanding[k]
    BY <1>0, <1>6 DEF Asks, Outstanding, Left
  <2>4. Outstanding[k] \in Nat /\ cost' \in Nat
    BY <1>0, <2>1 DEF Outstanding, Left
  <2> QED
    BY <1>0, <1>2, <2>1, <2>2, <2>3, <2>4
<1>7. ASSUME NEW k \in Rounds, ApplySummaries(k) PROVE SpendingInv'
  <2>1. CapTyped' /\ cost' = cost /\ \A j \in Rounds \ {k} : round'[j] = round[j]
    BY <1>0, <1>7 DEF ApplySummaries, Resting
  <2>2. Outstanding[k] = 0 /\ Outstanding'[k] = 0
    BY <1>0, <1>7 DEF ApplySummaries, Resting, Outstanding, Left
  <2> QED
    BY <1>0, <1>2, <2>1, <2>2
<1>8. ASSUME IntervalPasses \/ ContextIntervalPasses \/ PaneChanges \/ UserLeaves \/ KeyPressed \/ Toggles
      PROVE  SpendingInv'
  <2>1. UNCHANGED <<cost, round>>
    BY <1>8 DEF IntervalPasses, ContextIntervalPasses, PaneChanges, UserLeaves, KeyPressed, Toggles
  <2>2. contextDue' \in BOOLEAN
    BY <1>0, <1>8 DEF IntervalPasses, ContextIntervalPasses, PaneChanges, UserLeaves, KeyPressed,
       Toggles
  <2>3. pane' \in Nat
    BY <1>0, <1>8 DEF IntervalPasses, ContextIntervalPasses, PaneChanges, UserLeaves, KeyPressed,
       Toggles
  <2> QED
    BY <1>1, <2>1, <2>2, <2>3
<1> QED
  BY <1>3, <1>4, <1>5, <1>6, <1>7, <1>8 DEF SumNext, RoundStep

\* What is spent and outstanding stays within the bound in every behaviour.
LEMMA SpendingKept == SumSpec => []SpendingInv
<1> USE SummariserAssumption
<1>1. SumInit => SpendingInv
  <2> SUFFICES ASSUME SumInit PROVE SpendingInv
    OBVIOUS
  <2>1. CapTyped
    BY DEF SumInit, CapTyped, Resting
  <2>2. \A k \in Rounds : Outstanding[k] = 0
    BY DEF SumInit, Outstanding, Left, Resting
  <2>3. SumOf(Outstanding, Rounds) = 0
    BY <2>2, SumZero
  <2>4. cost = 0 /\ Cardinality(Rounds) \in Nat
    BY FS_CardinalityType DEF SumInit
  <2> QED
    BY <2>1, <2>3, <2>4 DEF SpendingInv
<1>2. SpendingInv /\ [SumNext]_sumVars => SpendingInv'
  <2>1. ASSUME SpendingInv, UNCHANGED sumVars PROVE SpendingInv'
    <3>1. CapTyped' /\ Outstanding' = Outstanding /\ cost' = cost
      BY <2>1 DEF SpendingInv, sumVars, CapTyped, Outstanding, Left
    <3> QED
      BY <2>1, <3>1 DEF SpendingInv
  <2> QED
    BY <2>1, SpendingStep
<1> QED
  BY <1>1, <1>2, PTL DEF SumSpec

\* For any number of rounds at a time and any cap: what the service was paid passes
\* the cap by no more than the rounds that were under way could still spend, although
\* the summariser is paused, resumed and switched off and on meanwhile.
THEOREM CapHolds == SumSpec => []SpendingIsBounded
<1> USE SummariserAssumption
<1>1. SpendingInv => SpendingIsBounded
  <2> SUFFICES ASSUME SpendingInv PROVE SpendingIsBounded
    OBVIOUS
  <2>1. \A k \in Rounds : Outstanding[k] \in Nat
    BY LeftTyped DEF SpendingInv
  <2>2. SumOf(Outstanding, Rounds) \in Nat
    BY <2>1, SumType
  <2>3. cost \in Nat /\ Cardinality(Rounds) \in Nat
    BY FS_CardinalityType DEF SpendingInv, CapTyped
  <2> QED
    BY <2>2, <2>3 DEF SpendingInv, SpendingIsBounded
<1> QED
  BY <1>1, SpendingKept, PTL

-----------------------------------------------------------------------------
(* The types of all variables *)

\* No more conversations begin than there are ids for.
LEMMA ConvsBelow ==
  ASSUME convs \in Nat, convs <= MaxConvs, [ConvNext]_convVars
  PROVE  convs' <= MaxConvs
<1> USE ConvAssumed
<1> DEFINE Few == UNCHANGED convs \/ (convs < MaxConvs /\ convs' = convs + 1) \/ (convs + 2 <= MaxConvs /\ convs' = convs + 2)
<1>1. Few
  <2>1. CASE UNCHANGED convVars
    BY <2>1 DEF convVars
  <2>2. ASSUME NEW a \in Owners, LaunchAgent(a) PROVE Few
    BY <2>2 DEF LaunchAgent, HonouredOrNot, Begins
  <2>3. ASSUME NEW a \in Owners, RelaunchSends(a) PROVE Few
    BY <2>3 DEF RelaunchSends, HonouredOrNot, Begins
  <2>4. ASSUME NEW a \in Owners, NEW b \in Owners, LaunchFork(a, b) PROVE Few
    BY <2>4 DEF LaunchFork, Begins
  <2>5. ASSUME NEW a \in Owners, ClearAgent(a) PROVE Few
    BY <2>5 DEF ClearAgent, Begins
  <2>6. ASSUME NEW a \in Owners,
               RemoveAgent(a) \/ (\E fresh \in BOOLEAN : RelaunchBegins(a, fresh)) \/ PromptAgent(a) \/ SyncLooks(a)
        PROVE  Few
    BY <2>6 DEF RemoveAgent, RelaunchBegins, PromptAgent, SyncLooks
  <2>7. CASE PromptElsewhere \/ \E t \in TmuxSessions : SyncBinds(t) \/ SyncDiscovers(t)
    BY <2>7 DEF PromptElsewhere, SyncBinds, SyncDiscovers
  <2> QED
    BY <2>1, <2>2, <2>3, <2>4, <2>5, <2>6, <2>7 DEF ConvNext
<1> QED
  BY <1>1

\* Whatever is owned, active, running or to be bound is a conversation that may have begun.
THEOREM ConvTypeCorrect == ConvSpec => []ConvTypeOK
<1> USE ConvAssumed
<1>1. ConvInit => convs <= MaxConvs
  BY DEF ConvInit
<1>2. ConvInv /\ convs <= MaxConvs /\ [ConvNext]_convVars => (convs <= MaxConvs)'
  BY ConvsBelow DEF ConvInv, ConvTyped
<1>3. ConvInv /\ convs <= MaxConvs => ConvTypeOK
  <2> SUFFICES ASSUME ConvInv, convs <= MaxConvs PROVE ConvTypeOK
    OBVIOUS
  <2> USE DEF ConvInv, ConvTyped
  <2>1. \A c \in Nat : Begun(c) /\ c # NoConv => c \in Convs
    BY DEF Begun, Convs, NoConv
  <2>2. ASSUME NEW a \in Owners
        PROVE  /\ record[a].owned \subseteq Convs /\ record[a].active \in Convs \cup {NoConv}
               /\ running[a] \in 0 .. convs
    <3>1. record[a].owned \in SUBSET Nat /\ record[a].active \in Nat /\ running[a] \in Nat
      BY DEF Entries
    <3>2. /\ \A c \in record[a].owned : c # NoConv /\ Begun(c)
          /\ Begun(record[a].active) /\ Begun(running[a])
      BY DEF IdsBegun
    <3> QED
      BY <2>1, <3>1, <3>2 DEF Begun
  <2>3. \A t \in TmuxSessions : daemon[t].at \in {"idle", "bind", "discover"}
    BY DEF Bindings
  <2>4. \A t \in TmuxSessions : daemon[t].at # "idle" => daemon[t].agent \in Owners
    BY DEF Exclusive
  <2> QED
    BY <2>2, <2>3, <2>4 DEF ConvTypeOK
<1> QED
  BY <1>1, <1>2, <1>3, ConvKept, PTL DEF ConvSpec

\* The clock and the calls stay within their bounds.
CallsBounded ==
  /\ clock <= MaxHours
  /\ Cardinality(Made) <= MaxCalls /\ Made \subseteq Call
  /\ \A a \in Billed : started[a] >= NotYet

\* Every step keeps them.
LEMMA BoundsStep ==
  ASSUME TokensTyped, CallsKnown, CallsBounded, [TokenNext]_tokenVars
  PROVE  CallsBounded'
<1> USE TokenAssumption
<1>1. ASSUME UNCHANGED calls, clock' = clock \/ (clock < MaxHours /\ clock' = clock + 1),
             \A a \in Billed : started'[a] \in {started[a], clock}
      PROVE  CallsBounded'
  <2>1. Made' = Made
    BY <1>1 DEF Made
  <2>2. clock' <= MaxHours
    BY <1>1 DEF TokensTyped, CallsBounded
  <2>3. \A a \in Billed : started'[a] >= NotYet
    BY <1>1 DEF TokensTyped, CallsBounded, NotYet
  <2> QED
    BY <2>1, <2>2, <2>3 DEF CallsBounded, NotYet, Call
<1>2. ASSUME NEW a \in Billed, Calls(a), UNCHANGED <<clock, started>> PROVE CallsBounded'
  <2>1. Cardinality(Made) \in Nat /\ Cardinality(Made) < MaxCalls
    BY <1>2, TokensFinite DEF Calls
  <2>2. Made' = Made \cup {NewCall} /\ Cardinality(Made \cup {NewCall}) = Cardinality(Made) + 1
    BY <1>2, MadeGrows, NewCallIsNew DEF TokensTyped
  <2>3. NewCall \in Call
    BY <2>1 DEF NewCall, Call, TokensTyped, CallsBounded
  <2>4. Cardinality(Made') <= MaxCalls /\ Made' \subseteq Call
    BY <2>1, <2>2, <2>3 DEF CallsBounded
  <2> QED
    BY <1>2, <2>4 DEF CallsBounded, NotYet, Call
<1>3. ASSUME NEW a \in Billed, Launches(a) PROVE CallsBounded'
  BY <1>1, <1>3 DEF Launches, TokensTyped
<1>4. ASSUME NEW a \in Billed, NEW b \in Billed, Forks(a, b) PROVE CallsBounded'
  BY <1>1, <1>4 DEF Forks, TokensTyped
<1>5. ASSUME NEW a \in Billed, Answers(a) \/ AsksSubagent(a) PROVE CallsBounded'
  BY <1>2, <1>5 DEF Answers, AsksSubagent
<1>6. ASSUME NEW a \in Billed, ForkCopies(a) \/ Compacts(a) \/ ClearsConversation(a) PROVE CallsBounded'
  BY <1>1, <1>6 DEF ForkCopies, Compacts, ClearsConversation
<1>7. ASSUME NEW a \in Billed, SyncsHost(a) \/ SyncsContainer(a) PROVE CallsBounded'
  BY <1>1, <1>7 DEF SyncsHost, SyncsContainer, Records
<1>8. CASE HourPasses
  BY <1>1, <1>8 DEF HourPasses
<1>9. CASE UNCHANGED tokenVars
  BY <1>1, <1>9 DEF tokenVars
<1> QED
  BY <1>3, <1>4, <1>5, <1>6, <1>7, <1>8, <1>9 DEF TokenNext

\* Wherever local time is: what the files of the conversations hold are calls, and a
\* number of tokens is recorded for each agent.
THEOREM TokenTypeCorrect == TokenSpec => []TokenTypeOK
<1> USE TokenAssumption
<1>1. TokenInit => TokensTyped /\ CallsKnown /\ CallsBounded
  <2> SUFFICES ASSUME TokenInit PROVE TokensTyped /\ CallsKnown /\ CallsBounded
    OBVIOUS
  <2> USE DEF TokenInit
  <2>1. Made = {} /\ IsFiniteSet(Made) /\ Cardinality(Made) = 0
    <3>1. Made = {}
      BY DEF Made
    <3> QED
      BY <3>1, FS_EmptySet
  <2>2. TokensTyped
    BY DEF TokensTyped, NotYet, NoFile
  <2>3. CallsKnown
    BY <2>1 DEF CallsKnown
  <2>4. CallsBounded
    BY <2>1 DEF CallsBounded, NotYet
  <2> QED
    BY <2>2, <2>3, <2>4
<1>2. TokensTyped /\ CallsKnown /\ CallsBounded /\ [TokenNext]_tokenVars
        => (TokensTyped /\ CallsKnown /\ CallsBounded)'
  <2>1. ASSUME TokensTyped, CallsKnown, UNCHANGED tokenVars PROVE TokensTyped' /\ CallsKnown'
    <3>1. Made' = Made
      BY <2>1 DEF Made, tokenVars
    <3>2. CallsKnown'
      BY <2>1, <3>1 DEF CallsKnown, tokenVars
    <3>3. TokensTyped'
      BY <2>1 DEF TokensTyped, tokenVars
    <3> QED
      BY <3>2, <3>3
  <2>2. ASSUME TokensTyped, CallsKnown, TokenNext PROVE TokensTyped' /\ CallsKnown'
    BY <2>2, TokenTypes, CallsStep
  <2> QED
    BY <2>1, <2>2, BoundsStep
<1>3. TokensTyped /\ CallsKnown /\ CallsBounded => TokenTypeOK
  <2> SUFFICES ASSUME TokensTyped, CallsKnown, CallsBounded PROVE TokenTypeOK
    OBVIOUS
  <2>1. started \in [Billed -> {NotYet} \cup 0 .. MaxHours] /\ recorded \in [Billed -> Nat]
    BY DEF TokensTyped, CallsBounded, NotYet
  <2>2. file \in [Transcripts -> SUBSET Call] /\ agentLogs \in [Transcripts -> SUBSET Call]
    <3>1. Made \subseteq Call
      BY DEF CallsBounded
    <3> QED
      BY <3>1 DEF CallsKnown
  <2> QED
    BY <2>1, <2>2 DEF TokenTypeOK
<1> QED
  BY <1>1, <1>2, <1>3, PTL DEF TokenSpec

\* The panes that were seen and described are such as the agent's pane may show.
PanesTyped ==
  /\ pane \in 0 .. MaxPanes /\ hashed \in 0 .. NoPane /\ shownContext \in 0 .. NoPane
  /\ summary \in [{"short", "context"} -> 0 .. NoPane]
  /\ \A k \in Rounds : round[k].seen \in 0 .. NoPane

\* Every step keeps that.
LEMMA PanesStep ==
  ASSUME CapTyped, PanesTyped, [SumNext]_sumVars
  PROVE  PanesTyped'
<1> USE SummariserAssumption DEF PanesTyped, CapTyped, NoPane
<1>1. CASE UNCHANGED sumVars
  BY <1>1 DEF sumVars
<1>2. ASSUME NEW k \in Rounds, PausesIdle(k) \/ HaltsAtCap(k) \/ StartsRound(k) PROVE PanesTyped'
  BY <1>2 DEF PausesIdle, HaltsAtCap, StartsRound
<1>3. ASSUME NEW k \in Rounds, Looks(k) PROVE PanesTyped'
  BY <1>3 DEF Looks
<1>4. ASSUME NEW k \in Rounds, NEW kind \in {"short", "context"}, Asks(k, kind) PROVE PanesTyped'
  BY <1>4 DEF Asks
<1>5. ASSUME NEW k \in Rounds, ApplySummaries(k) PROVE PanesTyped'
  BY <1>5 DEF ApplySummaries, Resting
<1>6. CASE IntervalPasses \/ ContextIntervalPasses \/ PaneChanges \/ UserLeaves \/ KeyPressed \/ Toggles
  BY <1>6 DEF IntervalPasses, ContextIntervalPasses, PaneChanges, UserLeaves, KeyPressed, Toggles
<1> QED
  BY <1>1, <1>2, <1>3, <1>4, <1>5, <1>6 DEF SumNext, RoundStep

\* The summariser shows and remembers only panes there may be.
THEOREM SumTypeCorrect == SumSpec => []SumTypeOK
<1> USE SummariserAssumption
<1>1. SumInit => PanesTyped
  BY DEF SumInit, PanesTyped, NoPane, Resting
<1>2. SpendingInv /\ PanesTyped /\ [SumNext]_sumVars => PanesTyped'
  BY PanesStep DEF SpendingInv
<1>3. SpendingInv /\ PanesTyped => SumTypeOK
  BY DEF SpendingInv, CapTyped, PanesTyped, SumTypeOK
<1> QED
  BY <1>1, <1>2, <1>3, SpendingKept, PTL DEF SumSpec

-----------------------------------------------------------------------------
(* All parts together *)

\* In the behaviours that TLC runs each part behaves as its own specification has it.
LEMMA RegistryParts == MCSpec => Spec /\ ArchiveSpec /\ ConvSpec /\ TokenSpec /\ SumSpec
<1> DEFINE all == <<part, vars, archiveVars, convVars, tokenVars, sumVars>>
<1>1. MCInit => Init /\ ArchiveInit /\ ConvInit /\ TokenInit /\ SumInit
  BY DEF MCInit
<1>2. [MCNext]_all =>
        /\ [Next]_vars /\ [ArchiveNext]_archiveVars /\ [ConvNext]_convVars
        /\ [TokenNext]_tokenVars /\ [SumNext]_sumVars
  BY DEF MCNext
<1> QED
  BY <1>1, <1>2, PTL DEF MCSpec, Spec, ArchiveSpec, ConvSpec, TokenSpec, SumSpec

\* What a run shows of three agents and two commands holds for any number: budgets are
\* conserved, limits lost only at zero, a session is in one place, a conversation has one
\* owner, spending stays below its cap.
THEOREM RegistryIsSafe ==
  MCSpec => /\ [](NoBudgetMinted /\ OnePlace /\ OneOwner /\ SpendingIsBounded)
            /\ LimitLostOnlyAtZero
  BY RegistryParts, BudgetsConserved, LimitsLostOnlyAtZero, OneRecord, ConversationsKept, CapHolds, PTL

\* Whatever part a behaviour shows, every variable of every part keeps its type.
THEOREM RegistryTypesCorrect == MCSpec => []TypesOK
  BY RegistryParts, TreeTypeOK, ConvTypeCorrect, TokenTypeCorrect, SumTypeCorrect, PTL DEF TypesOK

=============================================================================
