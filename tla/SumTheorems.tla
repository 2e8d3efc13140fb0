---------------------------- MODULE SumTheorems -----------------------------
(***************************************************************************)
(* What the sums and maxima of the community module FiniteSetsExt are.  Its*)
(* MapThenSumSet folds a set by choosing its elements one after another, and*)
(* the standard theorems say nothing about it: here a sum is shown to depend*)
(* on the summands alone, whichever element is taken first.                *)
(*                                                                         *)
(* Induction is over the subsets of a finite set, as a least counterexample:*)
(* the induction theorems of the library take a predicate as a parameter.  *)
(***************************************************************************)
EXTENDS FiniteSetsExt, FiniteSetTheorems, WellFoundedInduction, TLAPS

\* The element that MapThenSumSet takes first.
Picked(s) == CHOOSE x \in s : TRUE

\* g gives every subset of S the sum that MapThenSumSet computes for it.
Sums(f, S, g) ==
  g = [s \in SUBSET S |-> IF s = {} THEN 0 ELSE f[Picked(s)] + g[s \ {Picked(s)}]]

\* The budgets of a set of agents are added up this way.
SumOf(f, S) == MapThenSumSet(LAMBDA x : f[x], S)

\* What is taken from a set that is not empty is in it.
LEMMA PickedIn == \A s : s # {} => Picked(s) \in s
  BY DEF Picked

\* Among some subsets of a finite set there is one that has no other below it.
LEMMA SmallestSet ==
  ASSUME NEW S, IsFiniteSet(S), NEW Bad, Bad \subseteq SUBSET S, Bad # {}
  PROVE  \E T \in Bad : \A U \in SUBSET T : U # T => U \notin Bad
<1>1. Bad \subseteq FiniteSubsetsOf(S)
  BY FS_Subset DEF FiniteSubsetsOf
<1>2. PICK T \in Bad : \A U \in Bad : <<U, T>> \notin StrictSubsetOrdering(S)
  BY <1>1, FS_StrictSubsetOrderingWellFounded, WFMin, Zenon
<1> QED
  BY <1>2 DEF StrictSubsetOrdering

\* Two functions that add up f in steps agree on the sets both know.
LEMMA SumsAgree ==
  ASSUME NEW f, NEW U, NEW V, NEW g, NEW h, Sums(f, U, g), Sums(f, V, h),
         NEW W, W \subseteq U, W \subseteq V, IsFiniteSet(W)
  PROVE  g[W] = h[W]
<1> DEFINE Bad == {X \in SUBSET W : g[X] # h[X]}
<1>1. SUFFICES ASSUME Bad # {} PROVE FALSE
  OBVIOUS
<1>2. PICK X \in Bad : \A Y \in SUBSET X : Y # X => Y \notin Bad
  <2>1. Bad \subseteq SUBSET W
    OBVIOUS
  <2> HIDE DEF Bad
  <2> QED
    BY <1>1, <2>1, SmallestSet
<1>3. X \subseteq U /\ X \subseteq V /\ X \subseteq W
  OBVIOUS
<1>4. g[X] = IF X = {} THEN 0 ELSE f[Picked(X)] + g[X \ {Picked(X)}]
  BY <1>3 DEF Sums
<1>5. h[X] = IF X = {} THEN 0 ELSE f[Picked(X)] + h[X \ {Picked(X)}]
  BY <1>3 DEF Sums
<1>6. X # {} => g[X \ {Picked(X)}] = h[X \ {Picked(X)}]
  <2>1. SUFFICES ASSUME X # {} PROVE X \ {Picked(X)} \notin Bad
    BY <1>3
  <2>2. X \ {Picked(X)} # X
    BY <2>1, PickedIn
  <2> QED
    BY <1>2, <2>2
<1> QED
  BY <1>4, <1>5, <1>6

\* There is a function that gives every subset of a finite set its sum.
LEMMA SumsExist ==
  ASSUME NEW f, NEW S, IsFiniteSet(S)
  PROVE  \E g : Sums(f, S, g)
<1> DEFINE Bad == {T \in SUBSET S : ~ \E g : Sums(f, T, g)}
<1>1. SUFFICES ASSUME Bad # {} PROVE FALSE
  OBVIOUS
<1>2. PICK T \in Bad : \A U \in SUBSET T : U # T => U \notin Bad
  <2>1. Bad \subseteq SUBSET S
    OBVIOUS
  <2> HIDE DEF Bad
  <2> QED
    BY <1>1, <2>1, SmallestSet
<1> DEFINE G(s) == CHOOSE g : Sums(f, s, g)
           last == T \ {Picked(T)}
           h == [s \in SUBSET T |-> IF s # T THEN G(s)[s]
                                    ELSE IF s = {} THEN 0 ELSE f[Picked(T)] + G(last)[last]]
<1>3. \A s \in SUBSET T : s # T => Sums(f, s, G(s))
  <2>1. SUFFICES ASSUME NEW s \in SUBSET T, s # T PROVE \E g : Sums(f, s, g)
    OBVIOUS
  <2> QED
    BY <1>2, <2>1
<1>4. ASSUME NEW s \in SUBSET T
      PROVE  h[s] = IF s = {} THEN 0 ELSE f[Picked(s)] + h[s \ {Picked(s)}]
  <2> DEFINE r == s \ {Picked(s)}
  <2>1. CASE s = {}
    <3>1. CASE T = {}
      BY <2>1, <3>1
    <3>2. CASE T # {}
      <4>1. Sums(f, s, G(s))
        BY <1>3, <2>1, <3>2
      <4>2. G(s)[s] = 0
        BY <2>1, <4>1 DEF Sums
      <4> QED
        BY <2>1, <3>2, <4>2
    <3> QED
      BY <3>1, <3>2
  <2>2. CASE s # {}
    <3>1. r \subseteq s /\ r # s /\ r \subseteq T /\ r # T
      BY <2>2, PickedIn
    <3>2. Sums(f, r, G(r))
      BY <1>3, <3>1
    <3>3. h[r] = G(r)[r]
      BY <3>1
    <3>4. CASE s = T
      BY <3>3, <3>4, <2>2
    <3>5. CASE s # T
      <4>1. Sums(f, s, G(s))
        BY <1>3, <3>5
      <4>2. IsFiniteSet(r)
        BY <3>1, FS_Subset
      <4>3. G(s)[s] = f[Picked(s)] + G(s)[r]
        BY <4>1, <2>2 DEF Sums
      <4>4. G(s)[r] = G(r)[r]
        BY <4>1, <4>2, <3>1, <3>2, SumsAgree
      <4>5. h[s] = G(s)[s]
        BY <3>5
      <4> HIDE DEF h, G
      <4> QED
        BY <4>3, <4>4, <4>5, <3>3, <2>2
    <3> QED
      BY <3>4, <3>5
  <2> QED
    BY <2>1, <2>2
<1>5. h = [s \in SUBSET T |-> h[s]]
  OBVIOUS
<1> HIDE DEF h
<1>6. Sums(f, T, h)
  BY <1>4, <1>5 DEF Sums
<1> QED
  BY <1>2, <1>6

\* SumOf is the value of such a function.
LEMMA SumIsSums ==
  ASSUME NEW f, NEW S
  PROVE  SumOf(f, S) = (CHOOSE g : Sums(f, S, g))[S]
  BY DEF SumOf, Sums, Picked, MapThenSumSet, MapThenFoldSet

\* A sum is its first summand and the sum of the rest.
LEMMA SumUnfolds ==
  ASSUME NEW f, NEW S, IsFiniteSet(S)
  PROVE  SumOf(f, S) = IF S = {} THEN 0 ELSE f[Picked(S)] + SumOf(f, S \ {Picked(S)})
<1> DEFINE G(s) == CHOOSE g : Sums(f, s, g)
           r == S \ {Picked(S)}
<1>1. \A s : IsFiniteSet(s) => Sums(f, s, G(s))
  BY SumsExist
<1>2. \A s : SumOf(f, s) = G(s)[s]
  BY SumIsSums
<1>3. IsFiniteSet(r) /\ r \subseteq S
  BY FS_Subset
<1>4. Sums(f, S, G(S)) /\ Sums(f, r, G(r))
  BY <1>1, <1>3
<1> HIDE DEF G
<1>5. G(S)[S] = IF S = {} THEN 0 ELSE f[Picked(S)] + G(S)[r]
  BY <1>4 DEF Sums
<1>6. G(S)[r] = G(r)[r]
  BY <1>3, <1>4, SumsAgree
<1> QED
  BY <1>2, <1>5, <1>6

\* A sum of integers is an integer, and one of natural numbers a natural number.
LEMMA SumType ==
  ASSUME NEW f, NEW S, IsFiniteSet(S), NEW D, D = Nat \/ D = Int, \A x \in S : f[x] \in D
  PROVE  SumOf(f, S) \in D
<1> DEFINE Bad == {T \in SUBSET S : SumOf(f, T) \notin D}
<1>1. SUFFICES ASSUME Bad # {} PROVE FALSE
  OBVIOUS
<1>2. PICK T \in Bad : \A U \in SUBSET T : U # T => U \notin Bad
  <2>1. Bad \subseteq SUBSET S
    OBVIOUS
  <2> HIDE DEF Bad
  <2> QED
    BY <1>1, <2>1, SmallestSet
<1>3. IsFiniteSet(T)
  BY FS_Subset
<1>4. SumOf(f, T) = IF T = {} THEN 0 ELSE f[Picked(T)] + SumOf(f, T \ {Picked(T)})
  BY <1>3, SumUnfolds
<1>5. T # {}
  BY <1>4
<1>6. Picked(T) \in T
  BY <1>5, PickedIn
<1>7. SumOf(f, T \ {Picked(T)}) \in D
  BY <1>2, <1>6
<1> QED
  BY <1>4, <1>5, <1>6, <1>7

\* Any summand may be taken first: what a new agent brings into the registry is
\* its own budget.
THEOREM SumRemove ==
  ASSUME NEW f, NEW S, IsFiniteSet(S), \A x \in S : f[x] \in Int, NEW e \in S
  PROVE  SumOf(f, S) = f[e] + SumOf(f, S \ {e})
<1> DEFINE Bad == {T \in SUBSET S : \E x \in T : SumOf(f, T) # f[x] + SumOf(f, T \ {x})}
<1>1. SUFFICES ASSUME Bad # {} PROVE FALSE
  OBVIOUS
<1>2. PICK T \in Bad : \A U \in SUBSET T : U # T => U \notin Bad
  <2>1. Bad \subseteq SUBSET S
    OBVIOUS
  <2> HIDE DEF Bad
  <2> QED
    BY <1>1, <2>1, SmallestSet
<1>3. PICK x \in T : SumOf(f, T) # f[x] + SumOf(f, T \ {x})
  OBVIOUS
<1> DEFINE p == Picked(T)
<1>4. p \in T
  BY PickedIn
<1>5. /\ IsFiniteSet(T) /\ IsFiniteSet(T \ {p}) /\ IsFiniteSet(T \ {x})
      /\ IsFiniteSet((T \ {p}) \ {x})
  BY FS_Subset
<1>6. SumOf(f, T) = f[p] + SumOf(f, T \ {p})
  BY <1>4, <1>5, SumUnfolds
<1>7. x # p
  BY <1>3, <1>6
<1>8. SumOf(f, T \ {p}) = f[x] + SumOf(f, (T \ {p}) \ {x})
  BY <1>2, <1>4, <1>7, <1>3
<1>9. SumOf(f, T \ {x}) = f[p] + SumOf(f, (T \ {x}) \ {p})
  <2>1. T \ {x} \in SUBSET T /\ T \ {x} # T /\ p \in T \ {x}
    BY <1>3, <1>4, <1>7
  <2>2. T \ {x} \in SUBSET S /\ T \ {x} \notin Bad
    BY <1>2, <2>1
  <2> QED
    BY <2>1, <2>2
<1>10. (T \ {p}) \ {x} = (T \ {x}) \ {p}
  OBVIOUS
<1>11. SumOf(f, (T \ {p}) \ {x}) \in Int
  BY <1>5, SumType
<1>12. f[x] \in Int /\ f[p] \in Int
  BY <1>4
<1>13. SumOf(f, T) = f[p] + (f[x] + SumOf(f, (T \ {p}) \ {x}))
  BY <1>6, <1>8
<1>14. f[x] + SumOf(f, T \ {x}) = f[x] + (f[p] + SumOf(f, (T \ {p}) \ {x}))
  BY <1>9, <1>10
<1> HIDE DEF p
<1>15. \A i, j, k \in Int : i + (j + k) = j + (i + k)
  OBVIOUS
<1> QED
  BY <1>3, <1>11, <1>12, <1>13, <1>14, <1>15

\* Smaller summands have a smaller sum.
THEOREM SumMonotone ==
  ASSUME NEW f, NEW g, NEW S, IsFiniteSet(S),
         \A x \in S : f[x] \in Int /\ g[x] \in Int /\ f[x] <= g[x]
  PROVE  SumOf(f, S) <= SumOf(g, S)
<1> DEFINE Bad == {T \in SUBSET S : ~ SumOf(f, T) <= SumOf(g, T)}
<1>1. SUFFICES ASSUME Bad # {} PROVE FALSE
  OBVIOUS
<1>2. PICK T \in Bad : \A U \in SUBSET T : U # T => U \notin Bad
  <2>1. Bad \subseteq SUBSET S
    OBVIOUS
  <2> HIDE DEF Bad
  <2> QED
    BY <1>1, <2>1, SmallestSet
<1> DEFINE p == Picked(T)
           r == T \ {p}
<1>3. IsFiniteSet(T) /\ IsFiniteSet(r)
  BY FS_Subset
<1>4. SumOf(f, T) = IF T = {} THEN 0 ELSE f[p] + SumOf(f, r)
  BY <1>3, SumUnfolds
<1>5. SumOf(g, T) = IF T = {} THEN 0 ELSE g[p] + SumOf(g, r)
  BY <1>3, SumUnfolds
<1>6. T # {}
  BY <1>4, <1>5
<1>7. p \in T
  BY <1>6, PickedIn
<1>8. SumOf(f, r) <= SumOf(g, r)
  <2>1. r \in SUBSET T /\ r # T
    BY <1>7
  <2> QED
    BY <1>2, <2>1
<1>9. SumOf(f, r) \in Int /\ SumOf(g, r) \in Int
  BY <1>3, SumType
<1>10. f[p] \in Int /\ g[p] \in Int /\ f[p] <= g[p]
  BY <1>7
<1> HIDE DEF p, r
<1> QED
  BY <1>2, <1>4, <1>5, <1>6, <1>8, <1>9, <1>10

\* Nothing adds up to nothing.
LEMMA SumZero ==
  ASSUME NEW f, NEW S, IsFiniteSet(S), \A x \in S : f[x] = 0
  PROVE  SumOf(f, S) = 0
<1> DEFINE Bad == {T \in SUBSET S : SumOf(f, T) # 0}
<1>1. SUFFICES ASSUME Bad # {} PROVE FALSE
  OBVIOUS
<1>2. PICK T \in Bad : \A U \in SUBSET T : U # T => U \notin Bad
  <2>1. Bad \subseteq SUBSET S
    OBVIOUS
  <2> HIDE DEF Bad
  <2> QED
    BY <1>1, <2>1, SmallestSet
<1>3. IsFiniteSet(T)
  BY FS_Subset
<1>4. SumOf(f, T) = IF T = {} THEN 0 ELSE f[Picked(T)] + SumOf(f, T \ {Picked(T)})
  BY <1>3, SumUnfolds
<1>5. Picked(T) \in T
  BY <1>4, PickedIn
<1>6. SumOf(f, T \ {Picked(T)}) = 0
  BY <1>2, <1>5
<1> QED
  BY <1>4, <1>5, <1>6

\* A change of one summand changes the sum by as much: a budget that is set.
THEOREM SumUpdate ==
  ASSUME NEW f, NEW g, NEW S, IsFiniteSet(S), \A x \in S : f[x] \in Int /\ g[x] \in Int,
         NEW e \in S, \A x \in S \ {e} : f[x] = g[x]
  PROVE  SumOf(g, S) = SumOf(f, S) + (g[e] - f[e])
<1> DEFINE r == S \ {e}
<1>1. IsFiniteSet(r)
  BY FS_Subset
<1>2. SumOf(f, S) = f[e] + SumOf(f, r) /\ SumOf(g, S) = g[e] + SumOf(g, r)
  BY SumRemove
<1>3. SumOf(f, r) \in Int /\ SumOf(g, r) \in Int
  BY <1>1, SumType
<1>4. SumOf(f, r) <= SumOf(g, r) /\ SumOf(g, r) <= SumOf(f, r)
  <2>1. \A x \in r : f[x] \in Int /\ g[x] \in Int /\ f[x] <= g[x] /\ g[x] <= f[x]
    OBVIOUS
  <2> HIDE DEF r
  <2> QED
    BY <1>1, <2>1, SumMonotone
<1>5. f[e] \in Int /\ g[e] \in Int
  OBVIOUS
<1> HIDE DEF r
<1> QED
  BY <1>2, <1>3, <1>4, <1>5

\* Without negative summands, the sum is no larger when one is left out: an agent
\* that leaves takes its budget along.
THEOREM SumWithout ==
  ASSUME NEW f, NEW S, IsFiniteSet(S), \A x \in S : f[x] \in Nat, NEW e
  PROVE  SumOf(f, S \ {e}) <= SumOf(f, S)
<1>1. IsFiniteSet(S \ {e})
  BY FS_Subset
<1>2. SumOf(f, S \ {e}) \in Int
  BY <1>1, SumType
<1>3. CASE e \in S
  <2>1. SumOf(f, S) = f[e] + SumOf(f, S \ {e})
    BY <1>3, SumRemove
  <2> QED
    BY <1>2, <1>3, <2>1
<1>4. CASE e \notin S
  <2>1. S \ {e} = S
    BY <1>4
  <2> QED
    BY <1>2, <2>1
<1> QED
  BY <1>3, <1>4

\* A sum depends on the summands in the set alone.
LEMMA SumAgrees ==
  ASSUME NEW f, NEW g, NEW S, IsFiniteSet(S), \A x \in S : f[x] \in Int /\ f[x] = g[x]
  PROVE  SumOf(f, S) = SumOf(g, S)
<1>1. SumOf(f, S) <= SumOf(g, S)
  BY SumMonotone
<1>2. SumOf(g, S) <= SumOf(f, S)
  <2>1. \A x \in S : g[x] \in Int /\ f[x] \in Int /\ g[x] <= f[x]
    OBVIOUS
  <2> QED
    BY <2>1, SumMonotone
<1>3. SumOf(f, S) \in Int /\ SumOf(g, S) \in Int
  BY SumType
<1> QED
  BY <1>1, <1>2, <1>3

\* What is counted in two rounds is counted once: the sums of two sets without a
\* common element add up to that of both.
THEOREM SumUnion ==
  ASSUME NEW f, NEW S, IsFiniteSet(S), NEW T, IsFiniteSet(T), S \cap T = {},
         \A x \in S \cup T : f[x] \in Int
  PROVE  SumOf(f, S \cup T) = SumOf(f, S) + SumOf(f, T)
<1> DEFINE Bad == {U \in SUBSET T : SumOf(f, S \cup U) # SumOf(f, S) + SumOf(f, U)}
<1>1. SUFFICES ASSUME Bad # {} PROVE FALSE
  OBVIOUS
<1>2. PICK U \in Bad : \A V \in SUBSET U : V # U => V \notin Bad
  <2>1. Bad \subseteq SUBSET T
    OBVIOUS
  <2> HIDE DEF Bad
  <2> QED
    BY <1>1, <2>1, SmallestSet
<1>3. IsFiniteSet(U) /\ IsFiniteSet(S \cup U)
  BY FS_Subset, FS_Union
<1>4. SumOf(f, S) \in Int
  BY SumType
<1>5. CASE U = {}
  <2>1. SumOf(f, {}) = 0 /\ S \cup U = S
    BY <1>3, <1>5, SumUnfolds
  <2> QED
    BY <1>2, <1>4, <1>5, <2>1
<1>6. CASE U # {}
  <2> DEFINE p == Picked(U)
             r == U \ {p}
  <2>1. p \in U
    BY <1>6, PickedIn
  <2>2. IsFiniteSet(r) /\ r \in SUBSET T /\ r # U
    BY <1>3, <2>1, FS_Subset
  <2>3. SumOf(f, S \cup r) = SumOf(f, S) + SumOf(f, r)
    BY <1>2, <2>2
  <2>4. (S \cup U) \ {p} = S \cup r
    BY <2>1
  <2>5. SumOf(f, S \cup U) = f[p] + SumOf(f, S \cup r)
    <3>1. \A x \in S \cup U : f[x] \in Int
      OBVIOUS
    <3>2. p \in S \cup U
      BY <2>1
    <3> HIDE DEF p, r
    <3> QED
      BY <1>3, <2>4, <3>1, <3>2, SumRemove
  <2>6. SumOf(f, U) = f[p] + SumOf(f, r)
    BY <1>3, <1>6, SumUnfolds
  <2>7. SumOf(f, r) \in Int /\ f[p] \in Int
    BY <2>1, <2>2, SumType
  <2> HIDE DEF p, r
  <2> QED
    BY <1>2, <1>4, <2>3, <2>5, <2>6, <2>7
<1> QED
  BY <1>5, <1>6

\* A sum is at most the number of its summands times the largest.
THEOREM SumAtMost ==
  ASSUME NEW f, NEW S, IsFiniteSet(S), NEW b \in Int, \A x \in S : f[x] \in Int /\ f[x] <= b
  PROVE  SumOf(f, S) <= b * Cardinality(S)
<1> DEFINE Bad == {T \in SUBSET S : ~ SumOf(f, T) <= b * Cardinality(T)}
<1>1. SUFFICES ASSUME Bad # {} PROVE FALSE
  OBVIOUS
<1>2. PICK T \in Bad : \A U \in SUBSET T : U # T => U \notin Bad
  <2>1. Bad \subseteq SUBSET S
    OBVIOUS
  <2> HIDE DEF Bad
  <2> QED
    BY <1>1, <2>1, SmallestSet
<1>3. IsFiniteSet(T) /\ T \subseteq S
  BY FS_Subset
<1>4. CASE T = {}
  <2>1. SumOf(f, {}) = 0
    BY FS_EmptySet, SumZero
  <2>2. Cardinality({}) = 0
    BY FS_EmptySet
  <2> QED
    BY <1>4, <2>1, <2>2
<1>5. ASSUME NEW e \in T PROVE FALSE
  <2>1. IsFiniteSet(T \ {e}) /\ Cardinality(T \ {e}) = Cardinality(T) - 1 /\ Cardinality(T) \in Nat
    BY <1>3, FS_RemoveElement, FS_CardinalityType
  <2>2. SumOf(f, T) = f[e] + SumOf(f, T \ {e})
    BY <1>3, SumRemove
  <2>3. SumOf(f, T \ {e}) \in Int
    BY <1>3, <2>1, SumType
  <2>4. SumOf(f, T \ {e}) <= b * (Cardinality(T) - 1)
    BY <1>2, <1>3, <2>1
  <2>5. b * (Cardinality(T) - 1) = b * Cardinality(T) - b /\ b * Cardinality(T) \in Int
    <3>1. \A c, d \in Int : c * (d - 1) = c * d - c /\ c * d \in Int
      OBVIOUS
    <3>2. Cardinality(T) \in Int
      BY <2>1
    <3> QED
      BY <3>1, <3>2
  <2>6. f[e] \in Int /\ f[e] <= b
    BY <1>3
  <2>7. ~ SumOf(f, T) <= b * Cardinality(T)
    OBVIOUS
  <2> HIDE DEF Bad
  <2> QED
    BY <2>2, <2>3, <2>4, <2>5, <2>6, <2>7
<1> QED
  BY <1>4, <1>5

\* A finite set of integers that is not empty has a greatest element, which Max
\* is: the last prompt in history.jsonl, and what is left of a budget.
THEOREM MaxIsIn ==
  ASSUME NEW S, IsFiniteSet(S), S \subseteq Int, S # {}
  PROVE  Max(S) \in S /\ \A x \in S : x <= Max(S)
<1> DEFINE Bad == {T \in SUBSET S : T # {} /\ \A m \in T : \E x \in T : ~ m >= x}
<1>1. SUFFICES ASSUME Bad # {} PROVE FALSE
  <2>1. \E m \in S : \A x \in S : m >= x
    BY <1>1
  <2> QED
    BY <2>1 DEF Max
<1>2. PICK T \in Bad : \A U \in SUBSET T : U # T => U \notin Bad
  <2>1. Bad \subseteq SUBSET S
    OBVIOUS
  <2> HIDE DEF Bad
  <2> QED
    BY <1>1, <2>1, SmallestSet
<1>3. PICK p \in T : TRUE
  OBVIOUS
<1>4. \A x \in T : x \in Int
  OBVIOUS
<1>5. CASE T = {p}
  BY <1>3, <1>4, <1>5
<1>6. CASE T # {p}
  <2>1. T \ {p} # {} /\ T \ {p} \in SUBSET T /\ T \ {p} # T /\ T \ {p} \in SUBSET S
    BY <1>3, <1>6
  <2>2. PICK m \in T \ {p} : \A x \in T \ {p} : m >= x
    BY <1>2, <2>1
  <2>3. CASE m >= p
    BY <2>2, <2>3
  <2>4. CASE ~ m >= p
    <3>1. \A x \in T \ {p} : p >= x
      BY <1>4, <2>2, <2>4
    <3>2. \A x \in T : p >= x
      BY <1>4, <3>1
    <3> QED
      BY <3>2
  <2> QED
    BY <2>3, <2>4
<1> QED
  BY <1>5, <1>6

\* And a smallest element, which Min is: where an induction begins.
THEOREM MinIsIn ==
  ASSUME NEW S, IsFiniteSet(S), S \subseteq Int, S # {}
  PROVE  Min(S) \in S /\ \A x \in S : Min(S) <= x
<1> DEFINE Bad == {T \in SUBSET S : T # {} /\ \A m \in T : \E x \in T : ~ m =< x}
<1>1. SUFFICES ASSUME Bad # {} PROVE FALSE
  <2>1. \E m \in S : \A x \in S : m =< x
    BY <1>1
  <2> QED
    BY <2>1 DEF Min
<1>2. PICK T \in Bad : \A U \in SUBSET T : U # T => U \notin Bad
  <2>1. Bad \subseteq SUBSET S
    OBVIOUS
  <2> HIDE DEF Bad
  <2> QED
    BY <1>1, <2>1, SmallestSet
<1>3. PICK p \in T : TRUE
  OBVIOUS
<1>4. \A x \in T : x \in Int
  OBVIOUS
<1>5. CASE T = {p}
  BY <1>3, <1>4, <1>5
<1>6. CASE T # {p}
  <2>1. T \ {p} # {} /\ T \ {p} \in SUBSET T /\ T \ {p} # T /\ T \ {p} \in SUBSET S
    BY <1>3, <1>6
  <2>2. PICK m \in T \ {p} : \A x \in T \ {p} : m =< x
    BY <1>2, <2>1
  <2>3. CASE m =< p
    BY <2>2, <2>3
  <2>4. CASE ~ m =< p
    <3>1. \A x \in T \ {p} : p =< x
      BY <1>4, <2>2, <2>4
    <3>2. \A x \in T : p =< x
      BY <1>4, <3>1
    <3> QED
      BY <3>2
  <2> QED
    BY <2>3, <2>4
<1> QED
  BY <1>5, <1>6
=============================================================================
