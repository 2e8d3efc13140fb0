------------------------------ MODULE TuiProofs ------------------------------
(***************************************************************************)
(* Proofs about the TUI, for any set of agents, workers, columns, TUIs and *)
(* windows: the list shows each agent of an answer once and no agent has   *)
(* two widgets, no key kills an agent that was not asked for twice, a      *)
(* dialog leaves no trace when it is gone, a stall is notified once, and   *)
(* the bottom pane shows the agent that the TUI selected.                  *)
(*                                                                         *)
(* The modules share no variable; what is proved of each is proved of its  *)
(* own specification.                                                      *)
(***************************************************************************)
EXTENDS TuiSessions, TuiView, TuiStalls, BottomPane, SumTheorems, SequenceTheorems, FunctionTheorems

-----------------------------------------------------------------------------
(* Orders and rows *)

\* R puts the elements of S in a row.
Orders(R, S) ==
  /\ \A x \in S : <<x, x>> \notin R
  /\ \A x, y \in S : x # y => <<x, y>> \in R \/ <<y, x>> \in R
  /\ \A x, y, z \in S : <<x, y>> \in R /\ <<y, z>> \in R => <<x, z>> \in R

\* A finite set that is ordered has a last element.
LEMMA LastExists ==
  ASSUME NEW S, IsFiniteSet(S), S # {}, NEW R, Orders(R, S)
  PROVE  \E m \in S : \A x \in S \ {m} : <<x, m>> \in R
<1> DEFINE Bad == {T \in SUBSET S : T # {} /\ ~ \E m \in T : \A x \in T \ {m} : <<x, m>> \in R}
<1>1. SUFFICES ASSUME Bad # {} PROVE FALSE
  OBVIOUS
<1>2. PICK T \in Bad : \A U \in SUBSET T : U # T => U \notin Bad
  <2>1. Bad \subseteq SUBSET S
    OBVIOUS
  <2> HIDE DEF Bad
  <2> QED
    BY <1>1, <2>1, SmallestSet
<1>3. T \subseteq S /\ T # {} /\ ~ \E m \in T : \A x \in T \ {m} : <<x, m>> \in R
  OBVIOUS
<1>4. PICK u \in T : TRUE
  BY <1>3
<1>5. T \ {u} \in SUBSET T /\ T \ {u} # T /\ T \ {u} \notin Bad
  <2>1. T \ {u} \in SUBSET T /\ T \ {u} # T
    BY <1>4
  <2> HIDE DEF Bad
  <2> QED
    BY <1>2, <2>1
<1>6. T \ {u} # {}
  BY <1>3, <1>4
<1>7. PICK m \in T \ {u} : \A x \in (T \ {u}) \ {m} : <<x, m>> \in R
  BY <1>3, <1>5, <1>6
<1>8. CASE <<u, m>> \in R
  BY <1>3, <1>7, <1>8
<1>9. CASE <<m, u>> \in R
  <2>1. \A x \in T \ {u} : <<x, u>> \in R
    BY <1>3, <1>4, <1>7, <1>9 DEF Orders
  <2> QED
    BY <1>3, <1>4, <2>1
<1> QED
  BY <1>3, <1>4, <1>7, <1>8, <1>9 DEF Orders

\* The elements of T stand in the sequence s in their order, each once.
Row(s, T, R) ==
  /\ s \in [1 .. Cardinality(T) -> T]
  /\ \A i \in 1 .. Cardinality(T) : \A j \in 1 .. (i - 1) : <<s[j], s[i]>> \in R

\* A finite set that is ordered can be written down in its order.
LEMMA RowExists ==
  ASSUME NEW S, IsFiniteSet(S), NEW R, Orders(R, S)
  PROVE  \E s : Row(s, S, R)
<1> DEFINE Bad == {T \in SUBSET S : ~ \E s : Row(s, T, R)}
<1>1. SUFFICES ASSUME Bad # {} PROVE FALSE
  OBVIOUS
<1>2. PICK T \in Bad : \A U \in SUBSET T : U # T => U \notin Bad
  <2>1. Bad \subseteq SUBSET S
    OBVIOUS
  <2> HIDE DEF Bad
  <2> QED
    BY <1>1, <2>1, SmallestSet
<1>3. T \subseteq S /\ ~ \E s : Row(s, T, R)
  OBVIOUS
<1>4. CASE T = {}
  <2>1. Cardinality(T) = 0
    BY <1>4, FS_EmptySet
  <2>2. Row([i \in 1 .. 0 |-> 0], T, R)
    BY <2>1 DEF Row
  <2> QED
    BY <1>3, <2>2
<1>5. CASE T # {}
  <2>1. IsFiniteSet(T) /\ Orders(R, T)
    BY <1>3, FS_Subset DEF Orders
  <2>2. PICK m \in T : \A x \in T \ {m} : <<x, m>> \in R
    BY <1>5, <2>1, LastExists
  <2>3. PICK U : U = T \ {m}
    OBVIOUS
  <2>4. U \in SUBSET T /\ U # T /\ U \notin Bad
    BY <1>2, <2>3
  <2>5. PICK s : Row(s, U, R)
    BY <1>3, <2>4
  <2>6. PICK n : n = Cardinality(U)
    OBVIOUS
  <2>7. n \in Nat /\ Cardinality(T) = n + 1
    <3>1. IsFiniteSet(U)
      BY <2>1, <2>4, FS_Subset
    <3>2. T = U \cup {m} /\ m \notin U
      BY <2>3
    <3> QED
      BY <2>6, <3>1, <3>2, FS_AddElement, FS_CardinalityType
  <2> DEFINE t == [i \in 1 .. (n + 1) |-> IF i <= n THEN s[i] ELSE m]
  <2>8. \A i \in 1 .. (n + 1) : t[i] \in T /\ (i <= n => t[i] = s[i] /\ t[i] \in U) /\ (i = n + 1 => t[i] = m)
    BY <2>2, <2>4, <2>5, <2>6, <2>7 DEF Row
  <2>9. t \in [1 .. (n + 1) -> T]
    BY <2>8
  <2> HIDE DEF t
  <2>10. ASSUME NEW i \in 1 .. (n + 1), NEW j \in 1 .. (i - 1) PROVE <<t[j], t[i]>> \in R
    <3>1. j \in 1 .. n /\ t[j] = s[j] /\ t[j] \in U
      BY <2>7, <2>8, <2>10
    <3>2. CASE i <= n
      <4>1. t[i] = s[i] /\ i \in 1 .. n
        BY <2>7, <2>8, <3>2
      <4> QED
        BY <2>5, <2>6, <2>10, <3>1, <4>1 DEF Row
    <3>3. CASE i = n + 1
      BY <2>2, <2>3, <2>8, <3>1, <3>3
    <3> QED
      BY <2>7, <3>2, <3>3
  <2>11. Row(t, T, R)
    BY <2>7, <2>9, <2>10 DEF Row
  <2> QED
    BY <1>3, <2>11
<1> QED
  BY <1>4, <1>5

\* s stands before t in the lexicographic order: where they first differ s ends or R has
\* its element first.
Before(R, s, t) ==
  \E i \in DOMAIN t :
    /\ \A j \in 1 .. (i - 1) : j \in DOMAIN s /\ s[j] = t[j]
    /\ i = Len(s) + 1 \/ (i \in DOMAIN s /\ <<s[i], t[i]>> \in R)

\* No sequence stands before itself.
LEMMA NotBeforeItself ==
  ASSUME NEW C, NEW R, Orders(R, C), NEW s \in Seq(C)
  PROVE  ~ Before(R, s, s)
<1>1. Len(s) \in Nat /\ DOMAIN s = 1 .. Len(s) /\ \A i \in 1 .. Len(s) : s[i] \in C
  BY LenProperties, ElementOfSeq
<1>2. \A i \in 1 .. Len(s) : i # Len(s) + 1 /\ <<s[i], s[i]>> \notin R
  BY <1>1 DEF Orders
<1> QED
  BY <1>1, <1>2 DEF Before

\* Of two sequences one stands before the other.
LEMMA OneIsBefore ==
  ASSUME NEW C, NEW R, Orders(R, C), NEW s \in Seq(C), NEW t \in Seq(C), s # t
  PROVE  Before(R, s, t) \/ Before(R, t, s)
<1>1. /\ Len(s) \in Nat /\ DOMAIN s = 1 .. Len(s) /\ \A i \in 1 .. Len(s) : s[i] \in C
      /\ Len(t) \in Nat /\ DOMAIN t = 1 .. Len(t) /\ \A i \in 1 .. Len(t) : t[i] \in C
  BY LenProperties, ElementOfSeq
<1> DEFINE parts == {i \in 1 .. (Len(s) + 1) : i \notin DOMAIN s \/ i \notin DOMAIN t \/ s[i] # t[i]}
<1>2. PICK i \in parts : \A j \in parts : i <= j
  <2>1. IsFiniteSet(1 .. (Len(s) + 1)) /\ parts \subseteq 1 .. (Len(s) + 1)
    BY <1>1, FS_Interval
  <2>2. IsFiniteSet(parts) /\ parts \subseteq Int
    BY <1>1, <2>1, FS_Subset
  <2>3. Len(s) + 1 \in parts
    BY <1>1
  <2> HIDE DEF parts
  <2> QED
    BY <2>2, <2>3, MinIsIn
<1>3. \A j \in 1 .. (i - 1) : j \in DOMAIN s /\ j \in DOMAIN t /\ s[j] = t[j]
  BY <1>1, <1>2
<1>4. i \in 1 .. (Len(s) + 1) /\ (i \notin DOMAIN s \/ i \notin DOMAIN t \/ s[i] # t[i])
  BY <1>2
<1> HIDE DEF parts
<1>5. CASE i \notin DOMAIN s /\ i \notin DOMAIN t
  <2>0. i = Len(s) + 1
    BY <1>1, <1>4, <1>5
  <2>1. i = Len(s) + 1 /\ Len(t) = Len(s)
    <3>1. Len(t) <= Len(s)
      BY <1>1, <1>5, <2>0
    <3>2. Len(s) > 0 => Len(s) \in 1 .. (i - 1)
      BY <1>1, <2>0
    <3>3. Len(s) > 0 => Len(s) <= Len(t)
      BY <1>1, <1>3, <3>2
    <3>4. Len(s) \in Nat /\ Len(t) \in Nat
      BY <1>1
    <3>5. Len(t) = Len(s)
      BY <3>1, <3>3, <3>4
    <3> QED
      BY <2>0, <3>5
  <2>2. \A j \in 1 .. Len(s) : s[j] = t[j]
    BY <1>1, <1>3, <2>1
  <2>3. s = t
    BY <2>1, <2>2, SeqEqual
  <2> QED
    BY <2>3
<1>6. CASE i \notin DOMAIN s /\ i \in DOMAIN t
  BY <1>1, <1>3, <1>4, <1>6 DEF Before
<1>7. CASE i \in DOMAIN s /\ i \notin DOMAIN t
  <2>1. i = Len(t) + 1
    BY <1>1, <1>3, <1>4, <1>7
  <2> QED
    BY <1>1, <1>3, <1>7, <2>1 DEF Before
<1>8. CASE i \in DOMAIN s /\ i \in DOMAIN t
  <2>1. s[i] # t[i] /\ s[i] \in C /\ t[i] \in C
    BY <1>1, <1>4, <1>8
  <2>2. <<s[i], t[i]>> \in R \/ <<t[i], s[i]>> \in R
    BY <2>1 DEF Orders
  <2> QED
    BY <1>1, <1>3, <1>8, <2>2 DEF Before
<1> QED
  BY <1>5, <1>6, <1>7, <1>8

\* What stands before a sequence stands before those that follow it.
LEMMA BeforeFollows ==
  ASSUME NEW C, NEW R, Orders(R, C), NEW s \in Seq(C), NEW t \in Seq(C), NEW u \in Seq(C),
         Before(R, s, t), Before(R, t, u)
  PROVE  Before(R, s, u)
<1>1. /\ Len(s) \in Nat /\ DOMAIN s = 1 .. Len(s) /\ \A i \in 1 .. Len(s) : s[i] \in C
      /\ Len(t) \in Nat /\ DOMAIN t = 1 .. Len(t) /\ \A i \in 1 .. Len(t) : t[i] \in C
      /\ Len(u) \in Nat /\ DOMAIN u = 1 .. Len(u) /\ \A i \in 1 .. Len(u) : u[i] \in C
  BY LenProperties, ElementOfSeq
<1>2. PICK i \in 1 .. Len(t) :
        /\ \A j \in 1 .. (i - 1) : j \in 1 .. Len(s) /\ s[j] = t[j]
        /\ i = Len(s) + 1 \/ (i \in 1 .. Len(s) /\ <<s[i], t[i]>> \in R)
  BY <1>1 DEF Before
<1>3. PICK k \in 1 .. Len(u) :
        /\ \A j \in 1 .. (k - 1) : j \in 1 .. Len(t) /\ t[j] = u[j]
        /\ k = Len(t) + 1 \/ (k \in 1 .. Len(t) /\ <<t[k], u[k]>> \in R)
  BY <1>1 DEF Before
<1>4. CASE i < k
  <2>1. i \in 1 .. (k - 1) /\ t[i] = u[i] /\ i \in 1 .. Len(u)
    BY <1>1, <1>3, <1>4
  <2>2. \A j \in 1 .. (i - 1) : s[j] = u[j]
    BY <1>1, <1>2, <1>3, <1>4
  <2> QED
    BY <1>1, <1>2, <2>1, <2>2 DEF Before
<1>5. CASE i = k
  <2>1. <<t[i], u[i]>> \in R
    BY <1>1, <1>3, <1>5
  <2>2. i \in 1 .. Len(s) /\ <<s[i], t[i]>> \in R => <<s[i], u[i]>> \in R
    <3>1. i \in 1 .. Len(s) => s[i] \in C /\ t[i] \in C /\ u[i] \in C
      BY <1>1, <1>3, <1>5
    <3> QED
      BY <2>1, <3>1 DEF Orders
  <2>3. \A j \in 1 .. (i - 1) : s[j] = u[j]
    BY <1>1, <1>2, <1>3, <1>5
  <2> QED
    BY <1>1, <1>2, <1>3, <1>5, <2>2, <2>3 DEF Before
<1>6. CASE k < i
  <2>1. k \in 1 .. (i - 1) /\ k \in 1 .. Len(s) /\ s[k] = t[k] /\ <<t[k], u[k]>> \in R
    BY <1>1, <1>2, <1>3, <1>6
  <2>2. \A j \in 1 .. (k - 1) : j \in 1 .. Len(s) /\ s[j] = u[j]
    BY <1>1, <1>2, <1>3, <1>6
  <2> QED
    BY <1>1, <1>3, <2>1, <2>2 DEF Before
<1> QED
  BY <1>4, <1>5, <1>6

-----------------------------------------------------------------------------
(* Filters *)

\* g filters the first m elements, and any fewer.
Filters(g, m, e, S) ==
  g = [i \in 0 .. m |-> IF i = 0 THEN <<>>
                        ELSE IF e[i] \in S THEN Append(g[i - 1], e[i]) ELSE g[i - 1]]

\* There is a filter of any number of elements.
LEMMA FilterExists ==
  ASSUME NEW e, NEW S, NEW n \in Nat
  PROVE  \E g : Filters(g, n, e, S)
<1> DEFINE Bad == {m \in 0 .. n : ~ \E g : Filters(g, m, e, S)}
<1>1. SUFFICES ASSUME Bad # {} PROVE FALSE
  OBVIOUS
<1>2. PICK m \in Bad : \A k \in Bad : m <= k
  <2>1. IsFiniteSet(0 .. n) /\ Bad \subseteq 0 .. n
    BY FS_Interval
  <2>2. IsFiniteSet(Bad) /\ Bad \subseteq Int
    BY <2>1, FS_Subset
  <2> HIDE DEF Bad
  <2> QED
    BY <1>1, <2>2, MinIsIn
<1>3. m \in 0 .. n /\ ~ \E g : Filters(g, m, e, S)
  OBVIOUS
<1>4. CASE m = 0
  <2>1. Filters([i \in 0 .. 0 |-> <<>>], 0, e, S)
    BY DEF Filters
  <2> QED
    BY <1>3, <1>4, <2>1
<1>5. CASE m # 0
  <2>1. m - 1 \in 0 .. n /\ m - 1 \notin Bad
    BY <1>2, <1>3, <1>5
  <2>2. PICK h : Filters(h, m - 1, e, S)
    BY <2>1
  <2> DEFINE g == [i \in 0 .. m |-> IF i < m THEN h[i]
                                    ELSE IF e[m] \in S THEN Append(h[m - 1], e[m]) ELSE h[m - 1]]
  <2>3. \A i \in 0 .. m : g[i] = IF i = 0 THEN <<>>
                                 ELSE IF e[i] \in S THEN Append(g[i - 1], e[i]) ELSE g[i - 1]
    <3> TAKE i \in 0 .. m
    <3>1. CASE i = 0
      BY <1>3, <1>5, <2>2, <3>1 DEF Filters
    <3>2. CASE i \in 1 .. m - 1
      <4>1. g[i] = h[i] /\ g[i - 1] = h[i - 1] /\ i \in 0 .. m - 1 /\ i # 0
        BY <1>3, <3>2
      <4>2. h[i] = IF e[i] \in S THEN Append(h[i - 1], e[i]) ELSE h[i - 1]
        BY <2>2, <4>1 DEF Filters
      <4> QED
        BY <4>1, <4>2
    <3>3. CASE i = m
      BY <1>3, <1>5, <3>3
    <3> QED
      BY <1>3, <3>1, <3>2, <3>3
  <2>4. Filters(g, m, e, S)
    <3>1. g = [i \in 0 .. m |-> g[i]]
      OBVIOUS
    <3> HIDE DEF g
    <3> QED
      BY <2>3, <3>1 DEF Filters
  <2> QED
    BY <1>3, <2>4
<1> QED
  BY <1>4, <1>5

\* F are the elements of e up to m that are in S, in their order: pos says where each stands in e.
Selects(pos, F, e, m, S) ==
  /\ pos \in [1 .. Len(F) -> 1 .. m]
  /\ \A p \in 1 .. Len(F) : F[p] = e[pos[p]] /\ e[pos[p]] \in S
  /\ \A p, q \in 1 .. Len(F) : p < q => pos[p] < pos[q]
  /\ \A i \in 1 .. m : e[i] \in S => \E p \in 1 .. Len(F) : pos[p] = i

\* An element of the set is selected after the others.
LEMMA SelectsMore ==
  ASSUME NEW X, NEW F \in Seq(X), NEW e, NEW m \in Nat \ {0}, e[m] \in X, NEW S, e[m] \in S,
         NEW pos, Selects(pos, F, e, m - 1, S)
  PROVE  \E p : Selects(p, Append(F, e[m]), e, m, S)
<1> DEFINE G == Append(F, e[m])
           new == [p \in 1 .. Len(G) |-> IF p <= Len(F) THEN pos[p] ELSE m]
<1>1. Len(F) \in Nat /\ Len(G) = Len(F) + 1 /\ G[Len(F) + 1] = e[m] /\ \A p \in 1 .. Len(F) : G[p] = F[p]
  BY LenProperties, AppendProperties
<1> HIDE DEF G
<1>2. new \in [1 .. Len(G) -> 1 .. m]
  BY <1>1 DEF Selects
<1>3. \A p \in 1 .. Len(G) : G[p] = e[new[p]] /\ e[new[p]] \in S
  BY <1>1 DEF Selects
<1>4. \A p, q \in 1 .. Len(G) : p < q => new[p] < new[q]
  BY <1>1 DEF Selects
<1>5. \A i \in 1 .. m : e[i] \in S => \E p \in 1 .. Len(G) : new[p] = i
  <2> SUFFICES ASSUME NEW i \in 1 .. m, e[i] \in S PROVE \E p \in 1 .. Len(G) : new[p] = i
    OBVIOUS
  <2>1. CASE i = m
    BY <1>1, <2>1
  <2>2. CASE i # m
    <3>1. PICK p \in 1 .. Len(F) : pos[p] = i
      BY <2>2 DEF Selects
    <3>2. p \in 1 .. Len(G) /\ new[p] = i
      BY <1>1, <3>1
    <3> QED
      BY <3>2
  <2> QED
    BY <2>1, <2>2
<1> HIDE DEF new
<1>6. Selects(new, G, e, m, S)
  BY <1>2, <1>3, <1>4, <1>5 DEF Selects
<1> QED
  BY <1>6 DEF G

\* A filter selects the elements of the set, in their order.
LEMMA FilterSelects ==
  ASSUME NEW X, NEW e \in Seq(X), NEW S, NEW g, Filters(g, Len(e), e, S), NEW n \in 0 .. Len(e)
  PROVE  g[n] \in Seq(X) /\ \E pos : Selects(pos, g[n], e, n, S)
<1> DEFINE Bad == {m \in 0 .. Len(e) : ~ (g[m] \in Seq(X) /\ \E pos : Selects(pos, g[m], e, m, S))}
<1>1. SUFFICES ASSUME Bad # {} PROVE FALSE
  OBVIOUS
<1>0. Len(e) \in Nat /\ \A i \in 1 .. Len(e) : e[i] \in X
  BY LenProperties, ElementOfSeq
<1>2. PICK m \in Bad : \A k \in Bad : m <= k
  <2>1. IsFiniteSet(0 .. Len(e)) /\ Bad \subseteq 0 .. Len(e)
    BY <1>0, FS_Interval
  <2>2. IsFiniteSet(Bad) /\ Bad \subseteq Int
    BY <1>0, <2>1, FS_Subset
  <2> HIDE DEF Bad
  <2> QED
    BY <1>1, <2>2, MinIsIn
<1>3. m \in 0 .. Len(e) /\ ~ (g[m] \in Seq(X) /\ \E pos : Selects(pos, g[m], e, m, S))
  OBVIOUS
<1>4. g[m] = IF m = 0 THEN <<>> ELSE IF e[m] \in S THEN Append(g[m - 1], e[m]) ELSE g[m - 1]
  BY <1>3 DEF Filters
<1>5. CASE m = 0
  <2>1. g[m] = <<>> /\ <<>> \in Seq(X) /\ Len(<<>>) = 0
    BY <1>4, <1>5, EmptySeq
  <2>2. Selects([p \in 1 .. 0 |-> 1], <<>>, e, 0, S)
    BY <2>1 DEF Selects
  <2> QED
    BY <1>3, <1>5, <2>1, <2>2
<1>6. CASE m # 0
  <2>1. m - 1 \in 0 .. Len(e) /\ m - 1 \notin Bad /\ m \in Nat \ {0} /\ e[m] \in X
    BY <1>0, <1>2, <1>3, <1>6
  <2>2. g[m - 1] \in Seq(X)
    BY <2>1
  <2>3. PICK pos : Selects(pos, g[m - 1], e, m - 1, S)
    BY <2>1
  <2>4. CASE e[m] \in S
    <3>1. g[m] = Append(g[m - 1], e[m]) /\ g[m] \in Seq(X)
      BY <1>4, <1>6, <2>1, <2>2, <2>4, AppendProperties
    <3>2. \E p : Selects(p, g[m], e, m, S)
      BY <2>1, <2>2, <2>3, <2>4, <3>1, SelectsMore
    <3> QED
      BY <1>3, <3>1, <3>2
  <2>5. CASE e[m] \notin S
    <3>1. g[m] = g[m - 1]
      BY <1>4, <1>6, <2>5
    <3>2. Len(g[m - 1]) \in Nat
      BY <2>2, LenProperties
    <3>3. \A i \in 1 .. m : e[i] \in S => i \in 1 .. m - 1
      BY <2>1, <2>5
    <3>4. pos \in [1 .. Len(g[m - 1]) -> 1 .. m]
      BY <2>1, <2>3 DEF Selects
    <3>5. Selects(pos, g[m], e, m, S)
      BY <2>3, <3>1, <3>3, <3>4 DEF Selects
    <3> QED
      BY <1>3, <2>2, <3>1, <3>5
  <2> QED
    BY <2>4, <2>5
<1> QED
  BY <1>5, <1>6

\* So does Kept.
LEMMA KeptSelects ==
  ASSUME NEW X, NEW e \in Seq(X), NEW S
  PROVE  Kept(e, S) \in Seq(X) /\ \E pos : Selects(pos, Kept(e, S), e, Len(e), S)
<1>1. Len(e) \in Nat
  BY LenProperties
<1>2. PICK h : Filters(h, Len(e), e, S)
  BY <1>1, FilterExists
<1>3. \E g : Filters(g, Len(e), e, S) /\ Kept(e, S) = g[Len(e)]
  BY <1>2 DEF Kept, Filters
<1> QED
  BY <1>1, <1>3, FilterSelects

\* What a filter keeps of a sequence: nothing but elements of it, all that are in the
\* set, none twice that was there once.
LEMMA KeptIs ==
  ASSUME NEW X, NEW e \in Seq(X), NEW S
  PROVE  /\ Kept(e, S) \in Seq(X)
         /\ ToSet(Kept(e, S)) = ToSet(e) \cap S
         /\ IsInjective(e) => IsInjective(Kept(e, S))
<1>0. Len(e) \in Nat /\ DOMAIN e = 1 .. Len(e)
  BY LenProperties
<1>1. PICK pos : Selects(pos, Kept(e, S), e, Len(e), S)
  BY KeptSelects
<1>2. Kept(e, S) \in Seq(X)
  BY KeptSelects
<1>3. PICK t : t = Kept(e, S) /\ t \in Seq(X) /\ Selects(pos, t, e, Len(e), S)
  BY <1>1, <1>2
<1>4. Len(t) \in Nat /\ DOMAIN t = 1 .. Len(t)
  BY <1>3, LenProperties
<1>5. ToSet(t) = ToSet(e) \cap S
  <2>1. \A x \in ToSet(t) : x \in ToSet(e) \cap S
    BY <1>0, <1>3, <1>4 DEF Selects, ToSet
  <2>2. ASSUME NEW x \in ToSet(e) \cap S PROVE x \in ToSet(t)
    <3>1. PICK i \in 1 .. Len(e) : e[i] = x
      BY <1>0, <2>2 DEF ToSet
    <3>2. \E j \in 1 .. Len(t) : t[j] = x
      BY <1>0, <1>3, <1>4, <2>2, <3>1 DEF Selects
    <3> QED
      BY <1>4, <3>2 DEF ToSet
  <2> QED
    BY <2>1, <2>2
<1>6. IsInjective(e) => IsInjective(t)
  BY <1>0, <1>3, <1>4 DEF Selects, IsInjective
<1> QED
  BY <1>2, <1>3, <1>5, <1>6

\* A sequence in which nothing stands twice is as long as the set of its elements.
LEMMA LenIs ==
  ASSUME NEW X, NEW s \in Seq(X), IsInjective(s)
  PROVE  ToSet(s) \subseteq X /\ IsFiniteSet(ToSet(s)) /\ Cardinality(ToSet(s)) = Len(s)
<1>1. Len(s) \in Nat /\ DOMAIN s = 1 .. Len(s) /\ \A i \in 1 .. Len(s) : s[i] \in X
  BY LenProperties, ElementOfSeq
<1>2. s \in [1 .. Len(s) -> ToSet(s)]
  <2>1. s \in [1 .. Len(s) -> X]
    BY <1>1, SeqDef
  <2>2. \A i \in 1 .. Len(s) : s[i] \in ToSet(s)
    BY <1>1 DEF ToSet
  <2> QED
    BY <2>1, <2>2
<1>3. s \in Bijection(1 .. Len(s), ToSet(s))
  <2>1. \A i, j \in 1 .. Len(s) : s[i] = s[j] => i = j
    BY <1>1 DEF IsInjective
  <2>2. \A x \in ToSet(s) : \E i \in 1 .. Len(s) : s[i] = x
    BY <1>1 DEF ToSet
  <2> QED
    BY <1>2, <2>1, <2>2, Fun_IsBij
<1>4. IsFiniteSet(1 .. Len(s)) /\ Cardinality(1 .. Len(s)) = Len(s)
  <2>1. PICK n \in Nat : n = Len(s)
    BY <1>1
  <2>2. IsFiniteSet(1 .. n) /\ Cardinality(1 .. n) = IF 1 > n THEN 0 ELSE n - 1 + 1
    BY FS_Interval
  <2>3. Cardinality(1 .. n) = n
    BY <2>2
  <2> QED
    BY <2>1, <2>2, <2>3
<1>5. \A x \in ToSet(s) : x \in X
  BY <1>1 DEF ToSet
<1> QED
  <2>1. ExistsBijection(1 .. Len(s), ToSet(s))
    BY <1>3 DEF ExistsBijection
  <2> QED
    BY <1>4, <1>5, <2>1, FS_Bijection

\* Two sequences that share nothing, one after the other.
LEMMA JoinIs ==
  ASSUME NEW X, NEW s \in Seq(X), NEW t \in Seq(X), IsInjective(s), IsInjective(t),
         ToSet(s) \cap ToSet(t) = {}
  PROVE  s \o t \in Seq(X) /\ IsInjective(s \o t) /\ ToSet(s \o t) = ToSet(s) \cup ToSet(t)
<1>1. /\ Len(s) \in Nat /\ DOMAIN s = 1 .. Len(s)
      /\ Len(t) \in Nat /\ DOMAIN t = 1 .. Len(t)
  BY LenProperties
<1>2. /\ s \o t \in Seq(X) /\ Len(s \o t) = Len(s) + Len(t)
      /\ \A i \in 1 .. Len(s) + Len(t) : (s \o t)[i] = IF i <= Len(s) THEN s[i] ELSE t[i - Len(s)]
  BY ConcatProperties
<1>3. PICK u : u = s \o t
  OBVIOUS
<1>4. DOMAIN u = 1 .. Len(s) + Len(t)
  BY <1>1, <1>2, <1>3, LenProperties
<1>5. /\ \A i \in 1 .. Len(s) : i \in DOMAIN u /\ u[i] = s[i]
      /\ \A i \in 1 .. Len(t) : i + Len(s) \in DOMAIN u /\ u[i + Len(s)] = t[i]
      /\ \A i \in DOMAIN u : i \in 1 .. Len(s) \/ (i - Len(s) \in 1 .. Len(t) /\ u[i] = t[i - Len(s)])
  BY <1>1, <1>2, <1>3, <1>4
<1>6. ToSet(u) = ToSet(s) \cup ToSet(t)
  BY <1>1, <1>5 DEF ToSet
<1>7. IsInjective(u)
  <2> SUFFICES ASSUME NEW i \in DOMAIN u, NEW j \in DOMAIN u, u[i] = u[j] PROVE i = j
    BY DEF IsInjective
  <2>1. CASE i \in 1 .. Len(s) /\ j \in 1 .. Len(s)
    BY <1>1, <1>5, <2>1 DEF IsInjective
  <2>2. CASE i \in 1 .. Len(s) /\ j \notin 1 .. Len(s)
    <3>1. u[i] \in ToSet(s) /\ u[j] \in ToSet(t)
      BY <1>1, <1>5, <2>2 DEF ToSet
    <3> QED
      BY <3>1
  <2>3. CASE i \notin 1 .. Len(s) /\ j \in 1 .. Len(s)
    <3>1. u[j] \in ToSet(s) /\ u[i] \in ToSet(t)
      BY <1>1, <1>5, <2>3 DEF ToSet
    <3> QED
      BY <3>1
  <2>4. CASE i \notin 1 .. Len(s) /\ j \notin 1 .. Len(s)
    <3>1. i - Len(s) \in DOMAIN t /\ j - Len(s) \in DOMAIN t /\ t[i - Len(s)] = t[j - Len(s)]
      BY <1>1, <1>5, <2>4
    <3>2. i - Len(s) = j - Len(s)
      BY <3>1 DEF IsInjective
    <3> QED
      BY <1>1, <1>4, <3>2
  <2> QED
    BY <2>1, <2>2, <2>3, <2>4
<1> QED
  BY <1>2, <1>3, <1>6, <1>7

-----------------------------------------------------------------------------
(* The agents of a list in their order *)

\* There are finitely many agents, and what ParentOf gives is one of them.
LEMMA FiniteAgents ==
  /\ IsFiniteSet(TuiAgents) /\ Cardinality(TuiAgents) \in Nat
  /\ \A a \in TuiAgents : ParentOf[a] # NoAgent => ParentOf[a] \in TuiAgents
  /\ \A a \in TuiAgents : NameRank(a) \in Nat /\ Alphabet[NameRank(a)] = a
<1>1. Len(Alphabet) \in Nat /\ DOMAIN Alphabet = 1 .. Len(Alphabet)
  BY TuiAssumption, LenProperties
<1>2. TuiAgents = {Alphabet[i] : i \in DOMAIN Alphabet}
  BY TuiAssumption DEF ToSet
<1>3. IsFiniteSet(TuiAgents)
  <2>1. IsFiniteSet(1 .. Len(Alphabet))
    BY <1>1, FS_Interval
  <2>2. Alphabet \in Surjection(1 .. Len(Alphabet), TuiAgents)
    <3>1. Alphabet \in [1 .. Len(Alphabet) -> TuiAgents]
      BY <1>1, TuiAssumption, SeqDef
    <3>2. \A a \in TuiAgents : \E i \in 1 .. Len(Alphabet) : Alphabet[i] = a
      BY <1>1, <1>2
    <3> QED
      BY <3>1, <3>2, Fun_IsSurj
  <2> QED
    BY <2>1, <2>2, FS_Surjection
<1>4. Cardinality(TuiAgents) \in Nat
  BY <1>3, FS_CardinalityType
<1>5. \A a \in TuiAgents : ParentOf[a] # NoAgent => ParentOf[a] \in TuiAgents
  BY TuiAssumption
<1>6. ASSUME NEW a \in TuiAgents PROVE NameRank(a) \in Nat /\ Alphabet[NameRank(a)] = a
  <2>1. \E i \in DOMAIN Alphabet : Alphabet[i] = a
    BY <1>2
  <2>2. NameRank(a) \in DOMAIN Alphabet /\ Alphabet[NameRank(a)] = a
    BY <2>1 DEF NameRank
  <2> QED
    BY <1>1, <2>2
<1> QED
  BY <1>3, <1>4, <1>5, <1>6

\* g climbs m times from an agent to the one above it.
Climbs(g, m, a) ==
  g = [i \in 0 .. m |->
         IF i = 0 THEN <<a>>
         ELSE IF ParentOf[g[i - 1][1]] = NoAgent THEN g[i - 1]
         ELSE <<ParentOf[g[i - 1][1]]>> \o g[i - 1]]

\* Any number of times.
LEMMA ClimbExists ==
  ASSUME NEW a, NEW n \in Nat
  PROVE  \E g : Climbs(g, n, a)
<1> DEFINE Bad == {m \in 0 .. n : ~ \E g : Climbs(g, m, a)}
           above(x) == IF ParentOf[x[1]] = NoAgent THEN x ELSE <<ParentOf[x[1]]>> \o x
<1>1. SUFFICES ASSUME Bad # {} PROVE FALSE
  OBVIOUS
<1>2. PICK m \in Bad : \A k \in Bad : m <= k
  <2>1. IsFiniteSet(0 .. n) /\ Bad \subseteq 0 .. n
    BY FS_Interval
  <2>2. IsFiniteSet(Bad) /\ Bad \subseteq Int
    BY <2>1, FS_Subset
  <2> HIDE DEF Bad
  <2> QED
    BY <1>1, <2>2, MinIsIn
<1>3. m \in 0 .. n /\ ~ \E g : Climbs(g, m, a)
  OBVIOUS
<1>4. CASE m = 0
  <2>1. Climbs([i \in 0 .. 0 |-> <<a>>], 0, a)
    BY DEF Climbs
  <2> QED
    BY <1>3, <1>4, <2>1
<1>5. CASE m # 0
  <2>1. m - 1 \in 0 .. n /\ m - 1 \notin Bad
    BY <1>2, <1>3, <1>5
  <2>2. PICK h : Climbs(h, m - 1, a)
    BY <2>1
  <2> DEFINE g == [i \in 0 .. m |-> IF i < m THEN h[i] ELSE above(h[m - 1])]
  <2>3. \A i \in 0 .. m : g[i] = IF i = 0 THEN <<a>> ELSE above(g[i - 1])
    <3> TAKE i \in 0 .. m
    <3>0. m \in Nat /\ m >= 1
      BY <1>3, <1>5
    <3>1. CASE i = 0
      <4>1. h[0] = <<a>>
        BY <2>2, <3>0 DEF Climbs
      <4> QED
        BY <3>0, <3>1, <4>1
    <3>2. CASE i \in 1 .. m - 1
      <4>1. g[i] = h[i] /\ g[i - 1] = h[i - 1] /\ i \in 0 .. m - 1 /\ i # 0
        BY <1>3, <3>2
      <4>2. h[i] = above(h[i - 1])
        BY <2>2, <4>1 DEF Climbs
      <4> QED
        BY <4>1, <4>2
    <3>3. CASE i = m
      <4>1. g[i] = above(h[m - 1]) /\ g[m - 1] = h[m - 1] /\ i # 0
        BY <3>0, <3>3
      <4> QED
        BY <3>3, <4>1
    <3>4. i = 0 \/ i \in 1 .. m - 1 \/ i = m
      BY <3>0
    <3> HIDE DEF g, above, Bad
    <3> QED
      BY <3>1, <3>2, <3>3, <3>4
  <2>4. Climbs(g, m, a)
    <3>1. g = [i \in 0 .. m |-> g[i]]
      OBVIOUS
    <3> HIDE DEF g
    <3> QED
      BY <2>3, <3>1 DEF Climbs
  <2> QED
    BY <1>3, <2>4
<1> QED
  BY <1>4, <1>5

\* Whoever climbs stays among the agents, with the first agent last.
LEMMA ClimbEnds ==
  ASSUME NEW a \in TuiAgents, NEW n \in Nat, NEW g, Climbs(g, n, a)
  PROVE  g[n] \in Seq(TuiAgents) /\ Len(g[n]) >= 1 /\ g[n][Len(g[n])] = a
<1> DEFINE Ends(s) == s \in Seq(TuiAgents) /\ Len(s) >= 1 /\ s[Len(s)] = a
           Bad == {m \in 0 .. n : ~ Ends(g[m])}
<1>1. SUFFICES ASSUME Bad # {} PROVE FALSE
  OBVIOUS
<1>2. PICK m \in Bad : \A k \in Bad : m <= k
  <2>1. IsFiniteSet(0 .. n) /\ Bad \subseteq 0 .. n
    BY FS_Interval
  <2>2. IsFiniteSet(Bad) /\ Bad \subseteq Int
    BY <2>1, FS_Subset
  <2> HIDE DEF Bad
  <2> QED
    BY <1>1, <2>2, MinIsIn
<1>3. m \in 0 .. n /\ ~ Ends(g[m])
  OBVIOUS
<1>4. g[m] = IF m = 0 THEN <<a>>
             ELSE IF ParentOf[g[m - 1][1]] = NoAgent THEN g[m - 1]
             ELSE <<ParentOf[g[m - 1][1]]>> \o g[m - 1]
  BY <1>3 DEF Climbs
<1>5. CASE m = 0
  <2>1. Ends(<<a>>)
    OBVIOUS
  <2> QED
    BY <1>3, <1>4, <1>5, <2>1
<1>6. CASE m # 0
  <2>1. m - 1 \in 0 .. n /\ m - 1 \notin Bad
    BY <1>2, <1>3, <1>6
  <2>2. PICK s : s = g[m - 1] /\ Ends(s)
    BY <2>1
  <2>3. Len(s) \in Nat /\ s[1] \in TuiAgents
    BY <2>2, LenProperties, ElementOfSeq
  <2>4. PICK p : p = ParentOf[s[1]]
    OBVIOUS
  <2>5. p # NoAgent => Ends(<<p>> \o s)
    <3> SUFFICES ASSUME p # NoAgent PROVE Ends(<<p>> \o s)
      OBVIOUS
    <3>1. p \in TuiAgents
      BY <2>3, <2>4, FiniteAgents
    <3>2. <<p>> \in Seq(TuiAgents) /\ Len(<<p>>) = 1
      BY <3>1
    <3>3. /\ <<p>> \o s \in Seq(TuiAgents) /\ Len(<<p>> \o s) = 1 + Len(s)
          /\ \A i \in 1 .. Len(s) : (<<p>> \o s)[1 + i] = s[i]
      BY <2>2, <2>3, <3>1
    <3>4. (<<p>> \o s)[1 + Len(s)] = a
      BY <2>2, <2>3, <3>3
    <3> QED
      BY <2>2, <2>3, <3>3, <3>4
  <2>6. g[m] = IF p = NoAgent THEN s ELSE <<p>> \o s
    BY <1>4, <1>6, <2>2, <2>4
  <2> QED
    BY <1>3, <2>2, <2>5, <2>6
<1> QED
  BY <1>5, <1>6

\* The line of an agent: agents, the last of them itself.
LEMMA LineageIs ==
  ASSUME NEW a \in TuiAgents
  PROVE  Lineage[a] \in Seq(TuiAgents) /\ Len(Lineage[a]) >= 1 /\ Lineage[a][Len(Lineage[a])] = a
<1>1. PICK n : n = Cardinality(TuiAgents) /\ n \in Nat
  BY FiniteAgents
<1>2. \E g : Climbs(g, n, a)
  BY <1>1, ClimbExists
<1>3. Lineage[a] = (CHOOSE g : Climbs(g, n, a))[n]
  BY <1>1 DEF Lineage, Climbs
<1>4. PICK h : h = (CHOOSE g : Climbs(g, n, a))
  OBVIOUS
<1>5. Climbs(h, n, a)
  BY <1>2, <1>4
<1>6. Lineage[a] = h[n]
  BY <1>3, <1>4
<1> QED
  BY <1>1, <1>5, <1>6, ClimbEnds

\* Two agents of one class or another: one comes first.
Classed(list) == {c \in TuiAgents : list[c] \in Classes}
First(mode, list) ==
  {p \in Classed(list) \X Classed(list) : ComesFirst(mode, list, p[1], p[2])}

\* The key by which sorted() compares agents of one class or another orders them: the
\* class, where the mode asks for it, then the name.
LEMMA SiblingsOrdered ==
  ASSUME NEW mode, NEW list
  PROVE  Orders(First(mode, list), Classed(list))
<1> DEFINE urgency(c) == IF mode = "by_status" THEN Urgency[list[c]] ELSE 0
           C == Classed(list)
<1>1. \A c \in C : urgency(c) \in Nat
  BY DEF Classed, Urgency, Classes
<1>2. \A c \in C : NameRank(c) \in Nat /\ Alphabet[NameRank(c)] = c
  BY FiniteAgents DEF Classed
<1>3. \A a, b \in C : <<a, b>> \in First(mode, list) <=>
        urgency(a) < urgency(b) \/ (urgency(a) = urgency(b) /\ NameRank(a) < NameRank(b))
  BY DEF First, ComesFirst
<1> HIDE DEF urgency, C
<1>4. \A x \in C : <<x, x>> \notin First(mode, list)
  BY <1>1, <1>2, <1>3
<1>5. \A x, y \in C : x # y => <<x, y>> \in First(mode, list) \/ <<y, x>> \in First(mode, list)
  BY <1>1, <1>2, <1>3
<1>6. \A x, y, z \in C : <<x, y>> \in First(mode, list) /\ <<y, z>> \in First(mode, list)
        => <<x, z>> \in First(mode, list)
  BY <1>1, <1>2, <1>3
<1> QED
  BY <1>4, <1>5, <1>6 DEF Orders, C

\* The lists of a worker: a class for each agent, or "absent".
Lists == [TuiAgents -> Classes \cup {"absent"}]
Entries == [id : TuiAgents, class : Classes]

\* What stands in a list with those above it has a class, as they have.
LEMMA ReachedIs ==
  ASSUME NEW list \in Lists, NEW a \in Reached(list)
  PROVE  a \in TuiAgents /\ list[a] \in Classes /\ Lineage[a] \in Seq(Classed(list))
<1>1. a \in TuiAgents /\ \A b \in ToSet(Lineage[a]) : list[b] # "absent"
  BY DEF Reached
<1>2. PICK s : s = Lineage[a] /\ s \in Seq(TuiAgents) /\ Len(s) >= 1 /\ s[Len(s)] = a
  BY <1>1, LineageIs
<1>3. Len(s) \in Nat /\ DOMAIN s = 1 .. Len(s) /\ \A i \in 1 .. Len(s) : s[i] \in TuiAgents
  BY <1>2, LenProperties, ElementOfSeq
<1>4. \A i \in 1 .. Len(s) : s[i] \in ToSet(s)
  BY <1>3 DEF ToSet
<1>5. \A i \in 1 .. Len(s) : s[i] \in Classed(list)
  BY <1>1, <1>2, <1>3, <1>4 DEF Classed, Lists
<1>6. s \in Seq(Classed(list))
  BY <1>2, <1>3, <1>5, IsASeq
<1>7. a \in Classed(list)
  BY <1>2, <1>3, <1>5
<1> QED
  BY <1>1, <1>2, <1>6, <1>7 DEF Classed

\* The entries of a list, and which stands above which.
Shown(list) == {[id |-> a, class |-> list[a]] : a \in Reached(list)}
Above(mode, list) ==
  {p \in Shown(list) \X Shown(list) : StandsAbove(mode, list, p[1].id, p[2].id)}

\* The entries of a list: finitely many, each of one agent with the class of the list, no
\* agent twice.
LEMMA ShownIs ==
  ASSUME NEW list \in Lists
  PROVE  /\ Shown(list) \subseteq Entries /\ IsFiniteSet(Shown(list))
         /\ \A e \in Shown(list) : e.id \in Reached(list) /\ e.class = list[e.id]
         /\ \A d, e \in Shown(list) : d.id = e.id => d = e
<1>1. \A a \in Reached(list) : a \in TuiAgents /\ list[a] \in Classes
  BY ReachedIs
<1>2. Shown(list) \subseteq Entries
  BY <1>1 DEF Shown, Entries
<1>3. \A e \in Shown(list) : e.id \in Reached(list) /\ e.class = list[e.id]
  BY DEF Shown
<1>4. \A d, e \in Shown(list) : d.id = e.id => d = e
  BY DEF Shown
<1>5. IsFiniteSet(Shown(list))
  <2>1. IsFiniteSet(Reached(list))
    BY FiniteAgents, FS_Subset DEF Reached
  <2> DEFINE f == [a \in Reached(list) |-> [id |-> a, class |-> list[a]]]
  <2>2. f \in [Reached(list) -> Shown(list)] /\ \A e \in Shown(list) : \E a \in Reached(list) : f[a] = e
    BY DEF Shown
  <2> HIDE DEF f
  <2>3. f \in Surjection(Reached(list), Shown(list))
    BY <2>2, Fun_IsSurj
  <2> QED
    BY <2>1, <2>3, FS_Surjection
<1> QED
  BY <1>2, <1>3, <1>4, <1>5

\* An agent stands above another when its line comes before the other's.
LEMMA StandsIs ==
  ASSUME NEW mode, NEW list \in Lists, NEW a \in Reached(list), NEW b \in Reached(list)
  PROVE  StandsAbove(mode, list, a, b) <=> Before(First(mode, list), Lineage[a], Lineage[b])
<1>1. PICK s : s = Lineage[a] /\ s \in Seq(Classed(list))
  BY ReachedIs
<1>2. PICK t : t = Lineage[b] /\ t \in Seq(Classed(list))
  BY ReachedIs
<1>3. /\ DOMAIN s = 1 .. Len(s) /\ \A i \in 1 .. Len(s) : s[i] \in Classed(list)
      /\ DOMAIN t = 1 .. Len(t) /\ \A i \in 1 .. Len(t) : t[i] \in Classed(list)
  BY <1>1, <1>2, LenProperties, ElementOfSeq
<1>4. ASSUME NEW i \in DOMAIN t
      PROVE  i \in DOMAIN s /\ ComesFirst(mode, list, s[i], t[i])
               <=> i \in DOMAIN s /\ <<s[i], t[i]>> \in First(mode, list)
  BY <1>3 DEF First
<1>5. StandsAbove(mode, list, a, b) <=>
        \E i \in DOMAIN t :
          /\ \A j \in 1 .. (i - 1) : j \in DOMAIN s /\ s[j] = t[j]
          /\ i = Len(s) + 1 \/ (i \in DOMAIN s /\ ComesFirst(mode, list, s[i], t[i]))
  BY <1>1, <1>2 DEF StandsAbove
<1>6. Before(First(mode, list), s, t) <=> StandsAbove(mode, list, a, b)
  BY <1>4, <1>5 DEF Before
<1> QED
  BY <1>1, <1>2, <1>6

\* In every mode the agents of a list stand in a row.
LEMMA RowOfAgents ==
  ASSUME NEW mode, NEW list \in Lists
  PROVE  Orders(Above(mode, list), Shown(list))
<1> DEFINE R == First(mode, list)
           C == Classed(list)
           line(e) == Lineage[e.id]
<1>1. Orders(R, C)
  BY SiblingsOrdered
<1>2. \A e \in Shown(list) : line(e) \in Seq(C)
  BY ShownIs, ReachedIs
<1>3. \A d, e \in Shown(list) : <<d, e>> \in Above(mode, list) <=> Before(R, line(d), line(e))
  BY ShownIs, StandsIs DEF Above
<1>4. \A d, e \in Shown(list) : d # e => line(d) # line(e)
  <2> SUFFICES ASSUME NEW d \in Shown(list), NEW e \in Shown(list), line(d) = line(e) PROVE d = e
    OBVIOUS
  <2>1. d.id \in TuiAgents /\ e.id \in TuiAgents
    BY ShownIs, ReachedIs
  <2>2. d.id = line(d)[Len(line(d))] /\ e.id = line(e)[Len(line(e))]
    BY <2>1, LineageIs
  <2> QED
    BY <2>2, ShownIs
<1> HIDE DEF line, C, R
<1>5. \A x \in Shown(list) : <<x, x>> \notin Above(mode, list)
  BY <1>1, <1>2, <1>3, NotBeforeItself
<1>6. \A x, y \in Shown(list) : x # y => <<x, y>> \in Above(mode, list) \/ <<y, x>> \in Above(mode, list)
  BY <1>1, <1>2, <1>3, <1>4, OneIsBefore
<1>7. \A x, y, z \in Shown(list) : <<x, y>> \in Above(mode, list) /\ <<y, z>> \in Above(mode, list)
        => <<x, z>> \in Above(mode, list)
  BY <1>1, <1>2, <1>3, BeforeFollows
<1> QED
  BY <1>5, <1>6, <1>7 DEF Orders

\* The list that is sorted has every agent of the list that stands in it with those
\* above it, and each once.
LEMMA SortedIs ==
  ASSUME NEW mode, NEW list \in Lists
  PROVE  /\ Sorted(mode, list) \in Seq(Entries)
         /\ IsInjective(IdsOf(Sorted(mode, list)))
         /\ ToSet(Sorted(mode, list)) = Shown(list)
<1>1. PICK n : n = Cardinality(Shown(list)) /\ n \in Nat
  BY ShownIs, FS_CardinalityType
<1>2. \E s \in [1 .. n -> Shown(list)] :
        \A i \in DOMAIN s : \A j \in 1 .. (i - 1) : StandsAbove(mode, list, s[j].id, s[i].id)
  <2>1. PICK s : Row(s, Shown(list), Above(mode, list))
    BY ShownIs, RowOfAgents, RowExists
  <2>2. s \in [1 .. n -> Shown(list)] /\ DOMAIN s = 1 .. n
    BY <1>1, <2>1 DEF Row
  <2>3. \A i \in 1 .. n : \A j \in 1 .. (i - 1) : <<s[j], s[i]>> \in Above(mode, list)
    BY <1>1, <2>1 DEF Row
  <2> QED
    BY <2>2, <2>3 DEF Above
<1>3. PICK t : t = Sorted(mode, list)
  OBVIOUS
<1>4. /\ t \in [1 .. n -> Shown(list)]
      /\ \A i \in DOMAIN t : \A j \in 1 .. (i - 1) : StandsAbove(mode, list, t[j].id, t[i].id)
  BY <1>1, <1>2, <1>3 DEF Sorted, Shown
<1>5. t \in Seq(Shown(list)) /\ Len(t) = n /\ DOMAIN t = 1 .. n
  BY <1>1, <1>4, IsASeq
<1>6. t \in Seq(Entries)
  BY <1>5, ShownIs, SeqMonotonic
<1>7. ASSUME NEW i \in 1 .. n, NEW j \in 1 .. (i - 1) PROVE t[j].id # t[i].id
  <2>1. t[i] \in Shown(list) /\ t[j] \in Shown(list) /\ <<t[j], t[i]>> \in Above(mode, list)
    BY <1>1, <1>4, <1>7 DEF Above
  <2>2. t[j] # t[i]
    BY <2>1, RowOfAgents DEF Orders
  <2> QED
    BY <2>1, <2>2, ShownIs
<1>8. \A i, j \in 1 .. n : t[i].id = t[j].id => i = j
  BY <1>1, <1>7
<1>9. IsInjective(IdsOf(t))
  BY <1>5, <1>8 DEF IsInjective, IdsOf
<1>10. ToSet(t) = Shown(list)
  <2>1. IsInjective(t)
    BY <1>5, <1>8 DEF IsInjective
  <2>2. ToSet(t) \subseteq Shown(list) /\ Cardinality(ToSet(t)) = n
    BY <1>5, <2>1, LenIs
  <2> QED
    BY <1>1, <2>2, ShownIs, FS_Subset
<1> QED
  BY <1>3, <1>6, <1>9, <1>10

-----------------------------------------------------------------------------
(* The list, its widgets, the selection and the focus *)

\* A list of entries, none of an agent that has one already.
ListTyped(s) == s \in Seq(Entries) /\ IsInjective(IdsOf(s))
RowTyped(s) == s \in Seq(TuiAgents) /\ IsInjective(s)

\* The agents of a list of entries, in its order: none twice.
LEMMA IdsAre ==
  ASSUME NEW s, ListTyped(s)
  PROVE  RowTyped(IdsOf(s)) /\ Len(IdsOf(s)) = Len(s)
<1>1. Len(s) \in Nat /\ DOMAIN s = 1 .. Len(s) /\ \A i \in 1 .. Len(s) : s[i] \in Entries
  BY LenProperties, ElementOfSeq DEF ListTyped
<1>2. IdsOf(s) = [i \in 1 .. Len(s) |-> s[i].id]
  BY <1>1 DEF IdsOf
<1>3. \A i \in 1 .. Len(s) : IdsOf(s)[i] \in TuiAgents
  BY <1>1, <1>2 DEF Entries
<1>4. IdsOf(s) \in Seq(TuiAgents) /\ Len(IdsOf(s)) = Len(s)
  BY <1>1, <1>2, <1>3, IsASeq
<1> QED
  BY <1>4 DEF ListTyped, RowTyped

\* What the list says of each agent is a class, or that it is absent.
LEMMA ListOfIs ==
  ASSUME NEW s, ListTyped(s)
  PROVE  ListOf(s) \in Lists
<1>1. Len(s) \in Nat /\ DOMAIN s = 1 .. Len(s) /\ \A i \in 1 .. Len(s) : s[i] \in Entries
  BY LenProperties, ElementOfSeq DEF ListTyped
<1>2. ASSUME NEW a \in TuiAgents, NEW i \in DOMAIN s, s[i].id = a
      PROVE  (CHOOSE e \in ToSet(s) : e.id = a).class \in Classes
  <2>1. \E e \in ToSet(s) : e.id = a
    BY <1>2 DEF ToSet
  <2>2. PICK d : d = (CHOOSE e \in ToSet(s) : e.id = a)
    OBVIOUS
  <2>3. d \in ToSet(s)
    BY <2>1, <2>2
  <2>4. d \in Entries
    BY <1>1, <2>3 DEF ToSet
  <2> QED
    BY <2>2, <2>4 DEF Entries
<1>3. \A a \in TuiAgents : ListOf(s)[a] \in Classes \cup {"absent"}
  BY <1>2 DEF ListOf
<1> QED
  BY <1>3 DEF Lists, ListOf

\* The widgets are of agents, and no agent has two.
LEMMA VisibleIs ==
  ASSUME NEW s, ListTyped(s), NEW dead, RowTyped(dead), NEW v
  PROVE  RowTyped(VisibleIds(s, dead, v))
<1> DEFINE living == {e.id : e \in {x \in ToSet(s) : x.class \in v.shows \cup {"running", "waiting"}}}
           more == IF "terminated" \in v.shows THEN TuiAgents \ ToSet(IdsOf(s)) ELSE {}
           hidden == IF v.mode = "by_tree" THEN Descendants(v.collapsed) ELSE {}
<1>1. VisibleIds(s, dead, v) = Kept(IdsOf(s), living \ hidden) \o Kept(dead, more \ hidden)
  BY DEF VisibleIds
<1>2. (living \ hidden) \cap ToSet(IdsOf(s)) \cap (more \ hidden) = {}
  OBVIOUS
<1>3. PICK A : A = living \ hidden
  OBVIOUS
<1>4. PICK B : B = more \ hidden
  OBVIOUS
<1>5. RowTyped(IdsOf(s))
  BY IdsAre
<1> HIDE DEF living, more, hidden
<1>6. /\ RowTyped(Kept(IdsOf(s), A)) /\ ToSet(Kept(IdsOf(s), A)) = ToSet(IdsOf(s)) \cap A
      /\ RowTyped(Kept(dead, B)) /\ ToSet(Kept(dead, B)) = ToSet(dead) \cap B
  BY <1>5, KeptIs DEF RowTyped
<1>7. ToSet(Kept(IdsOf(s), A)) \cap ToSet(Kept(dead, B)) = {}
  BY <1>2, <1>3, <1>4, <1>6
<1>8. RowTyped(Kept(IdsOf(s), A) \o Kept(dead, B))
  BY <1>6, <1>7, JoinIs DEF RowTyped
<1> QED
  BY <1>1, <1>3, <1>4, <1>8

\* The widgets in the order of the list are the widgets.
LEMMA OrderIs ==
  ASSUME NEW widgets, RowTyped(widgets), NEW s, ListTyped(s)
  PROVE  /\ RowTyped(InSessionOrder(widgets, s))
         /\ ToSet(InSessionOrder(widgets, s)) = ToSet(widgets)
         /\ Len(InSessionOrder(widgets, s)) = Len(widgets)
         /\ Len(widgets) \in 0 .. Cardinality(TuiAgents)
<1> DEFINE ids == IdsOf(s)
           A == ToSet(widgets)
           B == TuiAgents \ ToSet(IdsOf(s))
           u == InSessionOrder(widgets, s)
<1>1. u = Kept(ids, A) \o Kept(widgets, B)
  BY DEF InSessionOrder
<1>2. RowTyped(ids)
  BY IdsAre
<1>3. /\ RowTyped(Kept(ids, A)) /\ ToSet(Kept(ids, A)) = ToSet(ids) \cap A
      /\ RowTyped(Kept(widgets, B)) /\ ToSet(Kept(widgets, B)) = ToSet(widgets) \cap B
  <2> HIDE DEF ids, A, B
  <2> QED
    BY <1>2, KeptIs DEF RowTyped
<1>4. A \subseteq TuiAgents /\ IsFiniteSet(A) /\ Cardinality(A) = Len(widgets)
  BY LenIs DEF RowTyped
<1>5. ToSet(Kept(ids, A)) \cap ToSet(Kept(widgets, B)) = {}
  BY <1>3
<1>6. ToSet(Kept(ids, A)) \cup ToSet(Kept(widgets, B)) = A
  BY <1>3, <1>4
<1>7. RowTyped(u) /\ ToSet(u) = A
  <2> HIDE DEF ids, A, B, u
  <2> DEFINE first == Kept(ids, A)
             rest == Kept(widgets, B)
  <2>1. /\ RowTyped(first) /\ RowTyped(rest) /\ u = first \o rest
        /\ ToSet(first) \cap ToSet(rest) = {} /\ ToSet(first) \cup ToSet(rest) = A
    BY <1>1, <1>3, <1>5, <1>6
  <2> HIDE DEF first, rest
  <2>2. first \in Seq(TuiAgents) /\ IsInjective(first) /\ rest \in Seq(TuiAgents) /\ IsInjective(rest)
    BY <2>1 DEF RowTyped
  <2>3. /\ first \o rest \in Seq(TuiAgents) /\ IsInjective(first \o rest)
        /\ ToSet(first \o rest) = ToSet(first) \cup ToSet(rest)
    BY <2>1, <2>2, JoinIs
  <2> QED
    BY <2>1, <2>3 DEF RowTyped
<1>8. Len(u) = Len(widgets)
  <2> HIDE DEF u
  <2>1. Cardinality(ToSet(u)) = Len(u)
    BY <1>7, LenIs DEF RowTyped
  <2> QED
    BY <1>4, <1>7, <2>1
<1>9. Len(widgets) \in 0 .. Cardinality(TuiAgents)
  <2>1. Cardinality(A) <= Cardinality(TuiAgents)
    BY <1>4, FiniteAgents, FS_Subset
  <2>2. Len(widgets) \in Nat
    BY LenProperties DEF RowTyped
  <2> QED
    BY <1>4, <2>1, <2>2, FiniteAgents
<1> QED
  BY <1>7, <1>8, <1>9

\* An index that is clamped is one of the row's.
LEMMA ClampedIs ==
  ASSUME NEW i \in Nat, NEW s, RowTyped(s), s # <<>>
  PROVE  Clamped(i, s) \in 0 .. Len(s) - 1 /\ s[Clamped(i, s) + 1] \in TuiAgents
<1>1. Len(s) \in Nat /\ \A j \in 1 .. Len(s) : s[j] \in TuiAgents
  BY LenProperties, ElementOfSeq DEF RowTyped
<1>2. Len(s) # 0
  BY EmptySeq DEF RowTyped
<1>3. Clamped(i, s) \in 0 .. Len(s) - 1
  BY <1>1, <1>2 DEF Clamped
<1>4. Clamped(i, s) + 1 \in 1 .. Len(s)
  BY <1>1, <1>3
<1> QED
  BY <1>1, <1>3, <1>4

\* A list from which entries are taken.
LEMMA FewerEntries ==
  ASSUME NEW s, ListTyped(s), NEW S
  PROVE  ListTyped(Kept(s, S))
<1>1. Len(s) \in Nat /\ DOMAIN s = 1 .. Len(s)
  BY LenProperties DEF ListTyped
<1>2. \A i, j \in DOMAIN s : s[i].id = s[j].id => i = j
  BY DEF ListTyped, IsInjective, IdsOf
<1>3. IsInjective(s)
  BY <1>2 DEF IsInjective
<1>4. PICK t : t = Kept(s, S)
  OBVIOUS
<1>5. t \in Seq(Entries) /\ ToSet(t) = ToSet(s) \cap S /\ IsInjective(t)
  BY <1>3, <1>4, KeptIs DEF ListTyped
<1>6. \A d, e \in ToSet(s) : d.id = e.id => d = e
  BY <1>2 DEF ToSet
<1>7. \A i, j \in DOMAIN t : t[i].id = t[j].id => i = j
  BY <1>5, <1>6 DEF ToSet, IsInjective
<1>8. IsInjective(IdsOf(t))
  BY <1>7 DEF IsInjective, IdsOf
<1> QED
  BY <1>4, <1>5, <1>8 DEF ListTyped

\* A row from which agents are taken; one that had left it comes last.
LEMMA RowChanges ==
  ASSUME NEW s, RowTyped(s)
  PROVE  /\ \A S : RowTyped(Kept(s, S))
         /\ \A a \in TuiAgents : RowTyped(Append(Kept(s, TuiAgents \ {a}), a))
         /\ s # <<>> => RowTyped(Tail(s))
<1>1. \A S : RowTyped(Kept(s, S)) /\ ToSet(Kept(s, S)) = ToSet(s) \cap S
  BY KeptIs DEF RowTyped
<1>2. ASSUME NEW a \in TuiAgents PROVE RowTyped(Append(Kept(s, TuiAgents \ {a}), a))
  <2>1. PICK t : t = Kept(s, TuiAgents \ {a}) /\ t \in Seq(TuiAgents) /\ IsInjective(t) /\ a \notin ToSet(t)
    BY <1>1 DEF RowTyped
  <2>2. Len(t) \in Nat /\ DOMAIN t = 1 .. Len(t)
    BY <2>1, LenProperties
  <2>3. PICK u : u = Append(t, a)
    OBVIOUS
  <2>4. /\ u \in Seq(TuiAgents) /\ DOMAIN u = 1 .. Len(t) + 1 /\ u[Len(t) + 1] = a
        /\ \A i \in 1 .. Len(t) : u[i] = t[i]
    BY <1>2, <2>1, <2>2, <2>3, AppendProperties
  <2>5. \A i \in 1 .. Len(t) : u[i] # a
    BY <2>1, <2>2, <2>4 DEF ToSet
  <2>6. IsInjective(u)
    <3>1. \A i \in DOMAIN u : i \in 1 .. Len(t) \/ i = Len(t) + 1
      BY <2>2, <2>4
    <3>2. \A i, j \in 1 .. Len(t) : t[i] = t[j] => i = j
      BY <2>1, <2>2 DEF IsInjective
    <3>3. \A i, j \in DOMAIN u : u[i] = u[j] => i = j
      BY <2>4, <2>5, <3>1, <3>2
    <3> QED
      BY <3>3 DEF IsInjective
  <2> QED
    BY <2>1, <2>3, <2>4, <2>6 DEF RowTyped
<1>3. ASSUME s # <<>> PROVE RowTyped(Tail(s))
  <2>1. Len(s) \in Nat /\ DOMAIN s = 1 .. Len(s)
    BY LenProperties DEF RowTyped
  <2>2. PICK t : t = Tail(s) /\ t \in Seq(TuiAgents) /\ Len(t) = Len(s) - 1 /\ \A i \in 1 .. Len(t) : t[i] = s[i + 1]
    BY <1>3, HeadTailProperties DEF RowTyped
  <2>3. DOMAIN t = 1 .. Len(s) - 1
    BY <2>2, LenProperties
  <2>4. \A i, j \in DOMAIN t : t[i] = t[j] => i + 1 = j + 1
    BY <2>1, <2>2, <2>3 DEF RowTyped, IsInjective
  <2>5. IsInjective(t)
    BY <2>3, <2>4 DEF IsInjective
  <2> QED
    BY <2>2, <2>5 DEF RowTyped
<1> QED
  BY <1>1, <1>2, <1>3

\* What the focus is on.
Focuses == TuiAgents \cup {"bar", "modal", "none"}
\* Where the cursor can be.
Indices == 0 .. Cardinality(TuiAgents)

\* The place of an agent in a row of widgets is an index.
LEMMA PlaceIs ==
  ASSUME NEW s, RowTyped(s), NEW a \in ToSet(s), Len(s) <= Cardinality(TuiAgents)
  PROVE  /\ (CHOOSE j \in DOMAIN s : s[j] = a) - 1 \in Indices
         /\ (CHOOSE j \in DOMAIN s : s[j] = a) - 1 < Len(s)
<1>1. Len(s) \in Nat /\ DOMAIN s = 1 .. Len(s)
  BY LenProperties DEF RowTyped
<1>2. PICK j : j = (CHOOSE k \in DOMAIN s : s[k] = a)
  OBVIOUS
<1>3. \E k \in DOMAIN s : s[k] = a
  BY DEF ToSet
<1>4. j \in 1 .. Len(s)
  BY <1>1, <1>2, <1>3
<1>5. j - 1 \in Indices /\ j - 1 < Len(s)
  BY <1>1, <1>4, FiniteAgents DEF Indices
<1> QED
  BY <1>2, <1>5

\* The widgets, the index and the focus after an update.
LEMMA UpdateTyped ==
  ASSUME NEW widgets, UpdateWidgets(widgets), ListTyped(sessions'), RowTyped(ghosts'),
         index \in Indices, focus \in Focuses
  PROVE  RowTyped(dom') /\ index' \in Indices /\ focus' \in Focuses
<1>1. RowTyped(dom')
  BY VisibleIs DEF UpdateWidgets
<1>2. PICK held, order :
        /\ order = InSessionOrder(dom', sessions')
        /\ index' = IF dom' = <<>> \/ held = NoAgent THEN index
                    ELSE IF held \in ToSet(dom')
                         THEN (CHOOSE j \in DOMAIN order : order[j] = held) - 1
                         ELSE Clamped(index, order)
        /\ focus' = IF focus \notin TuiAgents THEN focus
                    ELSE IF dom' = <<>> THEN "none"
                    ELSE order[Clamped(index', order) + 1]
  BY DEF UpdateWidgets
<1>3. /\ RowTyped(order) /\ ToSet(order) = ToSet(dom') /\ Len(order) = Len(dom')
      /\ Len(order) <= Cardinality(TuiAgents) /\ Len(order) \in Nat
  BY <1>1, <1>2, OrderIs, FiniteAgents
<1>4. Indices \subseteq Nat
  BY FiniteAgents DEF Indices
<1>5. dom' # <<>> => order # <<>>
  BY <1>1, <1>3, EmptySeq DEF RowTyped
<1>6. index' \in Indices
  <2>1. CASE dom' = <<>> \/ held = NoAgent
    BY <1>2, <2>1
  <2>2. CASE dom' # <<>> /\ held # NoAgent /\ held \in ToSet(dom')
    BY <1>2, <1>3, <2>2, PlaceIs
  <2>3. CASE dom' # <<>> /\ held # NoAgent /\ held \notin ToSet(dom')
    <3>1. index' = Clamped(index, order)
      BY <1>2, <2>3
    <3>2. index' \in 0 .. Len(order) - 1
      BY <1>3, <1>4, <1>5, <2>3, <3>1, ClampedIs
    <3> QED
      BY <1>3, <3>2, FiniteAgents DEF Indices
  <2> QED
    BY <2>1, <2>2, <2>3
<1>7. focus' \in Focuses
  <2>1. CASE focus \notin TuiAgents \/ dom' = <<>>
    BY <1>2, <2>1 DEF Focuses
  <2>2. CASE focus \in TuiAgents /\ dom' # <<>>
    <3>1. order[Clamped(index', order) + 1] \in TuiAgents
      BY <1>3, <1>4, <1>5, <1>6, <2>2, ClampedIs
    <3> QED
      BY <1>2, <2>2, <3>1 DEF Focuses
  <2> QED
    BY <2>1, <2>2
<1> QED
  BY <1>1, <1>6, <1>7

\* The inductive invariant: the types of the lists and of what they are read from.
TuiTyped ==
  /\ stateFile \in Lists /\ windows \subseteq TuiAgents
  /\ fetch \in [ListWorkers -> [at : {"idle", "read"}, list : Lists]]
  /\ ListTyped(sessions) /\ RowTyped(ghosts) /\ RowTyped(dom)
  /\ index \in Indices /\ focus \in Focuses

\* The first list is the sorted one of the state file, with no widget yet.
LEMMA TuiInitTyped == TuiInit => TuiTyped
<1> SUFFICES ASSUME TuiInit PROVE TuiTyped
  OBVIOUS
<1>1. stateFile \in Lists /\ windows \subseteq TuiAgents
  BY DEF TuiInit, Lists, Classes
<1>2. fetch \in [ListWorkers -> [at : {"idle", "read"}, list : Lists]]
  BY DEF TuiInit, NoFetch, Lists
<1>3. ListTyped(sessions)
  BY <1>1, SortedIs DEF TuiInit, ListTyped
<1>4. RowTyped(<<>>)
  BY EmptySeq DEF RowTyped, IsInjective
<1>5. RowTyped(dom)
  BY <1>3, <1>4, VisibleIs DEF TuiInit
<1>6. index \in Indices
  BY FiniteAgents DEF TuiInit, Indices
<1>7. focus \in Focuses
  <2>1. CASE dom = <<>>
    BY <2>1 DEF TuiInit, Focuses
  <2>2. CASE dom # <<>>
    <3>1. dom \in Seq(TuiAgents) /\ Len(dom) \in Nat /\ Len(dom) # 0
      BY <1>5, <2>2, EmptySeq, LenProperties DEF RowTyped
    <3>2. dom[1] \in TuiAgents
      BY <3>1, ElementOfSeq
    <3> QED
      BY <2>2, <3>2 DEF TuiInit, Focuses
  <2> QED
    BY <2>1, <2>2
<1> QED
  BY <1>1, <1>2, <1>3, <1>4, <1>5, <1>6, <1>7 DEF TuiInit, TuiTyped

\* What other processes do, and the workers that read it.
LEMMA WorldTyped ==
  ASSUME TuiTyped,
         \/ \E a \in TuiAgents : AgentLaunched(a) \/ WindowVanishes(a) \/ CleanedUpElsewhere(a)
         \/ \E a \in TuiAgents, class \in Classes \ {"terminated"} : AgentChanges(a, class)
  PROVE  TuiTyped'
<1>1. stateFile' \in Lists /\ windows' \subseteq TuiAgents
  <2>1. CASE \E a \in TuiAgents : AgentLaunched(a)
    BY <2>1 DEF TuiTyped, Lists, Classes, AgentLaunched
  <2>2. CASE \E a \in TuiAgents : WindowVanishes(a)
    BY <2>2 DEF TuiTyped, WindowVanishes
  <2>3. CASE \E a \in TuiAgents : CleanedUpElsewhere(a)
    BY <2>3 DEF TuiTyped, Lists, CleanedUpElsewhere
  <2>4. CASE \E a \in TuiAgents, class \in Classes \ {"terminated"} : AgentChanges(a, class)
    BY <2>4 DEF TuiTyped, Lists, AgentChanges
  <2> QED
    BY <2>1, <2>2, <2>3, <2>4
<1>2. UNCHANGED <<fetch, sessions, ghosts, dom, index, focus>>
  BY DEF AgentLaunched, WindowVanishes, CleanedUpElsewhere, AgentChanges, Event, listVars
<1> QED
  BY <1>1, <1>2 DEF TuiTyped

\* A worker reads the agents that are there (list_sessions of the background refresh).
LEMMA FetchTyped ==
  ASSUME TuiTyped, NEW k \in ListWorkers, FetchSessions(k)
  PROVE  TuiTyped'
<1>1. Detected(stateFile) \in Lists
  BY DEF TuiTyped, Lists, Detected, Classes
<1>2. fetch' \in [ListWorkers -> [at : {"idle", "read"}, list : Lists]]
  BY <1>1 DEF TuiTyped, FetchSessions
<1>3. UNCHANGED <<windows, sessions, ghosts, dom, index, focus>> /\ stateFile' \in Lists
  BY <1>1 DEF FetchSessions, listVars
<1> QED
  BY <1>2, <1>3 DEF TuiTyped

\* The main thread takes what a worker read: a sorted list, of each agent once, and widgets
\* for it.
LEMMA ApplyTyped ==
  ASSUME TuiTyped, NEW k \in ListWorkers, ApplySessions(k)
  PROVE  TuiTyped'
<1>1. NoFetch \in [at : {"idle", "read"}, list : Lists] /\ fetch[k].list \in Lists
  BY DEF TuiTyped, NoFetch, Lists
<1>2. fetch' \in [ListWorkers -> [at : {"idle", "read"}, list : Lists]]
  BY <1>1 DEF TuiTyped, ApplySessions
<1>3. ListTyped(sessions')
  BY <1>1, SortedIs DEF ApplySessions, ListTyped
<1>4. UNCHANGED <<stateFile, windows, ghosts>> /\ UpdateWidgets(dom)
  BY DEF ApplySessions, envVars
<1>5. RowTyped(dom') /\ index' \in Indices /\ focus' \in Focuses
  BY <1>3, <1>4, UpdateTyped DEF TuiTyped
<1> QED
  BY <1>2, <1>3, <1>4, <1>5 DEF TuiTyped

\* Where the selection is, when there is a widget.
LEMMA SelectedTyped ==
  ASSUME TuiTyped
  PROVE  /\ Selected \in TuiAgents \cup {NoAgent}
         /\ Len(InSessionOrder(dom, sessions)) = Len(dom)
         /\ Len(dom) \in Indices /\ (dom # <<>> => Len(dom) # 0)
         /\ Clamped(index, dom) \in Indices \/ dom = <<>>
         /\ Selected # NoAgent => dom # <<>>
         /\ \A i \in 0 .. Len(dom) - 1 : InSessionOrder(dom, sessions)[i + 1] \in TuiAgents /\ i \in Indices
<1>1. PICK order : order = InSessionOrder(dom, sessions)
  OBVIOUS
<1>2. /\ RowTyped(order) /\ ToSet(order) = ToSet(dom) /\ Len(order) = Len(dom)
      /\ Len(dom) \in 0 .. Cardinality(TuiAgents)
  BY <1>1, OrderIs DEF TuiTyped
<1>3. Indices \subseteq Nat /\ index \in Nat
  BY FiniteAgents DEF TuiTyped, Indices
<1>4. /\ order \in Seq(TuiAgents) /\ Len(order) \in Nat /\ \A i \in 1 .. Len(order) : order[i] \in TuiAgents
      /\ (order = <<>> <=> Len(order) = 0) /\ (dom = <<>> <=> Len(dom) = 0)
  BY <1>2, LenProperties, ElementOfSeq, EmptySeq DEF RowTyped, TuiTyped
<1>5. Selected = IF order = <<>> THEN NoAgent ELSE order[Clamped(index, order) + 1]
  BY <1>1 DEF Selected, SelectedIn
<1>6. Selected \in TuiAgents \cup {NoAgent}
  BY <1>2, <1>3, <1>5, ClampedIs
<1>7. Clamped(index, dom) \in Indices \/ dom = <<>>
  <2>1. dom # <<>> => Clamped(index, dom) \in 0 .. Len(dom) - 1
    BY <1>3, ClampedIs DEF TuiTyped
  <2> QED
    BY <1>2, <1>4, <2>1, FiniteAgents DEF Indices
<1>8. Selected # NoAgent => dom # <<>>
  BY <1>2, <1>4, <1>5
<1>9. \A i \in 0 .. Len(dom) - 1 : order[i + 1] \in TuiAgents /\ i \in Indices
  BY <1>2, <1>4, FiniteAgents DEF Indices
<1> QED
  BY <1>1, <1>2, <1>4, <1>6, <1>7, <1>8, <1>9 DEF Indices

\* What the TUI does by itself, and what only moves the selection or the focus.
LEMMA FocusTyped ==
  ASSUME TuiTyped,
         \/ FocusRecovers \/ GhostExpires \/ ConfirmationExpires \/ FocusNextOrPrevious
         \/ (\E a \in TuiAgents : ClickAgent(a))
         \/ OpenCommandBar \/ CloseCommandBar \/ OpenModal \/ CloseModal
  PROVE  TuiTyped'
<1>1. UNCHANGED <<stateFile, windows, fetch, sessions, dom>> /\ RowTyped(ghosts')
  BY RowChanges DEF TuiTyped, FocusRecovers, GhostExpires, ConfirmationExpires, FocusNextOrPrevious,
     ClickAgent, OpenCommandBar, CloseCommandBar, OpenModal, CloseModal, envVars, listVars, keyVars,
     Input, MoveTo
<1>2. index' \in Indices /\ focus' \in Focuses
  <2>1. CASE FocusRecovers
    BY <2>1, SelectedTyped DEF FocusRecovers, Focuses
  <2>2. CASE GhostExpires \/ ConfirmationExpires
    BY <2>2 DEF GhostExpires, ConfirmationExpires, listVars, TuiTyped
  <2>3. CASE FocusNextOrPrevious
    <3>1. PICK i \in {(index + 1) % Len(dom), (index - 1) % Len(dom)} : MoveTo(i)
      BY <2>3 DEF FocusNextOrPrevious
    <3>2. dom # <<>> /\ Len(dom) \in Nat \ {0} /\ index \in Int
      BY <2>3, SelectedTyped, FiniteAgents DEF FocusNextOrPrevious, Indices, TuiTyped
    <3>3. i \in 0 .. Len(dom) - 1
      BY <3>1, <3>2
    <3> QED
      BY <3>1, <3>3, SelectedTyped DEF MoveTo, Focuses
  <2>4. CASE \E a \in TuiAgents : ClickAgent(a)
    BY <2>4 DEF ClickAgent, TuiTyped, Focuses
  <2>5. CASE OpenCommandBar \/ OpenModal
    BY <2>5 DEF OpenCommandBar, OpenModal, TuiTyped, Focuses
  <2>6. CASE CloseCommandBar
    <3>1. PICK order : order = InSessionOrder(dom, sessions)
      OBVIOUS
    <3>2. /\ RowTyped(order) /\ ToSet(order) = ToSet(dom) /\ Len(order) = Len(dom)
          /\ Len(order) <= Cardinality(TuiAgents) /\ Len(order) \in Nat
      BY <3>1, OrderIs, FiniteAgents DEF TuiTyped
    <3>3. CASE dom = <<>>
      BY <2>6, <3>3 DEF CloseCommandBar, TuiTyped, Focuses
    <3>4. CASE dom # <<>>
      <4>1. /\ index' = IF barTarget \in ToSet(dom)
                        THEN (CHOOSE j \in DOMAIN order : order[j] = barTarget) - 1
                        ELSE Clamped(index, order)
            /\ focus' = order[index' + 1]
        BY <2>6, <3>1, <3>4 DEF CloseCommandBar
      <4>2. order # <<>> /\ index \in Nat
        BY <3>2, <3>4, EmptySeq, FiniteAgents DEF TuiTyped, RowTyped, Indices
      <4>3. index' \in Indices /\ index' < Len(order)
        <5>1. CASE barTarget \in ToSet(dom)
          BY <3>2, <4>1, <5>1, PlaceIs
        <5>2. CASE barTarget \notin ToSet(dom)
          <6>1. index' \in 0 .. Len(order) - 1
            BY <3>2, <4>1, <4>2, <5>2, ClampedIs
          <6> QED
            BY <3>2, <6>1, FiniteAgents DEF Indices
        <5> QED
          BY <5>1, <5>2
      <4>4. order[index' + 1] \in TuiAgents
        <5>1. index' + 1 \in 1 .. Len(order)
          <6>1. PICK i \in Nat : i = index'
            BY <4>3, FiniteAgents DEF Indices
          <6>2. PICK n \in Nat : n = Len(order)
            BY <3>2
          <6>3. i < n
            BY <4>3, <6>1, <6>2
          <6>4. i + 1 \in 1 .. n
            BY <6>3
          <6> QED
            BY <6>1, <6>2, <6>4
        <5> QED
          BY <3>2, <5>1, ElementOfSeq DEF RowTyped
      <4> QED
        BY <4>1, <4>3, <4>4 DEF Focuses
    <3> QED
      BY <3>3, <3>4
  <2>7. CASE CloseModal
    <3>1. ToSet(dom) \subseteq TuiAgents
      BY LenIs DEF TuiTyped, RowTyped
    <3>2. CASE focus' = (IF saved \in ToSet(dom) THEN saved ELSE "none") /\ UNCHANGED index
      BY <3>1, <3>2 DEF TuiTyped, Focuses
    <3>3. CASE \E i \in 0 .. (Len(dom) - 1) : index' = i /\ focus' = InSessionOrder(dom, sessions)[i + 1]
      BY <3>3, SelectedTyped DEF Focuses
    <3> QED
      BY <2>7, <3>2, <3>3 DEF CloseModal
  <2> QED
    BY <2>1, <2>2, <2>3, <2>4, <2>5, <2>6, <2>7
<1> QED
  BY <1>1, <1>2 DEF TuiTyped

\* Another sort mode or filter sorts the same entries anew.
LEMMA ViewChangeTyped ==
  ASSUME TuiTyped, ChangeView
  PROVE  TuiTyped'
<1>1. ListTyped(sessions')
  BY ListOfIs, SortedIs DEF TuiTyped, ChangeView, ListTyped
<1>2. UNCHANGED <<stateFile, windows, fetch, ghosts>> /\ UpdateWidgets(dom)
  BY DEF ChangeView, Input, envVars
<1>3. RowTyped(dom') /\ index' \in Indices /\ focus' \in Focuses
  BY <1>1, <1>2, UpdateTyped DEF TuiTyped
<1> QED
  BY <1>1, <1>2, <1>3 DEF TuiTyped

\* A kill, and a cleanup.
LEMMA KillTyped ==
  ASSUME TuiTyped, UNCHANGED fetch, NEW a \in TuiAgents, ExecuteKill(a) \/ ExecuteCleanup(a)
  PROVE  TuiTyped'
<1>1. CASE UNCHANGED <<stateFile, windows, listVars>>
  BY <1>1 DEF TuiTyped, listVars
<1>2. CASE ~ UNCHANGED <<stateFile, windows, listVars>>
  <2>1. stateFile' \in Lists /\ windows' \subseteq TuiAgents
    BY <1>2 DEF TuiTyped, Lists, ExecuteKill, ExecuteCleanup
  <2>2. sessions' = Without(a) /\ UpdateWidgets(Kept(dom, TuiAgents \ {a}))
    BY <1>2 DEF ExecuteKill, ExecuteCleanup
  <2>3. ListTyped(sessions')
    BY <2>2, FewerEntries DEF Without, TuiTyped
  <2>4. RowTyped(ghosts')
    <3>1. RowTyped(Kept(ghosts, TuiAgents \ {a})) /\ RowTyped(Append(Kept(ghosts, TuiAgents \ {a}), a))
      BY RowChanges DEF TuiTyped
    <3>2. \/ ghosts' = Kept(ghosts, TuiAgents \ {a})
          \/ ghosts' = Append(Kept(ghosts, TuiAgents \ {a}), a)
      BY <1>2 DEF ExecuteKill, ExecuteCleanup
    <3> QED
      BY <3>1, <3>2
  <2>5. RowTyped(dom') /\ index' \in Indices /\ focus' \in Focuses
    BY <2>2, <2>3, <2>4, UpdateTyped DEF TuiTyped
  <2> QED
    BY <2>1, <2>3, <2>4, <2>5 DEF TuiTyped
<1> QED
  BY <1>1, <1>2

\* A second x kills or cleans up; R revives: what goes from the lists leaves the rest of
\* them as it was.
LEMMA PressTyped ==
  ASSUME TuiTyped, PressX \/ ReviveAgent
  PROVE  TuiTyped'
<1>1. CASE PressX
  <2>1. UNCHANGED fetch /\ focus \in TuiAgents
    BY <1>1 DEF PressX, Input
  <2>2. ExecuteKill(focus) \/ ExecuteCleanup(focus) \/ UNCHANGED <<stateFile, windows, listVars>>
    BY <1>1 DEF PressX, ConfirmDoublePress
  <2>3. CASE UNCHANGED <<stateFile, windows, listVars>>
    BY <2>1, <2>3 DEF TuiTyped, listVars
  <2> QED
    BY <2>1, <2>2, <2>3, KillTyped
<1>2. CASE ReviveAgent
  <2>1. stateFile' \in Lists /\ windows' \subseteq TuiAgents
    BY <1>2 DEF TuiTyped, Lists, Classes, ReviveAgent
  <2>2. RowTyped(ghosts') /\ UNCHANGED <<fetch, sessions, dom, index, focus>>
    BY <1>2, RowChanges DEF ReviveAgent, Input, TuiTyped
  <2> QED
    BY <2>1, <2>2 DEF TuiTyped
<1> QED
  BY <1>1, <1>2

\* Every step of the TUI and of what it shows keeps the types.
LEMMA TuiTypes == TuiTyped /\ [TuiNext]_tuiVars => TuiTyped'
<1> SUFFICES ASSUME TuiTyped, [TuiNext]_tuiVars PROVE TuiTyped'
  OBVIOUS
<1>1. CASE UNCHANGED tuiVars
  BY <1>1 DEF tuiVars, TuiTyped
<1>2. CASE TuiNext
  BY <1>2, WorldTyped, FetchTyped, ApplyTyped, FocusTyped, ViewChangeTyped, PressTyped DEF TuiNext
<1> QED
  BY <1>1, <1>2

\* These types are those that TLC checks.
LEMMA TypedIsOK == TuiTyped => TuiTypeOK
  BY LenIs DEF TuiTyped, TuiTypeOK, Lists, RowTyped, ListTyped, Indices, Focuses

\* The lists of the TUI are well formed: no agent stands twice in the list or has two widgets,
\* and the index is one that the widgets can have.
THEOREM TuiTypeCorrect == TuiSpec => []TuiTypeOK
<1>1. TuiSpec => []TuiTyped
  BY TuiInitTyped, TuiTypes, PTL DEF TuiSpec
<1> QED
  BY <1>1, TypedIsOK, PTL

\* When the answer of a worker is applied, the list that is left shows every agent of it
\* that stands in it with those above it, each once and as the answer has it, and nobody
\* else: the sort of a tree in any mode loses no agent and doubles none.
THEOREM AnswerIsShown ==
  TuiSpec =>
    [][\A k \in ListWorkers : fetch[k].at = "read" /\ fetch'[k].at = "idle"
         => /\ ToSet(sessions') = {[id |-> a, class |-> fetch[k].list[a]] : a \in Reached(fetch[k].list)}
            /\ IsInjective(IdsOf(sessions'))]_tuiVars
<1>1. TuiSpec => []TuiTyped
  BY TuiInitTyped, TuiTypes, PTL DEF TuiSpec
<1>2. ASSUME TuiTyped, [TuiNext]_tuiVars, NEW k \in ListWorkers, fetch[k].at = "read", fetch'[k].at = "idle"
      PROVE  /\ ToSet(sessions') = {[id |-> a, class |-> fetch[k].list[a]] : a \in Reached(fetch[k].list)}
             /\ IsInjective(IdsOf(sessions'))
  <2>1. fetch' # fetch
    BY <1>2
  <2>2. PICK j \in ListWorkers : FetchSessions(j) \/ ApplySessions(j)
    BY <1>2, <2>1 DEF TuiNext, tuiVars, AgentLaunched, WindowVanishes, CleanedUpElsewhere, AgentChanges,
       Event, ClickAgent, Input, FocusRecovers, GhostExpires, ConfirmationExpires, FocusNextOrPrevious,
       ChangeView, PressX, ReviveAgent, OpenCommandBar, CloseCommandBar, OpenModal, CloseModal
  <2>3. ~FetchSessions(j)
    BY <1>2, <2>2 DEF FetchSessions, TuiTyped
  <2>4. j = k /\ ApplySessions(k)
    BY <1>2, <2>2, <2>3 DEF ApplySessions, TuiTyped
  <2>5. sessions' = Sorted(view.mode, fetch[k].list) /\ fetch[k].list \in Lists
    BY <1>2, <2>4 DEF ApplySessions, TuiTyped
  <2> QED
    BY <2>5, SortedIs DEF Shown
<1>3. TuiTyped /\ [TuiNext]_tuiVars =>
        [\A k \in ListWorkers : fetch[k].at = "read" /\ fetch'[k].at = "idle"
           => /\ ToSet(sessions') = {[id |-> a, class |-> fetch[k].list[a]] : a \in Reached(fetch[k].list)}
              /\ IsInjective(IdsOf(sessions'))]_tuiVars
  BY <1>2
<1> QED
  BY <1>1, <1>3, PTL DEF TuiSpec

-----------------------------------------------------------------------------
(* The second press of x *)

\* What x asks for: to kill an agent that runs, to clean up one that does not.
Presses == {"kill", "cleanup"}

\* What waits for a second press was asked for by the last press of its kind.
PressInv ==
  /\ DOMAIN stateFile = TuiAgents
  /\ pending \in [Presses -> TuiAgents \cup {NoAgent}]
  /\ lastPress \in [Presses -> TuiAgents \cup {NoAgent}]
  /\ \A kind \in Presses : pending[kind] \in {lastPress[kind], NoAgent}

\* Every agent has a class in the state file, "absent" if it is not there, and keeps
\* one.
LEMMA AllClassed == DOMAIN stateFile = TuiAgents /\ TuiNext => DOMAIN stateFile' = TuiAgents
  BY DEF TuiNext, AgentLaunched, WindowVanishes, CleanedUpElsewhere, AgentChanges, ClickAgent,
     envVars, listVars, FetchSessions, Detected, ApplySessions, FocusRecovers, GhostExpires,
     ConfirmationExpires,
     FocusNextOrPrevious, ChangeView, PressX, ConfirmDoublePress, ExecuteKill, ExecuteCleanup,
     ReviveAgent,
     OpenCommandBar, CloseCommandBar, OpenModal, CloseModal

\* Every step but x and the end of a warning leaves the warnings alone, and removes no
\* agent unless it is one of the environment, which takes no key.
LEMMA OtherSteps ==
  ASSUME TuiNext
  PROVE  \/ PressX
         \/ ConfirmationExpires
         \/ UNCHANGED <<pending, lastPress, inputs>>
         \/ /\ UNCHANGED <<pending, lastPress>>
            /\ UNCHANGED stateFile \/ ReviveAgent
  BY DEF TuiNext, AgentLaunched, WindowVanishes, CleanedUpElsewhere, AgentChanges, Event, keyVars,
     ClickAgent,
     envVars, listVars, FetchSessions, ApplySessions, FocusRecovers, GhostExpires, FocusNextOrPrevious,
     ChangeView,
     OpenCommandBar, CloseCommandBar, OpenModal, CloseModal, ReviveAgent

\* x on the agent that has the focus: a first press, or one after the warning of another
\* agent, only warns; a second press kills that agent and its descendants
\* (_confirm_double_press).
LEMMA PressIs ==
  ASSUME PressInv, PressX, DOMAIN stateFile' = TuiAgents
  PROVE  /\ PressInv'
         /\ \A a \in TuiAgents : stateFile[a] # "absent" /\ stateFile'[a] = "absent" =>
              /\ a \in {focus} \cup Descendants({focus})
              /\ \E kind \in Presses : lastPress[kind] = focus
<1>1. PICK kind \in Presses : /\ lastPress' = [lastPress EXCEPT ![kind] = focus]
                              /\ ConfirmDoublePress(kind, focus)
  BY DEF PressX, Presses
<1>2. focus \in TuiAgents /\ focus # NoAgent
  BY TuiAssumption DEF PressX
<1>3. /\ lastPress' \in [Presses -> TuiAgents \cup {NoAgent}] /\ lastPress'[kind] = focus
      /\ \A k \in Presses \ {kind} : lastPress'[k] = lastPress[k]
  BY <1>1, <1>2 DEF PressInv
<1>4. CASE pending[kind] = focus
  <2>1. pending' = [pending EXCEPT ![kind] = NoAgent]
    BY <1>1, <1>4 DEF ConfirmDoublePress
  <2>2. PressInv'
    BY <1>3, <2>1 DEF PressInv
  <2>3. lastPress[kind] = focus
    BY <1>2, <1>4 DEF PressInv
  <2>4. ExecuteKill(focus) \/ ExecuteCleanup(focus)
    BY <1>1, <1>4 DEF ConfirmDoublePress
  <2>5. ASSUME NEW a \in TuiAgents, stateFile[a] # "absent", stateFile'[a] = "absent"
        PROVE  a \in {focus} \cup Descendants({focus})
    <3>1. CASE ExecuteKill(focus)
      BY <2>5, <3>1 DEF PressInv, ExecuteKill
    <3>2. CASE ExecuteCleanup(focus)
      BY <2>5, <3>2 DEF PressInv, ExecuteCleanup
    <3> QED
      BY <2>4, <3>1, <3>2
  <2> QED
    BY <2>2, <2>3, <2>5
<1>5. CASE pending[kind] # focus
  <2>1. pending' = [pending EXCEPT ![kind] = focus] /\ UNCHANGED stateFile
    BY <1>1, <1>5 DEF ConfirmDoublePress
  <2>2. PressInv'
    BY <1>2, <1>3, <2>1 DEF PressInv
  <2> QED
    BY <2>1, <2>2
<1> QED
  BY <1>4, <1>5

\* Every step keeps the warnings in line with the last presses.
LEMMA PressStep == PressInv /\ [TuiNext]_tuiVars => PressInv'
<1> SUFFICES ASSUME PressInv, [TuiNext]_tuiVars PROVE PressInv'
  OBVIOUS
<1>0. DOMAIN stateFile' = TuiAgents
  BY AllClassed DEF PressInv, tuiVars
<1>1. CASE PressX
  BY <1>0, <1>1, PressIs
<1>2. CASE ConfirmationExpires
  BY <1>0, <1>2 DEF ConfirmationExpires, PressInv, Presses
<1>3. CASE UNCHANGED <<pending, lastPress>>
  BY <1>0, <1>3 DEF PressInv
<1> QED
  BY <1>1, <1>2, <1>3, OtherSteps DEF tuiVars

\* For any agents and any number of keys: a key removes only the agent with the focus,
\* or its descendants, and only after an earlier x of that kind on the same agent.
THEOREM KilledOnlyAsked == TuiSpec => KilledOnSecondPress
<1>1. TuiInit => PressInv
  BY DEF TuiInit, PressInv, Presses
<1>2. ASSUME PressInv, [TuiNext]_tuiVars, NEW a \in TuiAgents,
             inputs' # inputs, stateFile[a] # "absent", stateFile'[a] = "absent"
      PROVE  /\ a \in {focus} \cup Descendants({focus})
             /\ \E kind \in {"kill", "cleanup"} : lastPress[kind] = focus
  <2>1. TuiNext
    BY <1>2 DEF tuiVars
  <2>2. ~ConfirmationExpires
    BY <1>2 DEF ConfirmationExpires
  <2>3. ReviveAgent => stateFile'[a] # "absent"
    BY <1>2 DEF ReviveAgent, PressInv
  <2>4. PressX
    BY <1>2, <2>1, <2>2, <2>3, OtherSteps
  <2> QED
    BY <1>2, <2>1, <2>4, AllClassed, PressIs DEF Presses, PressInv
<1>3. PressInv /\ [TuiNext]_tuiVars =>
        [\A a \in TuiAgents :
           inputs' # inputs /\ stateFile[a] # "absent" /\ stateFile'[a] = "absent"
             => /\ a \in {focus} \cup Descendants({focus})
                /\ \E kind \in {"kill", "cleanup"} : lastPress[kind] = focus]_tuiVars
  BY <1>2
<1> QED
  BY <1>1, <1>3, PressStep, PTL DEF TuiSpec, KilledOnSecondPress

-----------------------------------------------------------------------------
(* Views and modals of the TUI *)

\* A decision that waits.
Decisions == [modal : Modals, decision : {"apply", "cancel"}, value : Values]

\* The types.
ViewTyped == ViewTypeOK /\ queue \in Seq(Decisions)

\* No decision about the columns waits.
NoColumnsWait == \A i \in 1 .. Len(queue) : queue[i].modal # "columns"

\* The inductive invariant.
ViewInv ==
  /\ ViewTyped
  /\ DialogVisible => zoomed
  /\ zoomed => DialogVisible \/ sisterView \/ tuiMode = "jobs" \/ queue # <<>>
  /\ modal # "columns" /\ NoColumnsWait => live = config.columns

\* Every key, modal and decision keeps the types; queue holds decisions of modals only.
LEMMA ViewTypes == ViewSpec => []ViewTyped
<1>1. ViewInit => ViewTyped
  <2> SUFFICES ASSUME ViewInit PROVE ViewTyped
    OBVIOUS
  <2>1. queue \in Seq(Decisions)
    BY DEF ViewInit
  <2>2. config \in [Modals \ {"jump"} -> Values]
    BY DEF ViewInit, Values
  <2> QED
    BY <2>1, <2>2 DEF ViewInit, ViewTyped, ViewTypeOK, Values
<1>2. ViewTyped /\ [ViewNext]_viewVars => ViewTyped'
  <2>1. ViewTyped /\ UNCHANGED viewVars => ViewTyped'
    BY DEF viewVars, ViewTyped, ViewTypeOK
  <2> SUFFICES ASSUME ViewTyped, ViewNext PROVE ViewTyped'
    BY <2>1
  <2> USE DEF ViewTyped, ViewTypeOK, settingVars
  <2>2. ASSUME NEW m \in Modals, OpenDialog(m) PROVE ViewTyped'
    BY <2>2 DEF OpenDialog, DialogWillOpen, Modals
  <2>3. CASE Toggle
    BY <2>3 DEF Toggle, Values
  <2>4. CASE ApplyModal
    <3>1. [modal |-> modal, decision |-> "apply", value |-> IF modal = "columns" THEN edit ELSE 0] \in Decisions
      BY <2>4 DEF ApplyModal, Decide, Decisions, Values
    <3>2. queue' \in Seq(Decisions)
      BY <2>4, <3>1 DEF ApplyModal, Decide
    <3> QED
      BY <2>4, <3>2 DEF ApplyModal, Decide, Modals
  <2>5. CASE CancelModal
    <3>1. [modal |-> modal, decision |-> "cancel", value |-> 0] \in Decisions
      BY <2>5 DEF CancelModal, Decide, Decisions, Values
    <3>2. queue' \in Seq(Decisions)
      BY <2>5, <3>1 DEF CancelModal, Decide
    <3> QED
      BY <2>5, <3>2 DEF CancelModal, Decide, Modals
  <2>6. CASE HandleDecision
    <3>1. Head(queue) \in Decisions /\ queue' \in Seq(Decisions)
      BY <2>6, HeadTailProperties DEF HandleDecision
    <3>2. Head(queue).value \in Values
      BY <3>1 DEF Decisions
    <3>3. config' \in [Modals \ {"jump"} -> Values]
      BY <2>6, <3>2 DEF HandleDecision, Modals
    <3>4. config'.columns \in Values
      BY <3>3 DEF Modals
    <3>5. live' \in Values
      BY <2>6, <3>4 DEF HandleDecision
    <3> QED
      BY <2>6, <3>1, <3>3, <3>5 DEF HandleDecision, DialogDidClose
  <2>7. CASE ToggleHelp
    BY <2>7 DEF ToggleHelp, DialogDidClose, DialogWillOpen
  <2>8. CASE ToggleJobs
    BY <2>8 DEF ToggleJobs, DialogWillOpen
  <2>9. ASSUME NEW kind \in {"local", "sister", "ssh", "none"}, Navigate(kind) PROVE ViewTyped'
    BY <2>9 DEF Navigate, EnterSisterView, ExitSisterView, SisterViewAsIs, DialogWillOpen
  <2>10. ASSUME NEW kind \in {"local", "sister", "ssh", "none"}, SelectionDrifts(kind) PROVE ViewTyped'
    BY <2>10 DEF SelectionDrifts, ExitSisterView, SisterViewAsIs
  <2> QED
    BY <2>2, <2>3, <2>4, <2>5, <2>6, <2>7, <2>8, <2>9, <2>10 DEF ViewNext
<1> QED
  BY <1>1, <1>2, PTL DEF ViewSpec

\* Every step keeps: a zoom that is still there has a dialog, the sisters' view, the
\* jobs' view or a decision that waits to be handled. This is why a modal that closes
\* may leave the zoom to the handler of its decision.
LEMMA ZoomStep ==
  ASSUME ViewTyped, ViewInv, ViewNext
  PROVE  /\ DialogVisible' => zoomed'
         /\ zoomed' => DialogVisible' \/ sisterView' \/ tuiMode' = "jobs" \/ queue' # <<>>
<1> DEFINE Goal == /\ DialogVisible' => zoomed'
                   /\ zoomed' => DialogVisible' \/ sisterView' \/ tuiMode' = "jobs" \/ queue' # <<>>
<1> USE DEF ViewInv, DialogVisible
<1>1. ASSUME NEW m \in Modals, OpenDialog(m) PROVE Goal
  BY <1>1 DEF OpenDialog, DialogWillOpen, Modals
<1>2. CASE Toggle
  BY <1>2 DEF Toggle
<1>3. ASSUME NEW d \in {"apply", "cancel"}, Decide(d), UNCHANGED <<zoomed, help, tuiMode, sisterView>>
      PROVE  Goal
  <2>1. queue' # <<>>
    BY <1>3 DEF Decide, ViewTyped
  <2> QED
    BY <1>3, <2>1 DEF Decide
<1>4. CASE HandleDecision
  BY <1>4 DEF HandleDecision, DialogDidClose
<1>5. CASE ToggleHelp
  BY <1>5 DEF ToggleHelp, DialogDidClose, DialogWillOpen
<1>6. CASE ToggleJobs
  BY <1>6 DEF ToggleJobs, DialogWillOpen
<1>7. ASSUME NEW kind \in {"local", "sister", "ssh", "none"}, Navigate(kind) PROVE Goal
  BY <1>7 DEF Navigate, EnterSisterView, ExitSisterView, SisterViewAsIs, DialogWillOpen
<1>8. ASSUME NEW kind \in {"local", "sister", "ssh", "none"}, SelectionDrifts(kind) PROVE Goal
  BY <1>8 DEF SelectionDrifts, ExitSisterView, SisterViewAsIs
<1> QED
  BY <1>1, <1>2, <1>3, <1>4, <1>5, <1>6, <1>7, <1>8 DEF ViewNext, ApplyModal, CancelModal

\* Every step keeps: rows show the saved columns once the columns modal is closed and no
\* decision of it waits.
LEMMA ColumnsStep ==
  ASSUME ViewTyped, ViewInv, ViewNext, modal' # "columns", NoColumnsWait'
  PROVE  live' = config'.columns
<1>1. CASE UNCHANGED <<queue, config, live>> /\ modal # "columns"
  BY <1>1 DEF ViewInv, NoColumnsWait
<1>2. ASSUME NEW d \in {"apply", "cancel"}, Decide(d) PROVE modal # "columns" /\ NoColumnsWait
  <2>1. queue' = Append(queue, queue'[Len(queue) + 1]) /\ queue'[Len(queue) + 1].modal = modal
    BY <1>2 DEF Decide, ViewTyped
  <2>2. Len(queue') = Len(queue) + 1 /\ Len(queue) \in Nat
    BY <1>2 DEF Decide, ViewTyped
  <2>3. \A i \in 1 .. Len(queue) : queue'[i] = queue[i]
    BY <1>2 DEF Decide, ViewTyped
  <2> QED
    BY <2>1, <2>2, <2>3 DEF NoColumnsWait
<1>3. ASSUME NEW m \in Modals, OpenDialog(m) PROVE live' = config'.columns
  BY <1>1, <1>3 DEF OpenDialog, DialogVisible
<1>4. CASE Toggle
  BY <1>4 DEF Toggle, ViewInv, NoColumnsWait
<1>5. CASE ApplyModal
  <2>1. live' = live /\ config'.columns = config.columns
    BY <1>5 DEF ApplyModal, ViewTyped, ViewTypeOK, Modals
  <2> QED
    BY <1>2, <1>5, <2>1 DEF ApplyModal, ViewInv
<1>6. CASE CancelModal
  BY <1>2, <1>6 DEF CancelModal, ViewInv
<1>7. CASE HandleDecision
  <2> DEFINE m == Head(queue)
  <2>1. CASE m.modal = "columns"
    BY <1>7, <2>1 DEF HandleDecision
  <2>2. CASE m.modal # "columns"
    <3>1. queue = <<m>> \o queue' /\ queue' \in Seq(Decisions) /\ m \in Decisions
      BY <1>7, HeadTailProperties DEF HandleDecision, ViewTyped
    <3>2. NoColumnsWait
      <4>1. SUFFICES ASSUME NEW i \in 1 .. Len(queue) PROVE queue[i].modal # "columns"
        BY DEF NoColumnsWait
      <4>2. CASE i = 1
        BY <1>7, <2>2, <4>2 DEF HandleDecision, ViewTyped
      <4>3. CASE i # 1
        <5>1. queue[i] = queue'[i - 1] /\ i - 1 \in 1 .. Len(queue')
          BY <1>7, <4>3 DEF HandleDecision, ViewTyped
        <5> QED
          BY <5>1 DEF NoColumnsWait
      <4> QED
        BY <4>2, <4>3
    <3>3. live' = live /\ config' = config /\ modal' = modal
      BY <1>7, <2>2 DEF HandleDecision
    <3> QED
      BY <3>2, <3>3 DEF ViewInv
  <2> QED
    BY <2>1, <2>2
<1>8. CASE ToggleHelp
  BY <1>1, <1>8 DEF ToggleHelp, settingVars
<1>9. CASE ToggleJobs
  BY <1>1, <1>9 DEF ToggleJobs, settingVars
<1>10. ASSUME NEW kind \in {"local", "sister", "ssh", "none"}, Navigate(kind) \/ SelectionDrifts(kind)
       PROVE  live' = config'.columns
  BY <1>1, <1>10 DEF Navigate, SelectionDrifts, settingVars
<1> QED
  BY <1>3, <1>4, <1>5, <1>6, <1>7, <1>8, <1>9, <1>10 DEF ViewNext

\* For any values of the modals: when no dialog is open and no decision waits, neither
\* the zoom that a dialog took nor the columns it previewed are left (zoom and restore
\* of the modals' handlers in tui.py).
THEOREM NoTraceLeft == ViewSpec => []DialogsLeaveNoTrace
<1>1. ViewInit /\ ViewTyped => ViewInv
  BY DEF ViewInit, ViewInv, DialogVisible, Modals
<1>2. ViewInv /\ ViewTyped' /\ [ViewNext]_viewVars => ViewInv'
  <2>1. ViewInv /\ ViewTyped' /\ UNCHANGED viewVars => ViewInv'
    BY DEF ViewInv, viewVars, DialogVisible, NoColumnsWait
  <2>2. ASSUME ViewInv, ViewTyped', ViewNext PROVE ViewInv'
    <3>1. ViewTyped
      BY <2>2 DEF ViewInv
    <3> QED
      BY <2>2, <3>1, ZoomStep, ColumnsStep DEF ViewInv
  <2> QED
    BY <2>1, <2>2
<1>3. ViewInv => DialogsLeaveNoTrace
  BY DEF ViewInv, DialogsLeaveNoTrace, NoColumnsWait
<1> QED
  BY <1>1, <1>2, <1>3, ViewTypes, PTL DEF ViewSpec

\* Keys, modals and decisions keep the types of the views and of the settings.
THEOREM ViewTypeCorrect == ViewSpec => []ViewTypeOK
<1>1. ViewTyped => ViewTypeOK
  BY DEF ViewTyped
<1> QED
  BY <1>1, ViewTypes, PTL

-----------------------------------------------------------------------------
(* Stalls *)

\* The types, without the bounds.
StallTyped ==
  /\ workFor \in Nat /\ greenFor \in Nat /\ rested \in BOOLEAN /\ notified \in BOOLEAN

\* While the agent is green, the age the TUI counts and the one that says what it
\* saw agree; as long as it has not been so for WorkSpan since a notification, the
\* agent is one that was notified.
NotNagged ==
  /\ previous = "running" => workFor = greenFor /\ workFor < None
  /\ previous # "running" => greenFor = 0
  /\ previous = "none" => rested
  /\ ~rested => notified /\ greenFor < WorkSpan

\* Every step keeps the ages in line with the history: only a status that is applied, a
\* new TUI and time touch them.
LEMMA NotNaggedStep ==
  ASSUME StallTyped, NotNagged, [StallNext]_stallVars
  PROVE  StallTyped' /\ NotNagged'
<1> USE StallsAssumption DEF StallTyped, NotNagged
<1>0. None \in Nat /\ None = WorkSpan + StallAge + 1 /\ WorkSpan \in Nat /\ WorkSpan > 0
  BY DEF None
<1>1. ASSUME UNCHANGED <<answer, previous, workFor, notified, rested, greenFor>>
      PROVE  StallTyped' /\ NotNagged'
  BY <1>1
<1>2. CASE TuiRestarts
  BY <1>0, <1>2 DEF TuiRestarts
<1>3. CASE TimePasses
  <2>1. /\ UNCHANGED <<answer, previous, notified>>
        /\ greenFor' = IF previous = "running" THEN Older(greenFor) ELSE 0
        /\ workFor' = IF workFor = None THEN None ELSE Older(workFor)
        /\ rested' = (rested \/ greenFor' >= WorkSpan)
    BY <1>3 DEF TimePasses
  <2>2. \A n \in Nat : n < None => Older(n) \in Nat /\ Older(n) < None
    BY <1>0 DEF Older
  <2>3. \A n \in Nat : Older(n) \in Nat
    BY <1>0 DEF Older
  <2>4. workFor' \in Nat /\ greenFor' \in Nat
    BY <1>0, <2>1, <2>3
  <2>5. previous = "running" => workFor' = greenFor' /\ workFor' < None
    BY <2>1, <2>2
  <2> QED
    BY <1>0, <2>1, <2>4, <2>5
<1>4. CASE FetchStatus
  BY <1>4 DEF FetchStatus, memory, history
<1>5. CASE ApplyStatus
  <2>1. StallTyped'
    BY <1>0, <1>5 DEF ApplyStatus
  <2>2. previous' = answer /\ greenFor' = IF answer = "running" THEN greenFor ELSE 0
    BY <1>5 DEF ApplyStatus
  <2>3. answer = "running" => workFor' = greenFor' /\ workFor' < None
    BY <1>0, <1>5, <2>2 DEF ApplyStatus
  <2>4. ~rested' => notified' /\ greenFor' < WorkSpan
    <3> SUFFICES ASSUME ~rested' PROVE notified' /\ greenFor' < WorkSpan
      OBVIOUS
    <3>1. rested' = (rested /\ ~Sends) /\ notified' = (Sends \/ (notified /\ ~Genuine))
      BY <1>5 DEF ApplyStatus
    <3>2. CASE Sends
      BY <1>0, <2>2, <3>1, <3>2 DEF Sends
    <3>3. CASE ~rested
      <4>1. notified /\ greenFor < WorkSpan /\ previous # "none"
        BY <3>3
      <4>2. ~Genuine
        BY <1>0, <4>1 DEF Genuine, IsNewStall
      <4> QED
        BY <1>0, <2>2, <3>1, <4>1, <4>2
    <3> QED
      BY <3>1, <3>2, <3>3
  <2>5. answer # "none"
    BY <1>5 DEF ApplyStatus
  <2> QED
    BY <2>1, <2>2, <2>3, <2>4, <2>5
<1>6. CASE PaneChanges \/ DaemonPublishes \/ ToggleSleep \/ Select
  BY <1>1, <1>6 DEF PaneChanges, DaemonPublishes, ToggleSleep, Select, Change, history
<1>7. CASE DismissBell
  BY <1>1, <1>7 DEF DismissBell, history
<1>8. CASE UNCHANGED stallVars
  BY <1>1, <1>8 DEF stallVars
<1> QED
  BY <1>2, <1>3, <1>4, <1>5, <1>6, <1>7, <1>8 DEF StallNext

\* For any stall age and span of work: after a notification the TUI sees a whole span of
\* work on end before it sends the next one about that agent, whatever the daemon
\* publishes and the user selects, hears and puts to sleep meanwhile.
THEOREM NobodyNags == StallSpec => NoNagging
<1>1. StallInit => StallTyped /\ NotNagged
  <2> SUFFICES ASSUME StallInit PROVE StallTyped /\ NotNagged
    OBVIOUS
  <2>1. None \in Nat /\ WorkSpan > 0
    BY StallsAssumption DEF None
  <2> QED
    BY <2>1, StallsAssumption DEF StallInit, StallTyped, NotNagged
<1>2. StallTyped /\ NotNagged /\ [StallNext]_stallVars => (StallTyped /\ NotNagged)'
  BY NotNaggedStep
<1>3. StallTyped /\ NotNagged /\ [StallNext]_stallVars => [~notified /\ notified' => rested]_stallVars
  BY DEF StallTyped, NotNagged
<1> QED
  BY <1>1, <1>2, <1>3, PTL DEF StallSpec, NoNagging

\* The types, with those of what the agent, the daemon and the user change.
StallKept ==
  /\ StallTypeOK
  /\ paneClass \in {"running", "waiting_user", "other"} /\ daemon \in Seen \cup {"stale"}
  /\ asleep \in BOOLEAN /\ selected \in BOOLEAN

\* What the TUI fetches and counts stays in its types.
LEMMA StallStepTyped == StallKept /\ [StallNext]_stallVars => StallKept'
<1> SUFFICES ASSUME StallKept, [StallNext]_stallVars PROVE StallKept'
  OBVIOUS
<1> USE DEF StallKept, StallTypeOK
<1>0. None \in Nat /\ WorkSpan \in Nat /\ StallAge \in Nat /\ None = WorkSpan + StallAge + 1
  BY StallsAssumption DEF None
<1>9. 0 \in 0 .. None /\ None \in 0 .. None
  BY <1>0
<1>1. \A age \in 0 .. None : Older(age) \in 0 .. None
  BY <1>0 DEF Older
<1>2. CASE PaneChanges \/ DaemonPublishes \/ ToggleSleep \/ Select
  BY <1>2 DEF PaneChanges, DaemonPublishes, ToggleSleep, Select, Change, history
<1>3. CASE TuiRestarts
  BY <1>9, <1>3 DEF TuiRestarts
<1>4. CASE TimePasses
  <2>1. /\ stallFor' \in 0 .. None /\ workFor' \in 0 .. None /\ uptime' \in 0 .. None
    BY <1>0, <1>1, <1>4 DEF TimePasses
  <2>2. rested' \in BOOLEAN
    BY <1>4 DEF TimePasses
  <2> QED
    BY <1>4, <2>1, <2>2 DEF TimePasses, worldVars
<1>5. CASE FetchStatus
  <2>1. Enriched \in Seen
    BY DEF Enriched, Seen
  <2> QED
    BY <1>5, <2>1 DEF FetchStatus, worldVars, memory, history
<1>6. CASE ApplyStatus
  <2>1. stallFor' \in 0 .. None /\ workFor' \in 0 .. None /\ uptime' \in 0 .. None
    BY <1>9, <1>6 DEF ApplyStatus, StallForNext
  <2>2. bell' \in BOOLEAN /\ visited' \in BOOLEAN /\ notified' \in BOOLEAN /\ rested' \in BOOLEAN
    BY <1>6 DEF ApplyStatus
  <2>3. dismissing' \in BOOLEAN
    BY <1>6 DEF ApplyStatus
  <2> QED
    BY <1>6, <2>1, <2>2, <2>3 DEF ApplyStatus, worldVars
<1>7. CASE DismissBell
  BY <1>7 DEF DismissBell, worldVars, history
<1>8. CASE UNCHANGED stallVars
  BY <1>8 DEF stallVars
<1> QED
  BY <1>2, <1>3, <1>4, <1>5, <1>6, <1>7, <1>8 DEF StallNext

\* What the TUI remembers of an agent keeps its type, and no age passes the one that says
\* that none is recorded.
THEOREM StallTypeCorrect == StallSpec => []StallTypeOK
<1>1. StallInit => StallKept
  <2> SUFFICES ASSUME StallInit PROVE StallKept
    OBVIOUS
  <2>1. 0 \in 0 .. None /\ None \in 0 .. None
    BY StallsAssumption DEF None
  <2>2. {stallFor, workFor, uptime} \subseteq 0 .. None
    BY <2>1 DEF StallInit
  <2> QED
    BY <2>2 DEF StallInit, StallKept, StallTypeOK, Seen
<1>2. StallKept => StallTypeOK
  BY DEF StallKept
<1> QED
  BY <1>1, <1>2, StallStepTyped, PTL DEF StallSpec

-----------------------------------------------------------------------------
(* The bottom pane *)

\* Names are those of agents, of the placeholder, or of no window.
Owners == OwnAgents \cup SshAgents

\* The types.
BottomTyped ==
  /\ winName \in [WinIds -> Owners \cup {Placeholder, Unborn, Shut}]
  /\ onAgent \in [Tuis -> Owners \cup {NoAgentShown}]
  /\ shownWin \in [Tuis -> WinIds \cup {0}]
  /\ making \in [Tuis -> SshAgents \cup {NoAgentShown}]
  /\ calm \in [Tuis -> BOOLEAN]
  /\ sshKnown \in [Tuis -> SUBSET SshAgents]

\* Windows are opened one after another.
WindowsInOrder == \E m \in 0 .. MaxWindows : \A i \in WinIds : winName[i] # Unborn <=> i <= m

\* One window of an agent that is reached by ssh, and none while a TUI is about
\* to open it.
OneProxy ==
  \A r \in SshAgents :
    /\ \A i, j \in Called(r) : i = j
    /\ \A t \in Tuis : making[t] = r => Called(r) = {} /\ \A u \in Tuis : making[u] = r => u = t

\* The window that is shown is that of the agent selected, or of the placeholder
\* while an agent of this machine has no window.
ShownIn(t) ==
  /\ shownWin[t] \in WinIds
  /\ \/ winName[shownWin[t]] = onAgent[t]
     \/ /\ winName[shownWin[t]] = Placeholder /\ onAgent[t] \in OwnAgents
        /\ \A i \in WinIds : winName[i] # onAgent[t]

\* A TUI whose calls went undisturbed shows the agent its focus is on.
ShowsFocus ==
  \A t \in Tuis : calm[t] /\ making[t] = NoAgentShown /\ onAgent[t] # NoAgentShown => ShownIn(t)

\* The inductive invariant.
BottomInv == BottomTyped /\ WindowsInOrder /\ (crossed \in BOOLEAN) /\ (~crossed => OneProxy /\ ShowsFocus)

\* Agents, the placeholder, and the marks for no window, a shut one and nothing shown are
\* all different.
LEMMA NamesDiffer ==
  /\ Placeholder \notin Owners /\ Unborn \notin Owners /\ Shut \notin Owners /\ NoAgentShown \notin Owners
  /\ Unborn # Placeholder /\ Shut # Placeholder /\ Shut # Unborn
  /\ OwnAgents \cap SshAgents = {}
  /\ MaxWindows \in Nat /\ 0 \notin WinIds
  BY BottomPaneAssumption DEF Owners, WinIds

\* The window that is opened next was not there before.
LEMMA FreshIsUnborn ==
  ASSUME WindowsInOrder, CanOpen
  PROVE  /\ Fresh \in WinIds /\ winName[Fresh] = Unborn
         /\ \E m \in 0 .. MaxWindows : Fresh = m + 1 /\ \A i \in WinIds : winName[i] # Unborn <=> i <= m
<1>1. PICK m \in 0 .. MaxWindows : \A i \in WinIds : winName[i] # Unborn <=> i <= m
  BY DEF WindowsInOrder
<1>2. {i \in WinIds : winName[i] # Unborn} = 1 .. m
  BY <1>1, NamesDiffer DEF WinIds
<1>3. Cardinality(1 .. m) = m
  <2>1. Cardinality(1 .. m) = IF 1 > m THEN 0 ELSE m - 1 + 1
    BY <1>1, FS_Interval, NamesDiffer
  <2> QED
    BY <1>1, <2>1, NamesDiffer
<1>4. Fresh = m + 1
  BY <1>2, <1>3 DEF Fresh
<1>5. Fresh \in WinIds /\ ~ Fresh <= m
  BY <1>1, <1>4, NamesDiffer DEF CanOpen
<1> QED
  BY <1>1, <1>4, <1>5

\* A window of name n opens: names, order, and who is called what.
Opens(n) == CanOpen /\ winName' = [winName EXCEPT ![Fresh] = n]

\* A window of name n opens: names, order, and who is called what.
LEMMA Opening ==
  ASSUME BottomTyped, WindowsInOrder, NEW n \in Owners \cup {Placeholder}, Opens(n)
  PROVE  /\ winName' \in [WinIds -> Owners \cup {Placeholder, Unborn, Shut}]
         /\ WindowsInOrder'
         /\ Fresh \in WinIds /\ winName'[Fresh] = n
         /\ Called(n)' = Called(n) \cup {Fresh}
         /\ \A o \in Owners \cup {Placeholder} : o # n => Called(o)' = Called(o)
         /\ \A i \in WinIds : winName[i] \in Owners \cup {Placeholder} => winName'[i] = winName[i]
<1>1. Fresh \in WinIds /\ winName[Fresh] = Unborn
  BY FreshIsUnborn DEF Opens
<1>2. PICK m \in 0 .. MaxWindows : Fresh = m + 1 /\ \A i \in WinIds : winName[i] # Unborn <=> i <= m
  BY FreshIsUnborn DEF Opens
<1>3. PICK f : f = Fresh
  OBVIOUS
<1>4. winName' \in [WinIds -> Owners \cup {Placeholder, Unborn, Shut}]
  BY <1>1 DEF BottomTyped, Opens
<1>5. winName'[f] = n /\ \A i \in WinIds : i # f => winName'[i] = winName[i]
  BY <1>1, <1>3 DEF BottomTyped, Opens
<1>6. WindowsInOrder'
  <2>1. m + 1 \in 0 .. MaxWindows
    BY <1>1, <1>2, NamesDiffer DEF WinIds
  <2>2. ASSUME NEW i \in WinIds PROVE winName'[i] # Unborn <=> i <= m + 1
    <3>1. CASE i = f
      BY <1>2, <1>3, <1>5, <3>1, NamesDiffer
    <3>2. CASE i # f
      <4>1. i <= m <=> i <= m + 1
        BY <1>2, <1>3, <3>2 DEF WinIds
      <4> QED
        BY <1>2, <1>5, <3>2, <4>1
    <3> QED
      BY <3>1, <3>2
  <2> QED
    BY <2>1, <2>2 DEF WindowsInOrder
<1>7. \A o \in Owners \cup {Placeholder} : Called(o)' = {i \in WinIds : winName'[i] = o}
  BY DEF Called
<1>8. Called(n)' = Called(n) \cup {f}
  BY <1>1, <1>3, <1>5 DEF Called
<1>9. ASSUME NEW o \in Owners \cup {Placeholder}, o # n PROVE Called(o)' = Called(o)
  <2>1. o # Unborn
    BY NamesDiffer
  <2> QED
    BY <1>1, <1>3, <1>5, <1>9, <2>1 DEF Called
<1>10. ASSUME NEW i \in WinIds, winName[i] \in Owners \cup {Placeholder} PROVE winName'[i] = winName[i]
  BY <1>1, <1>3, <1>5, <1>10, NamesDiffer
<1> QED
  BY <1>1, <1>3, <1>4, <1>5, <1>6, <1>8, <1>9, <1>10

\* Windows close: fewer of each name, and nobody is shown one of them calmly.
LEMMA Closing ==
  ASSUME BottomTyped, WindowsInOrder, NEW ids \in SUBSET WinIds, Close(ids),
         \A i \in ids : winName[i] # Unborn
  PROVE  /\ winName' \in [WinIds -> Owners \cup {Placeholder, Unborn, Shut}]
         /\ shownWin' \in [Tuis -> WinIds \cup {0}] /\ calm' \in [Tuis -> BOOLEAN]
         /\ WindowsInOrder'
         /\ \A o \in Owners \cup {Placeholder} : Called(o)' = Called(o) \ ids
         /\ \A t \in Tuis : calm'[t] => /\ calm[t] /\ shownWin'[t] = shownWin[t] /\ shownWin[t] \notin ids
         /\ \A i \in WinIds \ ids : winName'[i] = winName[i]
<1>1. /\ \A i \in ids : winName'[i] = Shut
      /\ \A i \in WinIds \ ids : winName'[i] = winName[i]
  BY DEF Close
<1>2. winName' \in [WinIds -> Owners \cup {Placeholder, Unborn, Shut}]
  BY DEF Close, BottomTyped
<1>3. shownWin' \in [Tuis -> WinIds \cup {0}]
  BY DEF Close, BottomTyped
<1>4. calm' \in [Tuis -> BOOLEAN]
  BY DEF Close
<1>5. \A i \in WinIds : winName'[i] # Unborn <=> winName[i] # Unborn
  BY <1>1, NamesDiffer
<1>6. WindowsInOrder'
  BY <1>5 DEF WindowsInOrder
<1>7. ASSUME NEW o \in Owners \cup {Placeholder} PROVE Called(o)' = Called(o) \ ids
  BY <1>1, NamesDiffer DEF Called
<1>8. \A t \in Tuis : calm'[t] => calm[t] /\ shownWin'[t] = shownWin[t] /\ shownWin[t] \notin ids
  BY DEF Close
<1> QED
  BY <1>1, <1>2, <1>3, <1>4, <1>6, <1>7, <1>8

\* What holds of the TUIs other than t after windows closed.
LEMMA ClosingKeeps ==
  ASSUME BottomInv, NEW ids \in SUBSET WinIds, Close(ids), \A i \in ids : winName[i] # Unborn,
         OneProxy, ShowsFocus, NEW t \in Tuis,
         calm'[t], making[t] = NoAgentShown, onAgent[t] # NoAgentShown, onAgent'[t] = onAgent[t]
  PROVE  ShownIn(t)'
<1>1. /\ calm[t] /\ shownWin'[t] = shownWin[t] /\ shownWin[t] \notin ids
      /\ \A o \in Owners \cup {Placeholder} : Called(o)' = Called(o) \ ids
      /\ \A i \in WinIds \ ids : winName'[i] = winName[i]
  BY Closing DEF BottomInv
<1>2. ShownIn(t)
  BY <1>1 DEF ShowsFocus
<1>3. winName'[shownWin'[t]] = winName[shownWin[t]]
  BY <1>1, <1>2 DEF ShownIn
<1>4. PICK o \in Owners : o = onAgent[t]
  BY DEF BottomInv, BottomTyped
<1>5. Called(o)' = Called(o) \ ids
  BY <1>1, <1>4
<1>6. (\A i \in WinIds : winName[i] # o) => \A i \in WinIds : winName'[i] # o
  BY <1>5 DEF Called
<1> QED
  BY <1>1, <1>2, <1>3, <1>4, <1>6 DEF ShownIn

\* Every step keeps the types and the order of windows.
LEMMA TypedStep ==
  ASSUME BottomInv, BottomNext
  PROVE  BottomTyped' /\ WindowsInOrder' /\ crossed' \in BOOLEAN
<1> DEFINE Goal == BottomTyped' /\ WindowsInOrder' /\ crossed' \in BOOLEAN
<1>0. BottomTyped /\ WindowsInOrder /\ crossed \in BOOLEAN
  BY DEF BottomInv
<1>1. ASSUME UNCHANGED <<winName, shownWin, calm, onAgent, making, crossed, sshKnown>> PROVE Goal
  BY <1>0, <1>1 DEF BottomTyped, WindowsInOrder
<1>2. ASSUME NEW n \in Owners \cup {Placeholder}, Opens(n) \/ UNCHANGED winName,
             shownWin' \in [Tuis -> WinIds \cup {0}], calm' \in [Tuis -> BOOLEAN],
             onAgent' \in [Tuis -> Owners \cup {NoAgentShown}],
             making' \in [Tuis -> SshAgents \cup {NoAgentShown}], UNCHANGED crossed,
             sshKnown' \in [Tuis -> SUBSET SshAgents]
      PROVE  Goal
  <2>1. CASE Opens(n)
    BY <1>0, <1>2, <2>1, Opening DEF BottomTyped
  <2>2. CASE UNCHANGED winName
    BY <1>0, <1>2, <2>2 DEF BottomTyped, WindowsInOrder
  <2> QED
    BY <1>2, <2>1, <2>2
<1>3. ASSUME NEW ids \in SUBSET WinIds, Close(ids), \A i \in ids : winName[i] # Unborn,
             onAgent' \in [Tuis -> Owners \cup {NoAgentShown}],
             making' \in [Tuis -> SshAgents \cup {NoAgentShown}], crossed' \in BOOLEAN,
             sshKnown' \in [Tuis -> SUBSET SshAgents]
      PROVE  Goal
  BY <1>0, <1>3, Closing DEF BottomTyped
<1>4. ASSUME NEW t \in Tuis, NEW a \in Owners, NEW i \in WinIds \cup {0}, Turns(t, a, i)
      PROVE  /\ shownWin' \in [Tuis -> WinIds \cup {0}] /\ calm' \in [Tuis -> BOOLEAN]
             /\ onAgent' \in [Tuis -> Owners \cup {NoAgentShown}]
  BY <1>0, <1>4 DEF Turns, BottomTyped
<1>5. ASSUME NEW t \in Tuis, NEW a \in OwnAgents, CapturesPane(t, a) \/ Forgets(t, a) PROVE Goal
  BY <1>1, <1>5 DEF CapturesPane, Forgets, lookVars
<1>6. ASSUME NEW t \in Tuis, NEW a \in OwnAgents, ShowsWindow(t, a) PROVE Goal
  <2>1. \E i \in WinIds : Turns(t, a, i)
    BY <1>6 DEF ShowsWindow, Called
  <2> QED
    BY <1>0, <1>2, <1>4, <1>6, <2>1 DEF ShowsWindow, Owners, BottomTyped
<1>7. ASSUME NEW t \in Tuis, NEW a \in OwnAgents, ShowsPlaceholder(t, a) PROVE Goal
  <2>1. PICK i \in WinIds : EnsuresPlaceholder(i) /\ Turns(t, a, i)
    BY <1>7 DEF ShowsPlaceholder
  <2>2. Opens(Placeholder) \/ UNCHANGED winName
    BY <2>1 DEF EnsuresPlaceholder, Opens
  <2> QED
    BY <1>0, <1>2, <1>4, <1>7, <2>1, <2>2 DEF ShowsPlaceholder, Owners, BottomTyped
<1>8. ASSUME NEW t \in Tuis, NEW r \in SshAgents, ShowsProxy(t, r) PROVE Goal
  <2>1. \E i \in WinIds \cup {0} : Turns(t, r, i)
    BY <1>0, <1>8 DEF ShowsProxy, Called, BottomTyped
  <2> QED
    BY <1>0, <1>2, <1>4, <1>8, <2>1 DEF ShowsProxy, Owners, BottomTyped
<1>9. ASSUME NEW t \in Tuis, NEW r \in SshAgents, ClosesStale(t, r) PROVE Goal
  <2>1. Called(r) \in SUBSET WinIds /\ \A i \in Called(r) : winName[i] # Unborn
    BY NamesDiffer DEF Called, Owners
  <2>2. /\ making' \in [Tuis -> SshAgents \cup {NoAgentShown}] /\ crossed' \in BOOLEAN
        /\ sshKnown' \in [Tuis -> SUBSET SshAgents]
    BY <1>0, <1>9 DEF ClosesStale, BottomTyped
  <2> QED
    BY <1>0, <1>3, <1>9, <2>1, <2>2 DEF ClosesStale, BottomTyped
<1>10. ASSUME NEW t \in Tuis, OpensProxy(t) PROVE Goal
  <2>1. PICK r \in SshAgents : r = making[t]
    BY <1>0, <1>10 DEF OpensProxy, BottomTyped
  <2>2. Opens(r) /\ Fresh \in WinIds
    BY <1>10, <2>1 DEF OpensProxy, Opens, CanOpen
  <2>3. \E i \in WinIds \cup {0} : Turns(t, r, i)
    BY <1>0, <1>10, <2>1, <2>2 DEF OpensProxy, BottomTyped
  <2>4. /\ making' \in [Tuis -> SshAgents \cup {NoAgentShown}] /\ UNCHANGED crossed
        /\ sshKnown' \in [Tuis -> SUBSET SshAgents]
    BY <1>0, <1>10 DEF OpensProxy, BottomTyped
  <2> QED
    BY <1>2, <1>4, <2>2, <2>3, <2>4 DEF Owners
<1>11. ASSUME NEW t \in Tuis, TuiStarts(t) PROVE Goal
  <2> DEFINE ids == {i \in WinIds : winName[i] \in SshAgents}
  <2>1. ids \in SUBSET WinIds /\ \A i \in ids : winName[i] # Unborn
    BY NamesDiffer DEF Owners
  <2> QED
    BY <1>0, <1>3, <1>11, <2>1 DEF TuiStarts, BottomTyped
<1>12. ASSUME NEW t \in Tuis, Drops(t)
       PROVE  /\ onAgent' \in [Tuis -> Owners \cup {NoAgentShown}]
              /\ making' \in [Tuis -> SshAgents \cup {NoAgentShown}]
              /\ sshKnown' \in [Tuis -> SUBSET SshAgents]
  BY <1>0, <1>12 DEF Drops, BottomTyped
<1>13. ASSUME NEW t \in Tuis, TuiQuits(t) PROVE Goal
  <2> DEFINE ids == {i \in WinIds : winName[i] \in sshKnown[t] /\ Cardinality(Called(winName[i])) = 1}
  <2>1. ids \in SUBSET WinIds /\ Close(ids)
    BY <1>13 DEF TuiQuits
  <2>2. \A i \in ids : winName[i] # Unborn
    <3>1. sshKnown[t] \in SUBSET SshAgents
      BY <1>0 DEF BottomTyped
    <3> QED
      BY <3>1, NamesDiffer DEF Owners
  <2> QED
    BY <1>0, <1>3, <1>12, <1>13, <2>1, <2>2 DEF TuiQuits
<1>14. ASSUME NEW t \in Tuis, TuiCrashes(t) PROVE Goal
  BY <1>0, <1>12, <1>14 DEF TuiCrashes, BottomTyped, WindowsInOrder
<1>15. ASSUME NEW a \in OwnAgents, AgentOpens(a) PROVE Goal
  <2>1. Opens(a) /\ a \in Owners /\ calm' \in [Tuis -> BOOLEAN]
    BY <1>15 DEF AgentOpens, Opens, Owners
  <2> QED
    BY <1>0, <1>2, <1>15, <2>1 DEF AgentOpens, BottomTyped
<1>16. ASSUME NEW i \in WinIds, WindowShuts(i) PROVE Goal
  <2>1. {i} \in SUBSET WinIds /\ \A j \in {i} : winName[j] # Unborn
    BY <1>16 DEF WindowShuts, Live
  <2> QED
    BY <1>0, <1>3, <1>16, <2>1 DEF WindowShuts, BottomTyped
<1> QED
  BY <1>5, <1>6, <1>7, <1>8, <1>9, <1>10, <1>11, <1>13, <1>14, <1>15, <1>16 DEF BottomNext

\* Once two TUIs opened a window of one name, that has been so.
LEMMA CrossedStays == BottomNext /\ ~crossed' => ~crossed
  BY DEF BottomNext, CapturesPane, Forgets, ShowsWindow, ShowsPlaceholder, ShowsProxy, ClosesStale,
     OpensProxy,
     TuiStarts, TuiQuits, TuiCrashes, AgentOpens, WindowShuts

\* Fewer windows of agents that are reached by ssh: still at most one of each.
LEMMA FewerProxies ==
  ASSUME OneProxy, \A r \in SshAgents : Called(r)' \subseteq Called(r),
         \A t \in Tuis : making'[t] \in {making[t], NoAgentShown}
  PROVE  OneProxy'
<1>1. SUFFICES ASSUME NEW r \in SshAgents
               PROVE  /\ \A i, j \in Called(r)' : i = j
                      /\ \A t \in Tuis : making'[t] = r => Called(r)' = {} /\ \A u \in Tuis : making'[u] = r => u = t
  BY DEF OneProxy
<1>2. r # NoAgentShown
  BY NamesDiffer DEF Owners
<1> QED
  BY <1>2 DEF OneProxy

\* Until two TUIs cross, every step keeps one window for each agent that is reached by
\* ssh: it is looked for before it is opened.
LEMMA ProxyStep ==
  ASSUME BottomInv, BottomNext, ~crossed'
  PROVE  OneProxy'
<1>0. BottomTyped /\ WindowsInOrder /\ OneProxy /\ ~crossed
  BY CrossedStays DEF BottomInv
<1>1. ASSUME UNCHANGED winName, \A t \in Tuis : making'[t] \in {making[t], NoAgentShown} PROVE OneProxy'
  <2>1. \A r \in SshAgents : Called(r)' \subseteq Called(r)
    BY <1>1 DEF Called
  <2> QED
    BY <1>0, <1>1, <2>1, FewerProxies
<1>2. ASSUME NEW n \in Owners \cup {Placeholder}, Opens(n), n \notin SshAgents, UNCHANGED making PROVE OneProxy'
  <2>1. \A r \in SshAgents : Called(r)' \subseteq Called(r)
    BY <1>0, <1>2, Opening DEF Owners
  <2> QED
    BY <1>0, <1>2, <2>1, FewerProxies
<1>3. ASSUME NEW ids \in SUBSET WinIds, Close(ids), \A i \in ids : winName[i] # Unborn
      PROVE  \A r \in SshAgents : Called(r)' = Called(r) \ ids
  BY <1>0, <1>3, Closing DEF Owners
<1>4. ASSUME NEW ids \in SUBSET WinIds, Close(ids), \A i \in ids : winName[i] # Unborn,
             \A t \in Tuis : making'[t] \in {making[t], NoAgentShown}
      PROVE  OneProxy'
  <2>1. \A r \in SshAgents : Called(r)' \subseteq Called(r)
    BY <1>3, <1>4
  <2> QED
    BY <1>0, <1>4, <2>1, FewerProxies
<1>5. ASSUME NEW t \in Tuis, NEW a \in OwnAgents, CapturesPane(t, a) \/ Forgets(t, a) \/ ShowsWindow(t, a)
      PROVE  OneProxy'
  BY <1>1, <1>5 DEF CapturesPane, Forgets, lookVars, ShowsWindow
<1>6. ASSUME NEW t \in Tuis, NEW a \in OwnAgents, ShowsPlaceholder(t, a) PROVE OneProxy'
  <2>1. Opens(Placeholder) \/ UNCHANGED winName
    BY <1>6 DEF ShowsPlaceholder, EnsuresPlaceholder, Opens
  <2>2. Placeholder \notin SshAgents
    BY NamesDiffer DEF Owners
  <2> QED
    BY <1>1, <1>2, <1>6, <2>1, <2>2 DEF ShowsPlaceholder
<1>7. ASSUME NEW t \in Tuis, NEW r \in SshAgents, ShowsProxy(t, r) PROVE OneProxy'
  BY <1>1, <1>7 DEF ShowsProxy
<1>8. ASSUME NEW t \in Tuis, NEW r \in SshAgents, ClosesStale(t, r) PROVE OneProxy'
  <2>1. Called(r) \in SUBSET WinIds /\ \A i \in Called(r) : winName[i] # Unborn
    BY NamesDiffer DEF Called, Owners
  <2>2. \A s \in SshAgents : Called(s)' = Called(s) \ Called(r)
    BY <1>3, <1>8, <2>1 DEF ClosesStale
  <2>3. /\ making'[t] = r /\ \A u \in Tuis \ {t} : making'[u] = making[u]
        /\ \A u \in Tuis \ {t} : making[u] # r
    BY <1>0, <1>8 DEF ClosesStale, BottomTyped
  <2>4. ASSUME NEW s \in SshAgents
        PROVE  /\ \A i, j \in Called(s)' : i = j
               /\ \A v \in Tuis : making'[v] = s => Called(s)' = {} /\ \A u \in Tuis : making'[u] = s => u = v
    <3>1. Called(s)' = Called(s) \ Called(r)
      BY <2>2
    <3> QED
      BY <1>0, <2>3, <3>1 DEF OneProxy
  <2> QED
    BY <2>4 DEF OneProxy
<1>9. ASSUME NEW t \in Tuis, OpensProxy(t) PROVE OneProxy'
  <2>1. PICK r \in SshAgents : r = making[t]
    BY <1>0, <1>9 DEF OpensProxy, BottomTyped
  <2>2. Opens(r) /\ r \in Owners
    BY <1>9, <2>1 DEF OpensProxy, Opens, Owners
  <2>3. Called(r) = {} /\ \A u \in Tuis : making[u] = r => u = t
    BY <1>0, <2>1 DEF OneProxy
  <2>4. Called(r)' = {Fresh} /\ \A s \in SshAgents : s # r => Called(s)' = Called(s)
    BY <1>0, <2>2, <2>3, Opening DEF Owners
  <2>5. making'[t] = NoAgentShown /\ (\A u \in Tuis \ {t} : making'[u] = making[u]) /\ NoAgentShown \notin SshAgents
    BY <1>0, <1>9, NamesDiffer DEF OpensProxy, BottomTyped, Owners
  <2>6. ASSUME NEW s \in SshAgents
        PROVE  /\ \A i, j \in Called(s)' : i = j
               /\ \A v \in Tuis : making'[v] = s => Called(s)' = {} /\ \A u \in Tuis : making'[u] = s => u = v
    <3>1. CASE s = r
      BY <2>3, <2>4, <2>5, <3>1
    <3>2. CASE s # r
      <4>1. Called(s)' = Called(s)
        BY <2>4, <3>2
      <4> QED
        BY <1>0, <2>5, <4>1 DEF OneProxy
    <3> QED
      BY <3>1, <3>2
  <2> QED
    BY <2>6 DEF OneProxy
<1>10. ASSUME NEW t \in Tuis, TuiStarts(t) PROVE OneProxy'
  <2> DEFINE ids == {i \in WinIds : winName[i] \in SshAgents}
  <2>1. ids \in SUBSET WinIds /\ \A i \in ids : winName[i] # Unborn
    BY NamesDiffer DEF Owners
  <2> QED
    BY <1>4, <1>10, <2>1 DEF TuiStarts
<1>11. ASSUME NEW t \in Tuis, Drops(t) PROVE \A u \in Tuis : making'[u] \in {making[u], NoAgentShown}
  BY <1>0, <1>11 DEF Drops, BottomTyped
<1>12. ASSUME NEW t \in Tuis, TuiQuits(t) PROVE OneProxy'
  <2> DEFINE ids == {i \in WinIds : winName[i] \in sshKnown[t] /\ Cardinality(Called(winName[i])) = 1}
  <2>1. ids \in SUBSET WinIds /\ Close(ids)
    BY <1>12 DEF TuiQuits
  <2>2. \A i \in ids : winName[i] # Unborn
    <3>1. sshKnown[t] \in SUBSET SshAgents
      BY <1>0 DEF BottomTyped
    <3> QED
      BY <3>1, NamesDiffer DEF Owners
  <2> HIDE DEF ids
  <2> QED
    BY <1>4, <1>11, <1>12, <2>1, <2>2 DEF TuiQuits
<1>13. ASSUME NEW t \in Tuis, TuiCrashes(t) PROVE OneProxy'
  BY <1>1, <1>11, <1>13 DEF TuiCrashes
<1>14. ASSUME NEW a \in OwnAgents, AgentOpens(a) PROVE OneProxy'
  BY <1>2, <1>14, NamesDiffer DEF AgentOpens, Opens, Owners
<1>15. ASSUME NEW i \in WinIds, WindowShuts(i) PROVE OneProxy'
  <2>1. {i} \in SUBSET WinIds /\ \A j \in {i} : winName[j] # Unborn
    BY <1>15 DEF WindowShuts, Live
  <2> QED
    BY <1>4, <1>15, <2>1 DEF WindowShuts
<1> QED
  BY <1>5, <1>6, <1>7, <1>8, <1>9, <1>10, <1>12, <1>13, <1>14, <1>15 DEF BottomNext

\* Nothing that is shown changes for TUI t.
LEMMA StillShown ==
  ASSUME BottomTyped, NEW t \in Tuis, ShownIn(t), shownWin'[t] = shownWin[t], onAgent'[t] = onAgent[t],
         winName'[shownWin[t]] = winName[shownWin[t]],
         onAgent[t] \in OwnAgents => \A i \in WinIds : winName'[i] = onAgent[t] => \E j \in WinIds : winName[j] = onAgent[t]
  PROVE  ShownIn(t)'
  BY DEF ShownIn

\* Until two TUIs cross, every step keeps what a calm TUI shows: windows are linked,
\* closed and opened without taking the one of the selected agent away from it.
LEMMA FocusStep ==
  ASSUME BottomInv, BottomNext, ~crossed'
  PROVE  ShowsFocus'
<1>0. BottomTyped /\ WindowsInOrder /\ OneProxy /\ ShowsFocus /\ ~crossed
  BY CrossedStays DEF BottomInv
<1>1. SUFFICES ASSUME NEW t \in Tuis, calm'[t], making'[t] = NoAgentShown, onAgent'[t] # NoAgentShown
               PROVE  ShownIn(t)'
  BY DEF ShowsFocus
<1>t. onAgent[t] \in Owners \cup {NoAgentShown} /\ shownWin[t] \in WinIds \cup {0}
  BY <1>0 DEF BottomTyped
\* Another name opens, or none does, and this TUI shows what it showed.
<1>2. ASSUME UNCHANGED winName, shownWin'[t] = shownWin[t], onAgent'[t] = onAgent[t],
             calm[t], making[t] = NoAgentShown
      PROVE  ShownIn(t)'
  BY <1>0, <1>1, <1>2, StillShown DEF ShowsFocus
<1>3. ASSUME NEW n \in Owners \cup {Placeholder}, Opens(n), shownWin'[t] = shownWin[t], onAgent'[t] = onAgent[t],
             calm[t], making[t] = NoAgentShown, n \in OwnAgents => n # onAgent[t]
      PROVE  ShownIn(t)'
  <2>1. ShownIn(t) /\ onAgent[t] \in Owners
    BY <1>0, <1>1, <1>3, <1>t DEF ShowsFocus
  <2>2. winName[shownWin[t]] \in Owners \cup {Placeholder}
    BY <2>1 DEF ShownIn
  <2>3. winName'[shownWin[t]] = winName[shownWin[t]]
    BY <1>0, <1>3, <2>1, <2>2, Opening DEF ShownIn
  <2>4. PICK o \in Owners : o = onAgent[t]
    BY <2>1
  <2>5. o \in OwnAgents => Called(o)' = Called(o)
    BY <1>0, <1>3, <2>4, Opening
  <2>6. o \in OwnAgents => \A i \in WinIds : winName'[i] = o => winName[i] = o
    BY <2>5 DEF Called
  <2> QED
    BY <1>0, <1>3, <2>1, <2>3, <2>4, <2>6, StillShown
<1>4. ASSUME NEW ids \in SUBSET WinIds, Close(ids), \A i \in ids : winName[i] # Unborn,
             making[t] = NoAgentShown, onAgent'[t] = onAgent[t]
      PROVE  ShownIn(t)'
  BY <1>0, <1>1, <1>4, ClosingKeeps
<1>5. ASSUME NEW u \in Tuis, NEW a, NEW i, Turns(u, a, i), u # t
      PROVE  calm'[t] = calm[t] /\ onAgent'[t] = onAgent[t] /\ shownWin'[t] = shownWin[t]
  BY <1>0, <1>5 DEF Turns, BottomTyped
<1>6. ASSUME NEW a \in Owners, NEW i \in WinIds, Turns(t, a, i), winName'[i] = a
      PROVE  ShownIn(t)'
  <2>1. onAgent'[t] = a /\ shownWin'[t] = i
    BY <1>0, <1>6 DEF Turns, BottomTyped
  <2> QED
    BY <1>6, <2>1 DEF ShownIn
<1>7. ASSUME NEW u \in Tuis, NEW a \in OwnAgents, CapturesPane(u, a) \/ Forgets(u, a) PROVE ShownIn(t)'
  BY <1>1, <1>2, <1>7 DEF CapturesPane, Forgets, lookVars
<1>8. ASSUME NEW u \in Tuis, NEW a \in OwnAgents, ShowsWindow(u, a) PROVE ShownIn(t)'
  <2>1. PICK i \in WinIds : winName[i] = a /\ Turns(u, a, i)
    BY <1>8 DEF ShowsWindow, Called
  <2>2. UNCHANGED <<winName, making>>
    BY <1>8 DEF ShowsWindow
  <2>3. CASE u = t
    BY <1>6, <2>1, <2>2, <2>3 DEF Owners
  <2>4. CASE u # t
    BY <1>1, <1>2, <1>5, <2>1, <2>2, <2>4
  <2> QED
    BY <2>3, <2>4
<1>9. ASSUME NEW u \in Tuis, NEW a \in OwnAgents, ShowsPlaceholder(u, a) PROVE ShownIn(t)'
  <2>1. PICK i \in WinIds : EnsuresPlaceholder(i) /\ Turns(u, a, i)
    BY <1>9 DEF ShowsPlaceholder
  <2>2. UNCHANGED making /\ Called(a) = {} /\ a \in Owners /\ a # Placeholder
    BY <1>9, NamesDiffer DEF ShowsPlaceholder, Owners
  <2>3. CASE u = t
    <3>1. onAgent'[t] = a /\ shownWin'[t] = i
      BY <1>0, <2>1, <2>3 DEF Turns, BottomTyped
    <3>2. winName'[i] = Placeholder /\ Called(a)' = Called(a)
      <4>1. CASE UNCHANGED winName
        <5>1. winName[i] = Placeholder
          BY <1>0, <2>1, <4>1 DEF EnsuresPlaceholder, Called, BottomTyped
        <5> QED
          BY <4>1, <5>1 DEF Called
      <4>2. CASE Opens(Placeholder) /\ i = Fresh
        BY <1>0, <2>2, <4>2, Opening
      <4> QED
        BY <2>1, <4>1, <4>2 DEF EnsuresPlaceholder, Opens
    <3>3. \A j \in WinIds : winName'[j] # a
      BY <2>2, <3>2 DEF Called
    <3> QED
      BY <1>9, <3>1, <3>2, <3>3 DEF ShownIn
  <2>4. CASE u # t
    <3>1. calm[t] /\ onAgent'[t] = onAgent[t] /\ shownWin'[t] = shownWin[t] /\ making[t] = NoAgentShown
      BY <1>1, <1>5, <2>1, <2>2, <2>4
    <3>2. Opens(Placeholder) \/ UNCHANGED winName
      BY <2>1 DEF EnsuresPlaceholder, Opens
    <3> QED
      BY <1>2, <1>3, <3>1, <3>2, NamesDiffer DEF Owners
  <2> QED
    BY <2>3, <2>4
<1>10. ASSUME NEW u \in Tuis, NEW r \in SshAgents, ShowsProxy(u, r) PROVE ShownIn(t)'
  <2>1. UNCHANGED <<winName, making>> /\ r \in Owners
    BY <1>10 DEF ShowsProxy, Owners
  <2>2. Cardinality(Called(r)) = 1
    <3>1. PICK i \in Called(r) : TRUE
      BY <1>10 DEF ShowsProxy
    <3>2. Called(r) = {i}
      BY <1>0, <3>1 DEF OneProxy
    <3> QED
      BY <3>2, FS_Singleton
  <2>3. PICK i \in WinIds : winName[i] = r /\ Turns(u, r, i)
    BY <1>10, <2>2 DEF ShowsProxy, Called
  <2>4. CASE u = t
    BY <1>6, <2>1, <2>3, <2>4
  <2>5. CASE u # t
    BY <1>1, <1>2, <1>5, <2>1, <2>3, <2>5
  <2> QED
    BY <2>4, <2>5
<1>11. ASSUME NEW u \in Tuis, NEW r \in SshAgents, ClosesStale(u, r) PROVE ShownIn(t)'
  <2>1. Called(r) \in SUBSET WinIds /\ \A i \in Called(r) : winName[i] # Unborn
    BY NamesDiffer DEF Called, Owners
  <2>2. making'[u] = r /\ r # NoAgentShown /\ onAgent' = onAgent /\ \A v \in Tuis \ {u} : making'[v] = making[v]
    BY <1>0, <1>11, NamesDiffer DEF ClosesStale, BottomTyped, Owners
  <2> QED
    BY <1>1, <1>4, <1>11, <2>1, <2>2 DEF ClosesStale
<1>12. ASSUME NEW u \in Tuis, OpensProxy(u) PROVE ShownIn(t)'
  <2>1. PICK r \in SshAgents : r = making[u]
    BY <1>0, <1>12 DEF OpensProxy, BottomTyped
  <2>2. Opens(r) /\ r \in Owners /\ Called(r) = {}
    BY <1>0, <1>12, <2>1 DEF OpensProxy, Opens, Owners, OneProxy
  <2>3. Turns(u, r, Fresh) /\ Fresh \in WinIds
    BY <1>12, <2>1, <2>2 DEF OpensProxy, Opens, CanOpen
  <2>4. winName'[Fresh] = r
    BY <1>0, <2>2, Opening
  <2>5. CASE u = t
    BY <1>6, <2>2, <2>3, <2>4, <2>5
  <2>6. CASE u # t
    <3>1. calm[t] /\ onAgent'[t] = onAgent[t] /\ shownWin'[t] = shownWin[t]
      BY <1>1, <1>5, <2>3, <2>6
    <3>2. making[t] = NoAgentShown
      BY <1>0, <1>1, <1>12, <2>6 DEF OpensProxy, BottomTyped
    <3>3. r \notin OwnAgents
      BY NamesDiffer
    <3> QED
      BY <1>3, <2>2, <3>1, <3>2, <3>3
  <2> QED
    BY <2>5, <2>6
<1>13. ASSUME NEW u \in Tuis, TuiStarts(u) PROVE ShownIn(t)'
  <2> DEFINE ids == {i \in WinIds : winName[i] \in SshAgents}
  <2>1. ids \in SUBSET WinIds /\ \A i \in ids : winName[i] # Unborn
    BY NamesDiffer DEF Owners
  <2> QED
    BY <1>1, <1>4, <1>13, <2>1 DEF TuiStarts
<1>14. ASSUME NEW u \in Tuis, Drops(u) PROVE u # t /\ making[t] = NoAgentShown /\ onAgent'[t] = onAgent[t]
  BY <1>0, <1>1, <1>14 DEF Drops, BottomTyped
<1>15. ASSUME NEW u \in Tuis, TuiQuits(u) PROVE ShownIn(t)'
  <2> DEFINE ids == {i \in WinIds : winName[i] \in sshKnown[u] /\ Cardinality(Called(winName[i])) = 1}
  <2>1. ids \in SUBSET WinIds /\ Close(ids) /\ Drops(u)
    BY <1>15 DEF TuiQuits
  <2>2. \A i \in ids : winName[i] # Unborn
    <3>1. sshKnown[u] \in SUBSET SshAgents
      BY <1>0 DEF BottomTyped
    <3> QED
      BY <3>1, NamesDiffer DEF Owners
  <2> HIDE DEF ids
  <2> QED
    BY <1>4, <1>14, <2>1, <2>2
<1>16. ASSUME NEW u \in Tuis, TuiCrashes(u) PROVE ShownIn(t)'
  BY <1>1, <1>2, <1>14, <1>16 DEF TuiCrashes
<1>17. ASSUME NEW a \in OwnAgents, AgentOpens(a) PROVE ShownIn(t)'
  <2>1. Opens(a) /\ a \in Owners /\ UNCHANGED <<shownWin, onAgent, making>>
    BY <1>17 DEF AgentOpens, Opens, Owners
  <2>2. calm[t] /\ onAgent[t] # a
    BY <1>1, <1>17 DEF AgentOpens
  <2> QED
    BY <1>1, <1>3, <2>1, <2>2
<1>18. ASSUME NEW i \in WinIds, WindowShuts(i) PROVE ShownIn(t)'
  <2>1. {i} \in SUBSET WinIds /\ \A j \in {i} : winName[j] # Unborn
    BY <1>18 DEF WindowShuts, Live
  <2> QED
    BY <1>1, <1>4, <1>18, <2>1 DEF WindowShuts
<1> QED
  BY <1>7, <1>8, <1>9, <1>10, <1>11, <1>12, <1>13, <1>15, <1>16, <1>17, <1>18 DEF BottomNext

\* For any TUIs, agents and windows: as long as no two TUIs open a window of one name at
\* a time, a TUI that is calm shows the window of the agent selected, or the placeholder
\* while that agent has none.
THEOREM FocusKept == BottomSpec => []FocusIsShown
<1>1. BottomInit => BottomInv
  <2> SUFFICES ASSUME BottomInit PROVE BottomInv
    OBVIOUS
  <2>1. BottomTyped
    BY DEF BottomInit, BottomTyped
  <2>2. WindowsInOrder
    <3>1. 0 \in 0 .. MaxWindows /\ \A i \in WinIds : ~ i <= 0
      BY NamesDiffer DEF WinIds
    <3> QED
      BY <3>1 DEF WindowsInOrder, BottomInit
  <2>3. \A r \in SshAgents : Called(r) = {} /\ \A t \in Tuis : making[t] # r
    BY NamesDiffer DEF BottomInit, Called, Owners
  <2> QED
    BY <2>1, <2>2, <2>3 DEF BottomInit, BottomInv, OneProxy, ShowsFocus
<1>2. BottomInv /\ [BottomNext]_bottomVars => BottomInv'
  <2>1. BottomInv /\ UNCHANGED bottomVars => BottomInv'
    BY DEF BottomInv, bottomVars, BottomTyped, WindowsInOrder, OneProxy, ShowsFocus, ShownIn, Called
  <2> QED
    BY <2>1, TypedStep, ProxyStep, FocusStep DEF BottomInv
<1>3. BottomInv => FocusIsShown
  <2> SUFFICES ASSUME BottomInv, NEW t \in Tuis,
                      calm[t], ~crossed, making[t] = NoAgentShown, onAgent[t] # NoAgentShown
               PROVE  /\ shownWin[t] # 0
                      /\ IF Called(onAgent[t]) # {} THEN winName[shownWin[t]] = onAgent[t]
                         ELSE winName[shownWin[t]] = Placeholder
    BY DEF FocusIsShown
  <2>1. ShownIn(t)
    BY DEF BottomInv, ShowsFocus
  <2> QED
    BY <2>1, NamesDiffer DEF ShownIn, Called
<1> QED
  BY <1>1, <1>2, <1>3, PTL DEF BottomSpec
=============================================================================
