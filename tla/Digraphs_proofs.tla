-------------------------- MODULE Digraphs_proofs --------------------------
(***************************************************************************)
(* Lemmas about paths in a graph and about sets of numbers in ascending    *)
(* order, for the analyses that work on graphs.                            *)
(***************************************************************************)
EXTENDS Digraphs, FiniteSetTheorems, WellFoundedInduction, TLAPS

\* succ is a graph: it maps each of its nodes to nodes of its own.
IsGraph(succ) == succ \in [DOMAIN succ -> SUBSET DOMAIN succ]

(***************************************************************************)
(* Paths.                                                                  *)
(***************************************************************************)

\* The nodes reached from v are closed under succ and have its successors...
LEMMA ReachableClosed ==
  ASSUME NEW succ, IsGraph(succ), NEW v \in DOMAIN succ
  PROVE  /\ Reachable(v, succ) \subseteq DOMAIN succ
         /\ succ[v] \subseteq Reachable(v, succ)
         /\ Closed(Reachable(v, succ), succ)
<1>1. succ[v] \subseteq DOMAIN succ
  BY DEF IsGraph
<1>2. Reachable(v, succ) \subseteq DOMAIN succ
  BY DEF Reachable
<1>3. succ[v] \subseteq Reachable(v, succ)
  BY <1>1 DEF Reachable
<1>4. ASSUME NEW m \in Reachable(v, succ), NEW n \in succ[m] PROVE n \in Reachable(v, succ)
  <2>1. n \in DOMAIN succ
    BY <1>2, <1>4 DEF IsGraph
  <2>2. ASSUME NEW S \in SUBSET DOMAIN succ, succ[v] \subseteq S, Closed(S, succ)
        PROVE  n \in S
    <3>1. m \in S
      BY <1>4, <2>2 DEF Reachable
    <3> QED
      BY <3>1, <1>4, <2>2 DEF Closed
  <2> QED
    BY <2>1, <2>2 DEF Reachable
<1> QED
  BY <1>2, <1>3, <1>4 DEF Closed

\* ...and are the fewest that are and do.
LEMMA ReachableLeast ==
  ASSUME NEW succ, NEW v, NEW S \in SUBSET DOMAIN succ,
         succ[v] \subseteq S, Closed(S, succ)
  PROVE  Reachable(v, succ) \subseteq S
BY DEF Reachable

LEMMA ReachableTransitive ==
  ASSUME NEW succ, IsGraph(succ), NEW v \in DOMAIN succ, NEW n \in Reachable(v, succ)
  PROVE  Reachable(n, succ) \subseteq Reachable(v, succ)
<1>1. /\ Reachable(v, succ) \subseteq DOMAIN succ
      /\ Closed(Reachable(v, succ), succ)
  BY ReachableClosed
<1>2. succ[n] \subseteq Reachable(v, succ)
  BY <1>1 DEF Closed
<1> QED
  BY <1>1, <1>2, ReachableLeast

\* A path has a last step, from a node other than the one it leads to.
LEMMA ReachableLastStep ==
  ASSUME NEW succ, IsGraph(succ), NEW v \in DOMAIN succ,
         NEW n \in Reachable(v, succ), n \notin succ[v]
  PROVE  \E u \in Reachable(v, succ) : u # n /\ n \in succ[u]
<1> SUFFICES ASSUME \A u \in Reachable(v, succ) : u # n => n \notin succ[u]
             PROVE  FALSE
  OBVIOUS
<1> DEFINE S == Reachable(v, succ) \ {n}
<1>1. /\ Reachable(v, succ) \subseteq DOMAIN succ
      /\ succ[v] \subseteq Reachable(v, succ)
      /\ Closed(Reachable(v, succ), succ)
  BY ReachableClosed
<1>2. S \in SUBSET DOMAIN succ /\ succ[v] \subseteq S
  BY <1>1
<1>3. Closed(S, succ)
  BY <1>1 DEF Closed
<1>4. Reachable(v, succ) \subseteq S
  <2> HIDE DEF S
  <2> QED
    BY <1>2, <1>3, ReachableLeast
<1> QED
  BY <1>4

\* A path has a first step.
LEMMA ReachableFirstStep ==
  ASSUME NEW succ, IsGraph(succ), NEW v \in DOMAIN succ, NEW n \in Reachable(v, succ)
  PROVE  \E w \in succ[v] : n = w \/ n \in Reachable(w, succ)
<1> DEFINE S == {m \in DOMAIN succ : \E w \in succ[v] : m = w \/ m \in Reachable(w, succ)}
<1>1. succ[v] \subseteq DOMAIN succ
  BY DEF IsGraph
<1>2. S \in SUBSET DOMAIN succ /\ succ[v] \subseteq S
  BY <1>1
<1>3. ASSUME NEW m \in S, NEW x \in succ[m] PROVE x \in S
  <2>1. PICK w \in succ[v] : m = w \/ m \in Reachable(w, succ)
    OBVIOUS
  <2>2. x \in DOMAIN succ /\ w \in DOMAIN succ
    BY <1>1, <1>3 DEF IsGraph
  <2>3. x \in Reachable(w, succ)
    BY <2>1, <2>2, ReachableClosed DEF Closed
  <2> QED
    BY <2>2, <2>3
<1>4. Closed(S, succ)
  BY <1>3 DEF Closed
<1>5. Reachable(v, succ) \subseteq S
  <2> HIDE DEF S
  <2> QED
    BY <1>2, <1>4, ReachableLeast
<1> QED
  BY <1>5

\* More edges lead to no fewer nodes.
LEMMA ReachableMonotonic ==
  ASSUME NEW succ, NEW more, IsGraph(succ), IsGraph(more), DOMAIN succ \subseteq DOMAIN more,
         \A n \in DOMAIN succ : succ[n] \subseteq more[n], NEW v \in DOMAIN succ
  PROVE  Reachable(v, succ) \subseteq Reachable(v, more)
<1> DEFINE S == Reachable(v, more) \cap DOMAIN succ
<1>1. /\ more[v] \subseteq Reachable(v, more)
      /\ Closed(Reachable(v, more), more)
  BY ReachableClosed
<1>2. S \in SUBSET DOMAIN succ /\ succ[v] \subseteq S
  BY <1>1 DEF IsGraph
<1>3. Closed(S, succ)
  BY <1>1 DEF Closed, IsGraph
<1>4. Reachable(v, succ) \subseteq S
  <2> HIDE DEF S
  <2> QED
    BY <1>2, <1>3, ReachableLeast
<1> QED
  BY <1>4

(***************************************************************************)
(* Sets of numbers.                                                        *)
(***************************************************************************)

LEMMA HasLeast ==
  ASSUME NEW S \in SUBSET Nat, S # {}
  PROVE  \E m \in S : \A y \in S : m <= y
<1> DEFINE Less == {ss \in Nat \X Nat : ss[1] < ss[2]}
<1>1. IsWellFoundedOn(Less, Nat)
  BY NatLessThanWellFounded, Zenon DEF OpToRel
<1>2. PICK m \in S : \A y \in S : ~ (<<y, m>> \in Less)
  <2> HIDE DEF Less
  <2> QED
    BY <1>1, WFMin
<1>3. ASSUME NEW y \in S PROVE m <= y
  <2>1. y \in Nat /\ m \in Nat /\ ~ (y < m)
    BY <1>2
  <2> QED
    BY <2>1
<1> QED
  BY <1>3

\* What holds of 1 and passes to the next number holds up to k; what holds of k
\* and passes to the one before holds down to 1.
LEMMA IntervalUp ==
  ASSUME NEW k \in Nat, NEW S, 1 \in S, \A i \in 1 .. k - 1 : i \in S => i + 1 \in S
  PROVE  1 .. k \subseteq S
<1> DEFINE Bad == {i \in 1 .. k : i \notin S}
<1> SUFFICES ASSUME Bad # {} PROVE FALSE
  OBVIOUS
<1>1. PICK m \in Bad : \A y \in Bad : m <= y
  <2>1. Bad \in SUBSET Nat
    OBVIOUS
  <2> HIDE DEF Bad
  <2> QED
    BY <2>1, HasLeast
<1>2. m \in 1 .. k /\ m # 1 /\ m \notin S
  OBVIOUS
<1>3. m - 1 \in 1 .. k - 1 /\ m - 1 \in 1 .. k /\ (m - 1) + 1 = m
  BY <1>2
<1>4. m - 1 \notin S
  BY <1>2, <1>3
<1>5. m - 1 \in Bad
  BY <1>3, <1>4
<1>6. m <= m - 1
  BY <1>1, <1>5
<1> QED
  BY <1>2, <1>6

LEMMA IntervalDown ==
  ASSUME NEW k \in Nat, NEW S, k \in S, \A i \in 1 .. k - 1 : i + 1 \in S => i \in S
  PROVE  1 .. k \subseteq S
<1> DEFINE T == {i \in Nat : k + 1 - i \in S}
<1>1. 1 \in T
  OBVIOUS
<1>2. ASSUME NEW i \in 1 .. k - 1, i \in T PROVE i + 1 \in T
  <2>1. k - i \in 1 .. k - 1 /\ (k - i) + 1 = k + 1 - i /\ k + 1 - (i + 1) = k - i
    OBVIOUS
  <2>2. k - i \in S
    BY <1>2, <2>1
  <2> QED
    BY <2>1, <2>2
<1>3. 1 .. k \subseteq T
  <2> HIDE DEF T
  <2> QED
    BY <1>1, <1>2, IntervalUp
<1>4. ASSUME NEW i \in 1 .. k PROVE i \in S
  <2>1. k + 1 - i \in 1 .. k /\ k + 1 - (k + 1 - i) = i
    OBVIOUS
  <2> QED
    BY <1>3, <2>1
<1> QED
  BY <1>4

\* q lists S in ascending order.
Lists(q, S) ==
  /\ q \in [1 .. Cardinality(S) -> S]
  /\ \A i, j \in 1 .. Cardinality(S) : i < j => q[i] < q[j]

LEMMA AscendingExists ==
  ASSUME NEW S \in SUBSET Nat, IsFiniteSet(S)
  PROVE  \E q : Lists(q, S)
<1> DEFINE Bad == {n \in Nat : \E X \in SUBSET Nat : /\ IsFiniteSet(X) /\ Cardinality(X) = n
                                                     /\ ~ \E q : Lists(q, X)}
<1>1. SUFFICES ASSUME Bad # {} PROVE FALSE
  <2>1. Cardinality(S) \in Nat
    BY FS_CardinalityType
  <2> QED
    BY <1>1, <2>1
<1>2. PICK n \in Bad : \A m \in Bad : n <= m
  <2>1. Bad \in SUBSET Nat
    OBVIOUS
  <2> HIDE DEF Bad
  <2> QED
    BY <1>1, <2>1, HasLeast
<1>3. PICK X \in SUBSET Nat : /\ IsFiniteSet(X) /\ Cardinality(X) = n
                              /\ ~ \E q : Lists(q, X)
  BY <1>2
<1>4. n \in Nat
  BY <1>2
<1>5. X # {}
  <2> SUFFICES ASSUME X = {} PROVE FALSE
    OBVIOUS
  <2>1. Cardinality(X) = 0
    BY FS_EmptySet
  <2>2. Lists([i \in 1 .. 0 |-> 0], X)
    BY <2>1 DEF Lists
  <2> QED
    BY <1>3, <2>2
<1>6. PICK x \in X : \A y \in X : x <= y
  BY <1>5, HasLeast
<1> DEFINE Y == X \ {x}
<1>7. IsFiniteSet(Y) /\ Cardinality(Y) = n - 1
  BY <1>3, FS_RemoveElement
<1>8. n - 1 \in Nat
  BY <1>7, FS_CardinalityType
<1>9. n - 1 \notin Bad
  BY <1>2, <1>4, <1>8
<1>10. PICK q : Lists(q, Y)
  <2>1. Y \in SUBSET Nat
    OBVIOUS
  <2> HIDE DEF Y
  <2> QED
    BY <1>7, <1>8, <1>9, <2>1
<1> DEFINE r == [i \in 1 .. n |-> IF i = 1 THEN x ELSE q[i - 1]]
<1>11. /\ \A i \in 2 .. n : i - 1 \in 1 .. n - 1 /\ q[i - 1] \in Y
       /\ \A i, j \in 1 .. n - 1 : i < j => q[i] < q[j]
  <2> HIDE DEF Y
  <2>1. q \in [1 .. n - 1 -> Y] /\ \A i, j \in 1 .. n - 1 : i < j => q[i] < q[j]
    BY <1>7, <1>10 DEF Lists
  <2>2. \A i \in 2 .. n : i - 1 \in 1 .. n - 1
    BY <1>4
  <2> QED
    BY <2>1, <2>2
<1>12. r \in [1 .. n -> X]
  BY <1>4, <1>11
<1>13. ASSUME NEW i \in 1 .. n, NEW j \in 1 .. n, i < j PROVE r[i] < r[j]
  <2>1. j \in 2 .. n /\ r[j] = q[j - 1] /\ q[j - 1] \in Y
    BY <1>4, <1>11, <1>13
  <2>2. CASE i = 1
    <3>1. r[i] = x /\ r[j] \in X /\ r[j] # x /\ x <= r[j]
      BY <1>6, <2>1, <2>2
    <3>2. x \in Nat /\ r[j] \in Nat
      BY <3>1
    <3> HIDE DEF r
    <3> QED
      BY <3>1, <3>2
  <2>3. CASE i # 1
    <3>1. i \in 2 .. n /\ i - 1 \in 1 .. n - 1 /\ j - 1 \in 1 .. n - 1 /\ i - 1 < j - 1
      BY <1>4, <1>13, <2>3
    <3>2. r[i] = q[i - 1]
      BY <2>3, <3>1
    <3> QED
      BY <1>11, <2>1, <3>1, <3>2
  <2> QED
    BY <2>2, <2>3
<1>14. Lists(r, X)
  <2> HIDE DEF r
  <2> QED
    BY <1>3, <1>12, <1>13 DEF Lists
<1> QED
  BY <1>3, <1>14

\* Ascending(S) lists all of S, once.
LEMMA AscendingFacts ==
  ASSUME NEW S \in SUBSET Nat, IsFiniteSet(S)
  PROVE  /\ Ascending(S) \in Seq(S)
         /\ DOMAIN Ascending(S) = 1 .. Cardinality(S)
         /\ Len(Ascending(S)) = Cardinality(S)
         /\ Cardinality(S) \in Nat
         /\ \A i, j \in DOMAIN Ascending(S) : i < j => Ascending(S)[i] < Ascending(S)[j]
         /\ \A x \in S : \E i \in DOMAIN Ascending(S) : Ascending(S)[i] = x
<1> DEFINE n == Cardinality(S)
           a == Ascending(S)
<1>1. n \in Nat
  BY FS_CardinalityType
<1>2. PICK q : Lists(q, S)
  BY AscendingExists
<1>3. /\ q \in [1 .. n -> S]
      /\ \A i, j \in DOMAIN q : i < j => q[i] < q[j]
  BY <1>2 DEF Lists
<1>4. /\ a \in [1 .. n -> S]
      /\ \A i, j \in DOMAIN a : i < j => a[i] < a[j]
  BY <1>3 DEF Ascending
<1> HIDE DEF a
<1>5. a \in Seq(S) /\ Len(a) = n /\ DOMAIN a = 1 .. n
  BY <1>1, <1>4
<1>6. a \in Injection(1 .. n, S)
  <2> SUFFICES ASSUME NEW i \in 1 .. n, NEW j \in 1 .. n, a[i] = a[j] PROVE i = j
    BY <1>4 DEF Injection, IsInjective
  <2>1. a[i] \in Nat /\ a[j] \in Nat /\ (i < j => a[i] < a[j]) /\ (j < i => a[j] < a[i])
    BY <1>4
  <2> QED
    BY <1>1, <2>1
<1>7. a \in Surjection(1 .. n, S)
  <2>1. Cardinality(1 .. n) = n
    BY <1>1, FS_Interval
  <2> QED
    BY <1>6, <2>1, FS_Injection
<1>8. \A x \in S : \E i \in 1 .. n : a[i] = x
  BY <1>7 DEF Surjection
<1> QED
  BY <1>1, <1>4, <1>5, <1>8 DEF a
=============================================================================
