-------------------------- MODULE KaracMap_proofs --------------------------
(***************************************************************************)
(* Theorems about KaracMap for every set of keys and of values, every hash *)
(* function and every capacity: the counters are exact, an empty bucket is *)
(* left to end a search, and every stored key is found.                    *)
(***************************************************************************)
EXTENDS KaracMap, FiniteSetTheorems, TLAPS

(***************************************************************************)
(* What is true of every table an operation may see.                       *)
(***************************************************************************)
Bucket(t) == 0 .. Capacity(t) - 1
Occupied(t) == {s \in Bucket(t) : t.status[s] = "OCCUPIED"}
Deleted(t) == {s \in Bucket(t) : t.status[s] = "TOMBSTONE"}
Empty(t) == {s \in Bucket(t) : t.status[s] = "EMPTY"}

\* A table of cap buckets.
Tables(cap) ==
  [status : [0 .. cap - 1 -> Status],
   key : [0 .. cap - 1 -> Keys \cup {None}],
   val : [0 .. cap - 1 -> Values \cup {None}],
   len : Nat, tombstones : Nat]

TableType(t) ==
  /\ Capacity(t) \in Nat \ {0}
  /\ t \in Tables(Capacity(t))
  /\ \A s \in Occupied(t) : t.key[s] \in Keys

\* The probe sequence of k reaches bucket s before any empty one.
Reached(t, k, s) ==
  \E i \in Bucket(t) :
    /\ Probe(t, k, i) = s
    /\ \A j \in 0 .. i - 1 : t.status[Probe(t, k, j)] # "EMPTY"

\* Every stored key is reached, and is stored once.
Keyed(t) ==
  /\ \A s \in Occupied(t) : Reached(t, t.key[s], s)
  /\ \A r, s \in Occupied(t) : t.key[r] = t.key[s] => r = s

Counters(t) ==
  /\ t.len = Cardinality(Occupied(t))
  /\ t.tombstones = Cardinality(Deleted(t))

Sound(t) == TableType(t) /\ Keyed(t) /\ Counters(t)

\* The load factor: no more than three quarters of the buckets are in use.
Loaded(t) == (t.len + t.tombstones) * 4 <= Capacity(t) * 3

HashType == hash \in [Keys -> Hashes]

\* An open entry chain has claimed an occupied bucket; a traversal is at a bucket.
ClaimHeld ==
  /\ claim # NoSlot => claim \in Occupied(table)
  /\ iter # NoSlot => iter \in Nat

Inv == HashType /\ Sound(table) /\ Loaded(table) /\ ClaimHeld

(***************************************************************************)
(* Arithmetic of probing.                                                  *)
(***************************************************************************)
LEMMA MinFacts ==
  ASSUME NEW S \in SUBSET Nat, S # {}
  PROVE  /\ Min(S) \in S
         /\ \A y \in S : Min(S) <= y
<1> DEFINE Less == {ss \in Nat \X Nat : ss[1] < ss[2]}
<1>1. IsWellFoundedOn(Less, Nat)
  BY NatLessThanWellFounded, Zenon DEF OpToRel
<1>2. PICK m \in S : \A y \in S : ~ (<<y, m>> \in Less)
  <2> HIDE DEF Less
  <2> QED
    BY <1>1, WFMin
<1>3. ASSUME NEW y \in S PROVE m <= y
  <2>1. y \in Nat /\ m \in Nat /\ ~ (y < m)
    BY <1>2
  <2> QED
    BY <2>1
<1> QED
  BY <1>3 DEF Min

LEMMA ModIn ==
  ASSUME NEW h \in Nat, NEW cap \in Nat, cap # 0
  PROVE  /\ h % cap \in 0 .. cap - 1
         /\ h = (cap * (h \div cap)) + (h % cap)
         /\ h \div cap \in Int
OBVIOUS

LEMMA ModOf ==
  ASSUME NEW q \in Int, NEW cap \in Nat, cap # 0, NEW s \in 0 .. cap - 1
  PROVE  ((cap * q) + s) % cap = s
OBVIOUS

\* Every bucket is somewhere on the way around from h.
LEMMA ModOnto ==
  ASSUME NEW h \in Nat, NEW cap \in Nat, cap # 0, NEW s \in 0 .. cap - 1
  PROVE  \E i \in 0 .. cap - 1 : (h + i) % cap = s
<1> DEFINE r == h % cap
           q == h \div cap
<1>1. r \in 0 .. cap - 1 /\ h = (cap * q) + r /\ q \in Int
  BY ModIn
<1>2. CASE r <= s
  <2>1. s - r \in 0 .. cap - 1 /\ h + (s - r) = (cap * q) + s
    BY <1>1, <1>2
  <2>2. ((cap * q) + s) % cap = s
    BY <1>1, ModOf
  <2> QED
    BY <2>1, <2>2
<1>3. CASE s < r
  <2>0. cap * (q + 1) = (cap * q) + cap
    BY <1>1
  <2>1. /\ (s - r) + cap \in 0 .. cap - 1
        /\ h + ((s - r) + cap) = (cap * (q + 1)) + s
    BY <1>1, <1>3, <2>0
  <2>2. ((cap * (q + 1)) + s) % cap = s
    <3>1. q + 1 \in Int
      BY <1>1
    <3> QED
      BY <3>1, ModOf
  <2>3. (h + ((s - r) + cap)) % cap = s
    BY <2>1, <2>2
  <2> QED
    BY <2>1, <2>3
<1> QED
  BY <1>1, <1>2, <1>3

LEMMA ProbeFacts ==
  ASSUME HashType, NEW t, TableType(t), NEW k \in Keys
  PROVE  /\ \A i \in Nat : Probe(t, k, i) \in Bucket(t)
         /\ \A s \in Bucket(t) : \E i \in Bucket(t) : Probe(t, k, i) = s
         /\ DOMAIN t.status = Bucket(t)
         /\ Capacity(t) \in Nat \ {0}
<1>1. hash[k] \in Nat /\ Capacity(t) \in Nat \ {0}
  BY CapacityAssumption DEF HashType, TableType
<1>2. \A i \in Nat : hash[k] + i \in Nat
  BY <1>1
<1>3. \A i \in Nat : Probe(t, k, i) \in Bucket(t)
  BY <1>1, <1>2, ModIn DEF Probe, Bucket
<1>4. \A s \in Bucket(t) : \E i \in Bucket(t) : Probe(t, k, i) = s
  BY <1>1, ModOnto DEF Probe, Bucket
<1> QED
  BY <1>1, <1>3, <1>4 DEF TableType, Tables, Bucket

(***************************************************************************)
(* Searches.                                                               *)
(***************************************************************************)
\* The first step at which a search ends, when there is one.
LEMMA FirstStop ==
  ASSUME HashType, NEW t, TableType(t), NEW k \in Keys, Stops(t, k) # {}
  PROVE  LET m == Min(Stops(t, k)) IN
         /\ m \in Bucket(t) /\ m \in Stops(t, k)
         /\ Probe(t, k, m) \in Bucket(t)
         /\ t.status[Probe(t, k, m)] = "EMPTY" \/ Holds(t, Probe(t, k, m), k)
         /\ \A j \in Stops(t, k) : m <= j
         /\ \A j \in 0 .. m - 1 :
              /\ Probe(t, k, j) \in Bucket(t)
              /\ t.status[Probe(t, k, j)] # "EMPTY"
              /\ ~ Holds(t, Probe(t, k, j), k)
<1> DEFINE m == Min(Stops(t, k))
<1>1. Stops(t, k) \subseteq Bucket(t) /\ Bucket(t) \subseteq Nat
      /\ DOMAIN t.status = Bucket(t)
  <2>1. DOMAIN t.status = Bucket(t)
    BY ProbeFacts
  <2>2. Bucket(t) \subseteq Nat
    BY DEF Bucket
  <2> QED
    BY <2>1, <2>2 DEF Stops
<1>2. m \in Stops(t, k) /\ \A y \in Stops(t, k) : m <= y
  BY <1>1, MinFacts
<1>3. /\ m \in Bucket(t) /\ m \in Nat
      /\ t.status[Probe(t, k, m)] = "EMPTY" \/ Holds(t, Probe(t, k, m), k)
  BY <1>1, <1>2 DEF Stops
<1> HIDE DEF m
<1>4. ASSUME NEW j \in 0 .. m - 1
      PROVE  /\ Probe(t, k, j) \in Bucket(t)
             /\ t.status[Probe(t, k, j)] # "EMPTY" /\ ~ Holds(t, Probe(t, k, j), k)
  <2>1. j \in Bucket(t) /\ j \in Nat /\ ~ (m <= j)
    BY <1>3, ProbeFacts DEF Bucket
  <2>2. j \notin Stops(t, k)
    BY <1>2, <2>1
  <2> QED
    BY <1>1, <2>1, <2>2, ProbeFacts DEF Stops
<1> QED
  BY <1>2, <1>3, <1>4, ProbeFacts DEF m

\* lookup returns the bucket of the key, or none when there is none.
LEMMA LookupFacts ==
  ASSUME HashType, NEW t, TableType(t), Keyed(t), NEW k \in Keys
  PROVE  /\ Lookup(t, k) # NoSlot =>
              /\ Lookup(t, k) \in Occupied(t) /\ t.key[Lookup(t, k)] = k
              /\ Holds(t, Lookup(t, k), k)
         /\ Lookup(t, k) = NoSlot => \A s \in Occupied(t) : t.key[s] # k
         /\ \A s \in Occupied(t) : t.key[s] = k => Lookup(t, k) = s
<1> DEFINE m == Min(Stops(t, k))
           stop == IF Stops(t, k) = {} THEN NoSlot ELSE m
<1>0. /\ Bucket(t) \subseteq Nat /\ NoSlot \notin Nat
      /\ Lookup(t, k) = IF stop # NoSlot /\ Holds(t, Probe(t, k, stop), k)
                        THEN Probe(t, k, stop) ELSE NoSlot
  BY DEF Bucket, NoSlot, Lookup
<1>1. Lookup(t, k) # NoSlot =>
        /\ Lookup(t, k) \in Occupied(t) /\ t.key[Lookup(t, k)] = k
        /\ Holds(t, Lookup(t, k), k)
  <2> SUFFICES ASSUME Lookup(t, k) # NoSlot
               PROVE  /\ Lookup(t, k) \in Occupied(t) /\ t.key[Lookup(t, k)] = k
                      /\ Holds(t, Lookup(t, k), k)
    OBVIOUS
  <2>1. stop = m /\ Holds(t, Probe(t, k, m), k) /\ Lookup(t, k) = Probe(t, k, m)
        /\ Stops(t, k) # {}
    BY <1>0
  <2>2. Probe(t, k, m) \in Bucket(t)
    BY <2>1, FirstStop
  <2> QED
    BY <2>1, <2>2 DEF Occupied, Holds
<1>2. ASSUME NEW s \in Occupied(t), t.key[s] = k PROVE Lookup(t, k) = s
  <2>1. PICK i \in Bucket(t) : /\ Probe(t, k, i) = s
                               /\ \A j \in 0 .. i - 1 : t.status[Probe(t, k, j)] # "EMPTY"
    BY <1>2 DEF Keyed, Reached
  <2>2. i \in Stops(t, k)
    BY <1>2, <2>1, ProbeFacts DEF Stops, Holds, Occupied
  <2>3. /\ m \in Bucket(t) /\ Probe(t, k, m) \in Bucket(t) /\ m <= i
        /\ t.status[Probe(t, k, m)] = "EMPTY" \/ Holds(t, Probe(t, k, m), k)
    BY <2>2, FirstStop
  <2>4. Holds(t, Probe(t, k, m), k)
    <3>1. CASE m = i
      BY <1>2, <2>1, <3>1 DEF Holds, Occupied
    <3>2. CASE m # i
      <4> HIDE DEF m
      <4>1. m \in 0 .. i - 1
        BY <1>0, <2>1, <2>3, <3>2 DEF Bucket
      <4> QED
        BY <2>1, <2>3, <4>1
    <3> QED
      BY <3>1, <3>2
  <2>5. Probe(t, k, m) \in Occupied(t) /\ t.key[Probe(t, k, m)] = k
    BY <2>3, <2>4 DEF Holds, Occupied
  <2>6. Probe(t, k, m) = s
    BY <1>2, <2>5 DEF Keyed
  <2>7. stop = m /\ stop # NoSlot
    BY <1>0, <2>2, <2>3
  <2> QED
    BY <1>0, <2>4, <2>6, <2>7
<1>3. \A s \in Occupied(t) : s # NoSlot
  BY <1>0 DEF Occupied
<1> QED
  BY <1>1, <1>2, <1>3

\* find_insert_slot returns the bucket of the key, or a free one that the search
\* for the key passes; the fallback to bucket 0 is not taken.
LEMMA FindFacts ==
  ASSUME HashType, NEW t, TableType(t), Keyed(t), Empty(t) # {}, NEW k \in Keys
  PROVE  /\ FindInsertSlot(t, k) \in Bucket(t)
         /\ Lookup(t, k) # NoSlot => FindInsertSlot(t, k) = Lookup(t, k)
         /\ Lookup(t, k) = NoSlot =>
              /\ FindInsertSlot(t, k) \notin Occupied(t)
              /\ Reached(t, k, FindInsertSlot(t, k))
<1> DEFINE m == Min(Stops(t, k))
           before == {i \in DOMAIN t.status : \A j \in Stops(t, k) : i < j}
           tombs == {i \in before : t.status[Probe(t, k, i)] = "TOMBSTONE"}
<1>0. /\ DOMAIN t.status = Bucket(t) /\ Bucket(t) \subseteq Nat
      /\ FindInsertSlot(t, k) =
           IF Lookup(t, k) # NoSlot THEN Lookup(t, k)
           ELSE IF tombs # {} THEN Probe(t, k, Min(tombs))
           ELSE IF Stops(t, k) # {} THEN Probe(t, k, m)
           ELSE 0
  BY ProbeFacts DEF FindInsertSlot, Bucket
<1>1. Stops(t, k) # {}
  <2>1. PICK e \in Bucket(t) : t.status[e] = "EMPTY"
    BY DEF Empty
  <2>2. PICK i \in Bucket(t) : Probe(t, k, i) = e
    BY ProbeFacts
  <2> QED
    BY <1>0, <2>1, <2>2 DEF Stops
<1>2. /\ m \in Bucket(t) /\ m \in Stops(t, k) /\ Probe(t, k, m) \in Bucket(t)
      /\ t.status[Probe(t, k, m)] = "EMPTY" \/ Holds(t, Probe(t, k, m), k)
      /\ \A j \in 0 .. m - 1 : t.status[Probe(t, k, j)] # "EMPTY"
  BY <1>1, FirstStop
<1>3. CASE Lookup(t, k) # NoSlot
  BY <1>0, <1>3, LookupFacts DEF Occupied
<1>4. CASE Lookup(t, k) = NoSlot /\ tombs # {}
  <2>1. tombs \subseteq Nat
    BY <1>0
  <2>2. Min(tombs) \in tombs
    BY <1>4, <2>1, MinFacts
  <2> DEFINE i == Min(tombs)
  <2>3. /\ i \in Bucket(t) /\ t.status[Probe(t, k, i)] = "TOMBSTONE" /\ i < m
        /\ i \in Nat /\ m \in Nat
    BY <1>0, <1>2, <2>2
  <2> HIDE DEF i, m, tombs, before
  <2>4. \A j \in 0 .. i - 1 : j \in 0 .. m - 1
    BY <2>3
  <2>5. FindInsertSlot(t, k) = Probe(t, k, i)
    BY <1>0, <1>4 DEF i
  <2>6. Reached(t, k, Probe(t, k, i))
    BY <1>2, <2>3, <2>4 DEF Reached
  <2> QED
    BY <1>4, <2>3, <2>5, <2>6, ProbeFacts DEF Occupied
<1>5. CASE Lookup(t, k) = NoSlot /\ tombs = {}
  <2>1. FindInsertSlot(t, k) = Probe(t, k, m)
    BY <1>0, <1>1, <1>5
  <2>2. ~ Holds(t, Probe(t, k, m), k)
    BY <1>2, <1>5, LookupFacts DEF Holds, Occupied
  <2>3. Reached(t, k, Probe(t, k, m))
    BY <1>2 DEF Reached
  <2> QED
    BY <1>2, <1>5, <2>1, <2>2, <2>3 DEF Occupied
<1> QED
  BY <1>3, <1>4, <1>5

(***************************************************************************)
(* Counting buckets.                                                       *)
(***************************************************************************)
LEMMA BucketCount ==
  ASSUME NEW t, TableType(t)
  PROVE  /\ IsFiniteSet(Occupied(t)) /\ IsFiniteSet(Deleted(t)) /\ IsFiniteSet(Empty(t))
         /\ Cardinality(Occupied(t)) \in Nat /\ Cardinality(Deleted(t)) \in Nat
         /\ Cardinality(Empty(t)) \in Nat
         /\ Cardinality(Occupied(t)) + Cardinality(Deleted(t)) + Cardinality(Empty(t))
              = Capacity(t)
<1> DEFINE cap == Capacity(t)
<1>1. cap \in Nat \ {0} /\ t.status \in [0 .. cap - 1 -> Status]
  BY DEF TableType, Tables
<1> HIDE DEF cap
<1>2. IsFiniteSet(0 .. cap - 1) /\ Cardinality(0 .. cap - 1) = cap
  <2>1. 0 \in Int /\ cap - 1 \in Int /\ ~ (0 > cap - 1) /\ (cap - 1) - 0 + 1 = cap
    BY <1>1
  <2> QED
    BY <2>1, FS_Interval
<1>3. /\ Bucket(t) = 0 .. cap - 1
      /\ Occupied(t) \subseteq 0 .. cap - 1
      /\ Deleted(t) \subseteq 0 .. cap - 1
      /\ Empty(t) \subseteq 0 .. cap - 1
  BY DEF Bucket, Occupied, Deleted, Empty, cap
<1>4. 0 .. cap - 1 = (Occupied(t) \cup Deleted(t)) \cup Empty(t)
  BY <1>1, <1>3 DEF Occupied, Deleted, Empty, Status
<1>5. /\ Occupied(t) \cap Deleted(t) = {}
      /\ (Occupied(t) \cup Deleted(t)) \cap Empty(t) = {}
  BY DEF Occupied, Deleted, Empty
<1>6. /\ IsFiniteSet(Occupied(t)) /\ IsFiniteSet(Deleted(t)) /\ IsFiniteSet(Empty(t))
      /\ Cardinality(Occupied(t)) \in Nat /\ Cardinality(Deleted(t)) \in Nat
      /\ Cardinality(Empty(t)) \in Nat
  BY <1>2, <1>3, FS_Subset, FS_CardinalityType
<1>7. /\ IsFiniteSet(Occupied(t) \cup Deleted(t))
      /\ Cardinality(Occupied(t) \cup Deleted(t)) =
           Cardinality(Occupied(t)) + Cardinality(Deleted(t))
             - Cardinality(Occupied(t) \cap Deleted(t))
  BY <1>6, FS_Union
<1>8. Cardinality((Occupied(t) \cup Deleted(t)) \cup Empty(t)) =
        Cardinality(Occupied(t) \cup Deleted(t)) + Cardinality(Empty(t))
          - Cardinality((Occupied(t) \cup Deleted(t)) \cap Empty(t))
  BY <1>6, <1>7, FS_Union
<1>9. /\ Cardinality(Occupied(t) \cap Deleted(t)) = 0
      /\ Cardinality((Occupied(t) \cup Deleted(t)) \cap Empty(t)) = 0
  BY <1>5, FS_EmptySet
<1>10. Cardinality(Occupied(t)) + Cardinality(Deleted(t)) + Cardinality(Empty(t)) = cap
  <2>1. Cardinality((Occupied(t) \cup Deleted(t)) \cup Empty(t)) = cap
    BY <1>2, <1>4
  <2> QED
    BY <1>6, <1>7, <1>8, <1>9, <2>1
<1> QED
  BY <1>6, <1>10 DEF cap

\* A table in which a bucket is neither counted by len nor by tombstones has an
\* empty bucket.
LEMMA RoomEmpty ==
  ASSUME NEW t, TableType(t), Counters(t), t.len + t.tombstones < Capacity(t)
  PROVE  Empty(t) # {}
<1>1. Cardinality(Empty(t)) # 0
  BY BucketCount DEF Counters, TableType
<1> QED
  BY <1>1, FS_EmptySet

LEMMA LoadedEmpty ==
  ASSUME NEW t, TableType(t), Counters(t), Loaded(t)
  PROVE  Empty(t) # {}
<1>1. t.len \in Nat /\ t.tombstones \in Nat /\ Capacity(t) \in Nat \ {0}
  BY DEF TableType, Tables
<1>2. t.len + t.tombstones < Capacity(t)
  BY <1>1 DEF Loaded
<1> QED
  BY <1>2, RoomEmpty

(***************************************************************************)
(* Writing a bucket.                                                       *)
(***************************************************************************)
\* What is reached stays so while no bucket becomes empty.
LEMMA ReachedStays ==
  ASSUME HashType, NEW t, TableType(t), NEW u, Capacity(u) = Capacity(t),
         \A b \in Bucket(t) : t.status[b] # "EMPTY" => u.status[b] # "EMPTY",
         NEW k \in Keys, NEW s, Reached(t, k, s)
  PROVE  Reached(u, k, s)
<1>1. PICK i \in Bucket(t) : /\ Probe(t, k, i) = s
                             /\ \A j \in 0 .. i - 1 : t.status[Probe(t, k, j)] # "EMPTY"
  BY DEF Reached
<1>2. \A j \in 0 .. i - 1 : j \in Nat
  OBVIOUS
<1>3. \A j : Probe(u, k, j) = Probe(t, k, j)
  BY DEF Probe
<1>4. Bucket(u) = Bucket(t)
  BY DEF Bucket
<1> QED
  BY <1>1, <1>2, <1>3, <1>4, ProbeFacts DEF Reached

\* Fill, field by field.
LEMMA FillFields ==
  ASSUME NEW t, TableType(t), NEW s \in Bucket(t), NEW k, NEW v
  PROVE  LET u == Fill(t, s, k, v) IN
         /\ u = [status |-> [t.status EXCEPT ![s] = "OCCUPIED"],
                 key |-> [t.key EXCEPT ![s] = k], val |-> [t.val EXCEPT ![s] = v],
                 len |-> IF Holds(t, s, k) THEN t.len ELSE t.len + 1,
                 tombstones |-> IF ~ Holds(t, s, k) /\ t.status[s] = "TOMBSTONE"
                                THEN t.tombstones - 1 ELSE t.tombstones]
         /\ Capacity(u) = Capacity(t) /\ Bucket(u) = Bucket(t)
<1>1. t \in Tables(Capacity(t)) /\ s \in 0 .. Capacity(t) - 1
  BY DEF TableType, Bucket
<1>2. t = [status |-> t.status, key |-> t.key, val |-> t.val, len |-> t.len,
           tombstones |-> t.tombstones]
  BY <1>1 DEF Tables
<1>3. Fill(t, s, k, v) =
        [status |-> [t.status EXCEPT ![s] = "OCCUPIED"],
         key |-> [t.key EXCEPT ![s] = k], val |-> [t.val EXCEPT ![s] = v],
         len |-> IF Holds(t, s, k) THEN t.len ELSE t.len + 1,
         tombstones |-> IF ~ Holds(t, s, k) /\ t.status[s] = "TOMBSTONE"
                        THEN t.tombstones - 1 ELSE t.tombstones]
  <2> DEFINE u == Fill(t, s, k, v)
  <2>1. /\ u.status = [t.status EXCEPT ![s] = "OCCUPIED"]
        /\ u.key = [t.key EXCEPT ![s] = k] /\ u.val = [t.val EXCEPT ![s] = v]
    BY <1>1 DEF Fill, Tables
  <2>2. u.len = IF Holds(t, s, k) THEN t.len ELSE t.len + 1
    BY <1>1 DEF Fill, Tables
  <2>3. u.tombstones = IF ~ Holds(t, s, k) /\ t.status[s] = "TOMBSTONE"
                       THEN t.tombstones - 1 ELSE t.tombstones
    BY <1>1 DEF Fill, Tables
  <2>4. u = [status |-> u.status, key |-> u.key, val |-> u.val, len |-> u.len,
             tombstones |-> u.tombstones]
    <3>1. ASSUME NEW a, NEW b, NEW c, NEW d, NEW e
          PROVE  [t EXCEPT !.status = a, !.key = b, !.val = c, !.len = d, !.tombstones = e]
                   = [status |-> a, key |-> b, val |-> c, len |-> d, tombstones |-> e]
      <4> DEFINE w == [t EXCEPT !.status = a, !.key = b, !.val = c, !.len = d,
                                !.tombstones = e]
      <4>1. w \in [status : {a}, key : {b}, val : {c}, len : {d}, tombstones : {e}]
        BY <1>1 DEF Tables
      <4> HIDE DEF w
      <4>2. w = [status |-> a, key |-> b, val |-> c, len |-> d, tombstones |-> e]
        BY <4>1
      <4> QED
        BY <4>2 DEF w
    <3>2. u = [t EXCEPT
                 !.status = [t.status EXCEPT ![s] = "OCCUPIED"],
                 !.key = [t.key EXCEPT ![s] = k], !.val = [t.val EXCEPT ![s] = v],
                 !.len = IF ~ Holds(t, s, k) THEN t.len + 1 ELSE t.len,
                 !.tombstones = IF ~ Holds(t, s, k) /\ t.status[s] = "TOMBSTONE"
                                THEN t.tombstones - 1 ELSE t.tombstones]
      BY DEF Fill
    <3> QED
      BY <3>1, <3>2
  <2> QED
    BY <2>1, <2>2, <2>3, <2>4
<1>4. DOMAIN Fill(t, s, k, v).status = DOMAIN t.status
  BY <1>3
<1> QED
  BY <1>3, <1>4 DEF Capacity, Bucket

\* A write of a key into the bucket find_insert_slot chose.
LEMMA FillFacts ==
  ASSUME HashType, NEW t, Sound(t), Empty(t) # {},
         NEW k \in Keys, NEW v \in Values \cup {None}
  PROVE  LET s == FindInsertSlot(t, k)
             u == Fill(t, s, k, v)
         IN  /\ Sound(u)
             /\ Capacity(u) = Capacity(t) /\ Bucket(u) = Bucket(t)
             /\ s \in Bucket(t) /\ Occupied(u) = Occupied(t) \cup {s}
             /\ u.key[s] = k /\ u.val[s] = v
             /\ \A r \in Occupied(t) : r # s =>
                  u.key[r] = t.key[r] /\ u.val[r] = t.val[r] /\ t.key[r] # k
             /\ u.len + u.tombstones <= t.len + t.tombstones + 1
             /\ u.tombstones <= t.tombstones
             /\ Holds(t, s, k) <=> s \in Occupied(t)
             /\ u.len = IF s \in Occupied(t) THEN t.len ELSE t.len + 1
<1> DEFINE s == FindInsertSlot(t, k)
           u == Fill(t, s, k, v)
<1>0. TableType(t) /\ Keyed(t) /\ Counters(t)
  BY DEF Sound
<1>1. /\ s \in Bucket(t)
      /\ s \notin Occupied(t) => Reached(t, k, s)
      /\ s \in Occupied(t) => t.key[s] = k
      /\ s \notin Occupied(t) => \A r \in Occupied(t) : t.key[r] # k
  <2>1. CASE Lookup(t, k) # NoSlot
    BY <1>0, <2>1, FindFacts, LookupFacts DEF Occupied
  <2>2. CASE Lookup(t, k) = NoSlot
    BY <1>0, <2>2, FindFacts, LookupFacts
  <2> QED
    BY <2>1, <2>2
<1> HIDE DEF s
<1>2. Holds(t, s, k) <=> s \in Occupied(t)
  BY <1>1 DEF Holds, Occupied
<1>3. /\ u.status = [t.status EXCEPT ![s] = "OCCUPIED"]
      /\ u.key = [t.key EXCEPT ![s] = k] /\ u.val = [t.val EXCEPT ![s] = v]
      /\ u.len = IF s \in Occupied(t) THEN t.len ELSE t.len + 1
      /\ u.tombstones = IF s \notin Occupied(t) /\ t.status[s] = "TOMBSTONE"
                        THEN t.tombstones - 1 ELSE t.tombstones
      /\ u = [status |-> u.status, key |-> u.key, val |-> u.val, len |-> u.len,
              tombstones |-> u.tombstones]
      /\ Capacity(u) = Capacity(t) /\ Bucket(u) = Bucket(t)
  BY <1>0, <1>1, <1>2, FillFields
<1>4. /\ t.status \in [Bucket(t) -> Status] /\ t.len \in Nat /\ t.tombstones \in Nat
      /\ t.key \in [Bucket(t) -> Keys \cup {None}]
      /\ t.val \in [Bucket(t) -> Values \cup {None}]
      /\ Capacity(t) \in Nat \ {0}
  BY <1>0 DEF TableType, Tables, Bucket
<1> HIDE DEF u
<1>5. /\ u.status[s] = "OCCUPIED" /\ u.key[s] = k /\ u.val[s] = v
      /\ \A r \in Bucket(t) : r # s => /\ u.status[r] = t.status[r]
                                       /\ u.key[r] = t.key[r] /\ u.val[r] = t.val[r]
  <2>1. s \in Bucket(t) /\ s \in DOMAIN t.status /\ s \in DOMAIN t.key /\ s \in DOMAIN t.val
    BY <1>1, <1>4
  <2>2. \A r \in Bucket(t) : r \in DOMAIN t.status /\ r \in DOMAIN t.key /\ r \in DOMAIN t.val
    BY <1>4
  <2> QED
    BY <1>3, <2>1, <2>2
<1>6. /\ Occupied(u) = Occupied(t) \cup {s}
      /\ Deleted(u) = Deleted(t) \ {s}
  <2>1. Bucket(u) = Bucket(t) /\ s \in Bucket(t)
    BY <1>1, <1>3, Zenon
  <2>2. /\ u.status[s] = "OCCUPIED"
        /\ \A r \in Bucket(t) : r # s => u.status[r] = t.status[r]
    BY <1>5, Zenon
  <2> QED
    BY <2>1, <2>2 DEF Occupied, Deleted
<1>7. /\ Cardinality(Occupied(u)) =
           IF s \in Occupied(t) THEN Cardinality(Occupied(t))
           ELSE Cardinality(Occupied(t)) + 1
      /\ Cardinality(Deleted(u)) =
           IF s \in Deleted(t) THEN Cardinality(Deleted(t)) - 1
           ELSE Cardinality(Deleted(t))
      /\ Cardinality(Deleted(u)) \in Nat
  <2>1. IsFiniteSet(Occupied(t)) /\ IsFiniteSet(Deleted(t))
    BY <1>0, BucketCount
  <2>2. IsFiniteSet(Deleted(u))
    BY <1>6, <2>1, FS_RemoveElement
  <2>3. Cardinality(Deleted(u)) \in Nat
    BY <2>2, FS_CardinalityType
  <2>4. /\ Cardinality(Occupied(t) \cup {s}) =
             IF s \in Occupied(t) THEN Cardinality(Occupied(t))
             ELSE Cardinality(Occupied(t)) + 1
        /\ Cardinality(Deleted(t) \ {s}) =
             IF s \in Deleted(t) THEN Cardinality(Deleted(t)) - 1
             ELSE Cardinality(Deleted(t))
    BY <2>1, FS_AddElement, FS_RemoveElement
  <2> QED
    BY <1>6, <2>3, <2>4, Zenon
<1>8. s \in Deleted(t) <=> s \notin Occupied(t) /\ t.status[s] = "TOMBSTONE"
  BY <1>1 DEF Deleted, Occupied
<1>9. Counters(u) /\ u.tombstones \in Nat /\ u.len \in Nat
  <2>1. /\ u.len = IF s \in Occupied(t) THEN t.len ELSE t.len + 1
        /\ u.tombstones = IF s \notin Occupied(t) /\ t.status[s] = "TOMBSTONE"
                          THEN t.tombstones - 1 ELSE t.tombstones
    BY <1>3, Zenon
  <2>2. t.len \in Nat /\ t.tombstones \in Nat
    BY <1>4, Zenon
  <2>3. t.len = Cardinality(Occupied(t)) /\ t.tombstones = Cardinality(Deleted(t))
    BY <1>0, Zenon DEF Counters
  <2> QED
    BY <1>7, <1>8, <2>1, <2>2, <2>3 DEF Counters
<1>10. TableType(u)
  <2>1. /\ u.status \in [Bucket(t) -> Status]
        /\ u.key \in [Bucket(t) -> Keys \cup {None}]
        /\ u.val \in [Bucket(t) -> Values \cup {None}]
    <3>1. "OCCUPIED" \in Status
      BY DEF Status
    <3>2. u.status \in [Bucket(t) -> Status]
      <4>1. u.status = [t.status EXCEPT ![s] = "OCCUPIED"] /\ t.status \in [Bucket(t) -> Status]
        BY <1>3, <1>4, Zenon
      <4> QED
        BY <3>1, <4>1
    <3>3. u.key = [t.key EXCEPT ![s] = k] /\ u.val = [t.val EXCEPT ![s] = v]
      BY <1>3, Zenon
    <3>4. /\ t.key \in [Bucket(t) -> Keys \cup {None}] /\ t.val \in [Bucket(t) -> Values \cup {None}]
      BY <1>4, Zenon
    <3>5. u.key \in [Bucket(t) -> Keys \cup {None}] /\ u.val \in [Bucket(t) -> Values \cup {None}]
      BY <3>3, <3>4
    <3> QED
      BY <3>2, <3>5
  <2>2. u \in Tables(Capacity(t))
    BY <1>3, <1>9, <2>1 DEF Tables, Bucket
  <2>3. \A r \in Occupied(u) : u.key[r] \in Keys
    BY <1>0, <1>5, <1>6 DEF TableType, Occupied
  <2> QED
    BY <1>3, <1>4, <2>2, <2>3 DEF TableType
<1>11. Keyed(u)
  <2>1. \A b \in Bucket(t) : t.status[b] # "EMPTY" => u.status[b] # "EMPTY"
    BY <1>5
  <2>2. ASSUME NEW r \in Occupied(u) PROVE Reached(u, u.key[r], r)
    <3>1. u.key[r] \in Keys
      BY <1>10, <2>2 DEF TableType
    <3>2. CASE r = s
      <4>1. Reached(t, k, s)
        BY <1>0, <1>1 DEF Keyed
      <4> QED
        BY <1>0, <1>3, <1>5, <2>1, <3>2, <4>1, ReachedStays
    <3>3. CASE r # s
      <4>1. r \in Occupied(t) /\ u.key[r] = t.key[r] /\ Reached(t, t.key[r], r)
        BY <1>0, <1>5, <1>6, <2>2, <3>3 DEF Keyed, Occupied
      <4> QED
        BY <1>0, <1>3, <2>1, <3>1, <4>1, ReachedStays
    <3> QED
      BY <3>2, <3>3
  <2>3. ASSUME NEW q \in Occupied(u), NEW r \in Occupied(u), u.key[q] = u.key[r]
        PROVE  q = r
    <3>1. \A b \in Occupied(t) : b # s => u.key[b] = t.key[b] /\ u.key[b] # k
      BY <1>0, <1>1, <1>5 DEF Keyed, Occupied
    <3> QED
      BY <1>0, <1>5, <1>6, <2>3, <3>1 DEF Keyed
  <2> QED
    BY <2>2, <2>3 DEF Keyed
<1>12. \A r \in Occupied(t) : r # s =>
         u.key[r] = t.key[r] /\ u.val[r] = t.val[r] /\ t.key[r] # k
  BY <1>0, <1>1, <1>5 DEF Keyed, Occupied
<1>13. u.len + u.tombstones <= t.len + t.tombstones + 1 /\ u.tombstones <= t.tombstones
  BY <1>3, <1>4
<1>14. Sound(u)
  BY <1>9, <1>10, <1>11 DEF Sound
<1> QED
  BY <1>1, <1>2, <1>3, <1>5, <1>6, <1>12, <1>13, <1>14 DEF s, u

(***************************************************************************)
(* A new table, and the copy of a table into one of twice the size.        *)
(***************************************************************************)
LEMMA FreshFacts ==
  ASSUME NEW cap \in Nat \ {0}
  PROVE  LET f == Fresh(cap) IN
         /\ Capacity(f) = cap /\ Occupied(f) = {}
         /\ f.len = 0 /\ f.tombstones = 0
         /\ Sound(f) /\ Loaded(f)
<1> DEFINE f == Fresh(cap)
<1>1. /\ f \in Tables(cap) /\ f.len = 0 /\ f.tombstones = 0
      /\ DOMAIN f.status = 0 .. cap - 1
      /\ \A s \in 0 .. cap - 1 : f.status[s] = "EMPTY"
  BY DEF Fresh, Tables, Status
<1>2. Capacity(f) = cap
  <2>1. 0 \in Int /\ cap - 1 \in Int /\ ~ (0 > cap - 1) /\ (cap - 1) - 0 + 1 = cap
    OBVIOUS
  <2>2. Cardinality(0 .. cap - 1) = cap
    BY <2>1, FS_Interval
  <2> QED
    BY <1>1, <2>2 DEF Capacity
<1>3. Occupied(f) = {} /\ Deleted(f) = {}
  BY <1>1, <1>2 DEF Occupied, Deleted, Bucket
<1> HIDE DEF f
<1>4. TableType(f) /\ Keyed(f) /\ Counters(f)
  BY <1>1, <1>2, <1>3, FS_EmptySet DEF TableType, Keyed, Counters
<1>5. Loaded(f)
  BY <1>1, <1>2 DEF Loaded
<1> QED
  BY <1>1, <1>2, <1>3, <1>4, <1>5 DEF Sound, f

\* Step i of resize: bucket i - 1 is inserted into the new table c.
CopyStep(t, c, i) ==
  IF t.status[i - 1] = "OCCUPIED"
  THEN Fill(c, FindInsertSlot(c, t.key[i - 1]), t.key[i - 1], t.val[i - 1])
  ELSE c

Copies(t) ==
  CHOOSE f : f = [i \in 0 .. Capacity(t) |->
                    IF i = 0 THEN Fresh(2 * Capacity(t)) ELSE CopyStep(t, f[i - 1], i)]

LEMMA ResizeCopies == \A t : Resize(t) = Copies(t)[Capacity(t)]
BY DEF Resize, Copies, CopyStep

LEMMA CopiesSteps ==
  ASSUME NEW t, Capacity(t) \in Nat
  PROVE  /\ Copies(t)[0] = Fresh(2 * Capacity(t))
         /\ \A i \in 1 .. Capacity(t) :
              Copies(t)[i] = CopyStep(t, Copies(t)[i - 1], i)
<1> DEFINE base == Fresh(2 * Capacity(t))
           Graph(f, n) == f = [i \in 0 .. n |->
                                 IF i = 0 THEN base ELSE CopyStep(t, f[i - 1], i)]
           Bad == {n \in Nat : ~ \E f : Graph(f, n)}
<1>1. Bad = {}
  <2> SUFFICES ASSUME Bad # {} PROVE FALSE
    OBVIOUS
  <2> DEFINE n == Min(Bad)
  <2>1. n \in Bad /\ \A m \in Bad : n <= m
    BY MinFacts
  <2>2. n \in Nat
    BY <2>1
  <2> HIDE DEF n
  <2>3. CASE n = 0
    <3>1. Graph([i \in 0 .. 0 |-> base], 0)
      OBVIOUS
    <3> QED
      BY <2>1, <2>3, <3>1
  <2>4. CASE n # 0
    <3>1. n - 1 \in Nat /\ n - 1 \notin Bad
      <4>1. n - 1 \in Nat /\ ~ (n <= n - 1)
        BY <2>2, <2>4
      <4> QED
        BY <2>1, <4>1, Zenon
    <3>2. PICK f : Graph(f, n - 1)
      BY <3>1
    <3> DEFINE g == [i \in 0 .. n |-> IF i < n THEN f[i] ELSE CopyStep(t, f[n - 1], n)]
    <3>3. /\ DOMAIN g = 0 .. n
          /\ \A i \in 0 .. n : g[i] = IF i = 0 THEN base ELSE CopyStep(t, g[i - 1], i)
      <4>1. ASSUME NEW i \in 0 .. n
            PROVE  g[i] = IF i = 0 THEN base ELSE CopyStep(t, g[i - 1], i)
        <5>1. CASE i < n
          <6>1. i \in 0 .. n - 1 /\ g[i] = f[i] /\ (i # 0 => g[i - 1] = f[i - 1])
            BY <2>2, <5>1
          <6> HIDE DEF g, base
          <6> QED
            BY <3>2, <6>1
        <5>2. CASE i = n
          <6>1. g[n] = CopyStep(t, f[n - 1], n) /\ g[n - 1] = f[n - 1]
            BY <2>2, <2>4
          <6> HIDE DEF g, base
          <6> QED
            BY <2>4, <5>2, <6>1
        <5> QED
          BY <2>2, <5>1, <5>2
      <4> QED
        BY <4>1
    <3> HIDE DEF base
    <3>4. g = [i \in 0 .. n |-> g[i]]
      OBVIOUS
    <3> HIDE DEF g
    <3>5. Graph(g, n)
      BY <3>3, <3>4
    <3> QED
      BY <2>1, <3>5
  <2> QED
    BY <2>3, <2>4
<1>2. \E f : Graph(f, Capacity(t))
  BY <1>1
<1>3. Graph(Copies(t), Capacity(t))
  BY <1>2 DEF Copies
<1> QED
  BY <1>3

\* An entry of a table, and one in its first i buckets.
Binds(t, k, v) == \E s \in Occupied(t) : t.key[s] = k /\ t.val[s] = v
Below(t, i) == {s \in Occupied(t) : s < i}
BindsBelow(t, i, k, v) == \E s \in Below(t, i) : t.key[s] = k /\ t.val[s] = v

LEMMA FillBinds ==
  ASSUME HashType, NEW t, Sound(t), Empty(t) # {},
         NEW k \in Keys, NEW v \in Values \cup {None}
  PROVE  \A kk, vv :
           Binds(Fill(t, FindInsertSlot(t, k), k, v), kk, vv) <=>
             \/ kk = k /\ vv = v
             \/ kk # k /\ Binds(t, kk, vv)
<1> DEFINE s == FindInsertSlot(t, k)
           u == Fill(t, s, k, v)
<1>1. /\ Occupied(u) = Occupied(t) \cup {s}
      /\ u.key[s] = k /\ u.val[s] = v
      /\ \A r \in Occupied(t) : r # s =>
           u.key[r] = t.key[r] /\ u.val[r] = t.val[r] /\ t.key[r] # k
      /\ s \in Occupied(t) => t.key[s] = k
  <2>1. Sound(t) => TableType(t) /\ Keyed(t)
    BY DEF Sound
  <2>2. s \in Occupied(t) => t.key[s] = k
    BY <2>1, FindFacts, LookupFacts
  <2> QED
    BY <2>2, FillFacts
<1> HIDE DEF s, u
<1>2. \A kk, vv : Binds(u, kk, vv) <=>
        (kk = k /\ vv = v) \/ (kk # k /\ Binds(t, kk, vv))
  BY <1>1 DEF Binds
<1> QED
  BY <1>2 DEF s, u

\* The new table after i steps of resize.
Copied(t, c, i) ==
  /\ Sound(c) /\ Capacity(c) = 2 * Capacity(t)
  /\ c.tombstones = 0 /\ c.len = Cardinality(Below(t, i))
  /\ \A k, v : Binds(c, k, v) <=> BindsBelow(t, i, k, v)

LEMMA BelowFacts ==
  ASSUME NEW t, TableType(t)
  PROVE  /\ Below(t, 0) = {} /\ Below(t, Capacity(t)) = Occupied(t)
         /\ \A i \in 1 .. Capacity(t) :
              /\ i - 1 \in Bucket(t)
              /\ Below(t, i) = IF t.status[i - 1] = "OCCUPIED"
                               THEN Below(t, i - 1) \cup {i - 1} ELSE Below(t, i - 1)
              /\ i - 1 \notin Below(t, i - 1)
         /\ \A i : /\ IsFiniteSet(Below(t, i)) /\ Cardinality(Below(t, i)) \in Nat
                   /\ Cardinality(Below(t, i)) <= Cardinality(Occupied(t))
<1>1. Capacity(t) \in Nat \ {0} /\ \A s \in Occupied(t) : s \in 0 .. Capacity(t) - 1
  <2>1. Capacity(t) \in Nat \ {0}
    BY DEF TableType
  <2> QED
    BY <2>1 DEF Occupied, Bucket
<1>2. Below(t, 0) = {} /\ Below(t, Capacity(t)) = Occupied(t)
  <2>1. \A s \in Occupied(t) : ~ (s < 0) /\ s < Capacity(t)
    BY <1>1
  <2> QED
    BY <2>1 DEF Below
<1>3. ASSUME NEW i \in 1 .. Capacity(t)
      PROVE  /\ i - 1 \in Bucket(t)
             /\ Below(t, i) = IF t.status[i - 1] = "OCCUPIED"
                              THEN Below(t, i - 1) \cup {i - 1} ELSE Below(t, i - 1)
             /\ i - 1 \notin Below(t, i - 1)
  <2>1. i - 1 \in Bucket(t) /\ ~ (i - 1 < i - 1) /\ i - 1 < i
    BY <1>1, <1>3 DEF Bucket
  <2>2. \A s \in Occupied(t) : s < i <=> s < i - 1 \/ s = i - 1
    BY <1>1, <1>3
  <2>3. i - 1 \in Occupied(t) <=> t.status[i - 1] = "OCCUPIED"
    BY <2>1 DEF Occupied
  <2> QED
    BY <2>1, <2>2, <2>3 DEF Below
<1>4. ASSUME NEW i
      PROVE  /\ IsFiniteSet(Below(t, i)) /\ Cardinality(Below(t, i)) \in Nat
             /\ Cardinality(Below(t, i)) <= Cardinality(Occupied(t))
  <2>1. Below(t, i) \subseteq Occupied(t)
    BY DEF Below
  <2> QED
    BY <2>1, BucketCount, FS_Subset, FS_CardinalityType
<1> QED
  BY <1>2, <1>3, <1>4

\* A step of resize inserts an entry the new table does not have, and finds a
\* place for it.
LEMMA CopyStepFacts ==
  ASSUME HashType, NEW t, Sound(t), NEW i \in 1 .. Capacity(t),
         NEW c, Copied(t, c, i - 1)
  PROVE  Copied(t, CopyStep(t, c, i), i)
<1>0. /\ TableType(t) /\ Keyed(t) /\ Capacity(t) \in Nat \ {0}
      /\ Sound(c) /\ TableType(c) /\ Keyed(c) /\ Counters(c)
      /\ Capacity(c) = 2 * Capacity(t)
      /\ c.tombstones = 0 /\ c.len = Cardinality(Below(t, i - 1))
      /\ \A k, v : Binds(c, k, v) <=> BindsBelow(t, i - 1, k, v)
  BY DEF Sound, TableType, Copied
<1>1. CASE t.status[i - 1] # "OCCUPIED"
  <2>1. Below(t, i) = Below(t, i - 1) /\ CopyStep(t, c, i) = c
    BY <1>0, <1>1, BelowFacts DEF CopyStep
  <2> QED
    BY <1>0, <2>1 DEF Copied, BindsBelow
<1>2. CASE t.status[i - 1] = "OCCUPIED"
  <2> DEFINE k == t.key[i - 1]
             v == t.val[i - 1]
             s == FindInsertSlot(c, k)
             u == Fill(c, s, k, v)
  <2>1. /\ i - 1 \in Occupied(t) /\ i - 1 \in Bucket(t)
        /\ Below(t, i) = Below(t, i - 1) \cup {i - 1} /\ i - 1 \notin Below(t, i - 1)
        /\ CopyStep(t, c, i) = u
    BY <1>0, <1>2, BelowFacts DEF CopyStep, Occupied
  <2>2. k \in Keys /\ v \in Values \cup {None}
    BY <1>0, <2>1 DEF TableType, Tables, Bucket
  <2>3. Empty(c) # {}
    <3>1. Cardinality(Below(t, i - 1)) <= Cardinality(Occupied(t))
          /\ Cardinality(Below(t, i - 1)) \in Nat
      BY <1>0, BelowFacts
    <3>2. Cardinality(Occupied(t)) <= Capacity(t) /\ Cardinality(Occupied(t)) \in Nat
      BY <1>0, BucketCount
    <3>3. c.len + c.tombstones < Capacity(c)
      BY <1>0, <3>1, <3>2
    <3> QED
      BY <1>0, <3>3, RoomEmpty
  <2>4. s \notin Occupied(c)
    <3>1. ASSUME s \in Occupied(c) PROVE FALSE
      <4>1. c.key[s] = k
        BY <1>0, <2>2, <2>3, <3>1, FindFacts, LookupFacts
      <4>2. Binds(c, k, c.val[s])
        BY <3>1, <4>1 DEF Binds
      <4>3. PICK r \in Below(t, i - 1) : t.key[r] = k
        BY <1>0, <4>2 DEF BindsBelow
      <4>4. r = i - 1
        BY <1>0, <2>1, <4>3 DEF Keyed, Below
      <4> QED
        BY <2>1, <4>3, <4>4
    <3> QED
      BY <3>1
  <2> HIDE DEF k, v, s, u
  <2>5. /\ Sound(u) /\ Capacity(u) = Capacity(c) /\ u.len = c.len + 1
        /\ u.tombstones <= c.tombstones
    BY <1>0, <2>2, <2>3, <2>4, FillFacts DEF s, u
  <2>6. u.tombstones = 0
    BY <1>0, <2>5 DEF Sound, TableType, Tables
  <2>7. u.len = Cardinality(Below(t, i))
    <3>1. IsFiniteSet(Below(t, i - 1))
      BY <1>0, BelowFacts
    <3>2. Cardinality(Below(t, i - 1) \cup {i - 1}) = Cardinality(Below(t, i - 1)) + 1
      BY <2>1, <3>1, FS_AddElement
    <3> QED
      BY <1>0, <2>1, <2>5, <3>2
  <2>8. \A kk, vv : Binds(u, kk, vv) <=>
          (kk = k /\ vv = v) \/ (kk # k /\ BindsBelow(t, i - 1, kk, vv))
    BY <1>0, <2>2, <2>3, FillBinds DEF s, u
  <2>9. \A kk, vv : BindsBelow(t, i, kk, vv) <=>
          (kk = k /\ vv = v) \/ BindsBelow(t, i - 1, kk, vv)
    BY <2>1 DEF BindsBelow, k, v
  <2>10. \A vv : ~ BindsBelow(t, i - 1, k, vv)
    <3>1. \A r \in Below(t, i - 1) : r \in Occupied(t) /\ r # i - 1
      BY <2>1 DEF Below
    <3> QED
      BY <1>0, <2>1, <3>1 DEF BindsBelow, Keyed, k
  <2>11. \A kk, vv : Binds(u, kk, vv) <=> BindsBelow(t, i, kk, vv)
    BY <2>8, <2>9, <2>10
  <2> QED
    BY <1>0, <2>1, <2>5, <2>6, <2>7, <2>11 DEF Copied
<1> QED
  BY <1>1, <1>2

LEMMA CopiesCopied ==
  ASSUME HashType, NEW t, Sound(t)
  PROVE  \A i \in 0 .. Capacity(t) : Copied(t, Copies(t)[i], i)
<1>0. TableType(t) /\ Capacity(t) \in Nat \ {0}
  BY DEF Sound, TableType
<1> DEFINE Bad == {i \in 0 .. Capacity(t) : ~ Copied(t, Copies(t)[i], i)}
<1> SUFFICES ASSUME Bad # {} PROVE FALSE
  OBVIOUS
<1> DEFINE n == Min(Bad)
<1>1. n \in Bad /\ \A m \in Bad : n <= m
  <2>1. \A i \in 0 .. Capacity(t) : i \in Nat
    BY <1>0
  <2>2. Bad \subseteq Nat
    BY <2>1, Zenon
  <2> QED
    BY <2>2, MinFacts
<1>2. n \in 0 .. Capacity(t) /\ ~ Copied(t, Copies(t)[n], n)
  BY <1>1
<1> HIDE DEF n
<1>3. CASE n = 0
  <2>1. Copies(t)[0] = Fresh(2 * Capacity(t)) /\ 2 * Capacity(t) \in Nat \ {0}
    BY <1>0, CopiesSteps
  <2>2. Copied(t, Fresh(2 * Capacity(t)), 0)
    <3>1. /\ Below(t, 0) = {} /\ Cardinality(Below(t, 0)) = 0
      BY <1>0, BelowFacts, FS_EmptySet
    <3>2. LET f == Fresh(2 * Capacity(t)) IN
            /\ Sound(f) /\ Capacity(f) = 2 * Capacity(t) /\ Occupied(f) = {}
            /\ f.len = 0 /\ f.tombstones = 0
      BY <2>1, FreshFacts
    <3> QED
      BY <3>1, <3>2 DEF Copied, Binds, BindsBelow
  <2> QED
    BY <1>2, <1>3, <2>1, <2>2
<1>4. CASE n # 0
  <2>1. n \in 1 .. Capacity(t) /\ n - 1 \in 0 .. Capacity(t) /\ ~ (n <= n - 1)
    BY <1>0, <1>2, <1>4
  <2>2. Copied(t, Copies(t)[n - 1], n - 1)
    BY <1>1, <2>1
  <2>3. Copies(t)[n] = CopyStep(t, Copies(t)[n - 1], n)
    BY <1>0, <2>1, CopiesSteps
  <2>4. Copied(t, CopyStep(t, Copies(t)[n - 1], n), n)
    BY <2>1, <2>2, CopyStepFacts
  <2> QED
    BY <1>2, <2>3, <2>4
<1> QED
  BY <1>3, <1>4

\* resize leaves the entries, and no tombstone.
LEMMA ResizeFacts ==
  ASSUME HashType, NEW t, Sound(t)
  PROVE  /\ Sound(Resize(t)) /\ Capacity(Resize(t)) = 2 * Capacity(t)
         /\ Resize(t).tombstones = 0 /\ Resize(t).len = t.len
         /\ \A k, v : Binds(Resize(t), k, v) <=> Binds(t, k, v)
<1>0. TableType(t) /\ Counters(t) /\ Capacity(t) \in Nat \ {0}
  BY DEF Sound, TableType
<1>1. Copied(t, Resize(t), Capacity(t))
  BY <1>0, CopiesCopied, ResizeCopies
<1>2. Below(t, Capacity(t)) = Occupied(t)
  BY <1>0, BelowFacts
<1> QED
  BY <1>0, <1>1, <1>2 DEF Copied, Counters, Binds, BindsBelow

\* The test that insert makes inside resize cannot fire: resize is not re-entered.
LEMMA ResizeNotReentered ==
  ASSUME HashType, NEW t, Sound(t), Loaded(t),
         NEW i \in 1 .. Capacity(t), t.status[i - 1] = "OCCUPIED"
  PROVE  ~ Overloaded(Copies(t)[i - 1])
<1> DEFINE c == Copies(t)[i - 1]
<1>0. /\ TableType(t) /\ Counters(t) /\ Capacity(t) \in Nat \ {0}
      /\ t.len \in Nat /\ t.tombstones \in Nat
  BY DEF Sound, TableType, Tables
<1>1. i - 1 \in 0 .. Capacity(t)
  BY <1>0
<1>2. /\ Capacity(c) = 2 * Capacity(t) /\ c.tombstones = 0
      /\ c.len = Cardinality(Below(t, i - 1))
  BY <1>1, CopiesCopied DEF Copied
<1>3. /\ Below(t, i) = Below(t, i - 1) \cup {i - 1}
      /\ i - 1 \notin Below(t, i - 1)
      /\ IsFiniteSet(Below(t, i - 1)) /\ Cardinality(Below(t, i - 1)) \in Nat
      /\ Cardinality(Below(t, i)) <= Cardinality(Occupied(t))
  BY <1>0, BelowFacts
<1>4. Cardinality(Below(t, i - 1) \cup {i - 1}) = Cardinality(Below(t, i - 1)) + 1
  BY <1>3, FS_AddElement
<1>5. c.len + 1 <= t.len /\ c.len \in Nat
  BY <1>0, <1>2, <1>3, <1>4 DEF Counters
<1> HIDE DEF c
<1>6. ~ Overloaded(c)
  BY <1>0, <1>2, <1>5 DEF Loaded, Overloaded
<1> QED
  BY <1>6 DEF c

\* The table an insertion writes into has room for one more key.
LEMMA PreparedFacts ==
  ASSUME HashType, NEW t, Sound(t), Loaded(t)
  PROVE  LET p == Prepared(t) IN
         /\ Sound(p) /\ Loaded(p) /\ ~ Overloaded(p) /\ Empty(p) # {}
         /\ p.len = t.len
         /\ \A k, v : Binds(p, k, v) <=> Binds(t, k, v)
<1> DEFINE p == Prepared(t)
<1>0. /\ TableType(t) /\ Capacity(t) \in Nat \ {0}
      /\ t.len \in Nat /\ t.tombstones \in Nat
  BY DEF Sound, TableType, Tables
<1>1. CASE Overloaded(t)
  <2>1. p = Resize(t)
    BY <1>1 DEF Prepared
  <2>2. /\ Sound(p) /\ Capacity(p) = 2 * Capacity(t) /\ p.tombstones = 0 /\ p.len = t.len
        /\ \A k, v : Binds(p, k, v) <=> Binds(t, k, v)
    BY <2>1, ResizeFacts
  <2>3. t.len * 4 <= Capacity(t) * 3
    BY <1>0 DEF Loaded
  <2>4. ~ Overloaded(p) /\ Loaded(p)
    BY <1>0, <2>2, <2>3 DEF Overloaded, Loaded
  <2>5. Empty(p) # {}
    BY <2>2, <2>4, LoadedEmpty DEF Sound
  <2> QED
    BY <2>2, <2>4, <2>5
<1>2. CASE ~ Overloaded(t)
  <2>1. p = t
    BY <1>2 DEF Prepared
  <2>2. Empty(t) # {}
    BY LoadedEmpty DEF Sound
  <2> QED
    BY <1>2, <2>1, <2>2
<1> QED
  BY <1>1, <1>2

\* An insertion binds the key and leaves the other entries.
LEMMA InsertedFacts ==
  ASSUME HashType, NEW t, Sound(t), Loaded(t),
         NEW k \in Keys, NEW v \in Values \cup {None}
  PROVE  LET u == Inserted(t, k, v) IN
         /\ Sound(u) /\ Loaded(u)
         /\ \A kk, vv : Binds(u, kk, vv) <=>
              (kk = k /\ vv = v) \/ (kk # k /\ Binds(t, kk, vv))
<1> DEFINE p == Prepared(t)
           u == Inserted(t, k, v)
<1>1. /\ Sound(p) /\ ~ Overloaded(p) /\ Empty(p) # {}
      /\ \A kk, vv : Binds(p, kk, vv) <=> Binds(t, kk, vv)
  BY PreparedFacts
<1>2. u = Fill(p, FindInsertSlot(p, k), k, v)
  BY DEF Inserted
<1> HIDE DEF p, u
<1>3. /\ Sound(u) /\ Capacity(u) = Capacity(p)
      /\ u.len + u.tombstones <= p.len + p.tombstones + 1
  BY <1>1, <1>2, FillFacts
<1>4. /\ p.len \in Nat /\ p.tombstones \in Nat /\ u.len \in Nat /\ u.tombstones \in Nat
      /\ Capacity(p) \in Nat
  BY <1>1, <1>3 DEF Sound, TableType, Tables
<1>5. Loaded(u)
  BY <1>1, <1>3, <1>4 DEF Overloaded, Loaded
<1>6. \A kk, vv : Binds(u, kk, vv) <=>
        (kk = k /\ vv = v) \/ (kk # k /\ Binds(t, kk, vv))
  BY <1>1, <1>2, FillBinds
<1> QED
  BY <1>3, <1>5, <1>6 DEF u

\* A value written into an occupied bucket.
LEMMA ValueFacts ==
  ASSUME HashType, NEW t, Sound(t), NEW s \in Occupied(t), NEW v \in Values \cup {None}
  PROVE  LET u == [t EXCEPT !.val[s] = v] IN
         /\ Sound(u) /\ (Loaded(t) => Loaded(u))
         /\ Occupied(u) = Occupied(t) /\ Bucket(u) = Bucket(t) /\ Capacity(u) = Capacity(t)
         /\ u.key = t.key /\ u.val = [t.val EXCEPT ![s] = v] /\ u.len = t.len
         /\ u.status = t.status
<1> DEFINE u == [t EXCEPT !.val[s] = v]
<1>0. /\ TableType(t) /\ Keyed(t) /\ Counters(t) /\ t \in Tables(Capacity(t))
      /\ s \in 0 .. Capacity(t) - 1
  BY DEF Sound, TableType, Occupied, Bucket
<1>1. /\ u \in Tables(Capacity(t)) /\ u.status = t.status /\ u.key = t.key
      /\ u.val = [t.val EXCEPT ![s] = v] /\ u.len = t.len /\ u.tombstones = t.tombstones
  BY <1>0 DEF Tables
<1> HIDE DEF u
<1>2. Capacity(u) = Capacity(t)
  BY <1>1 DEF Capacity
<1>3. Bucket(u) = Bucket(t) /\ Occupied(u) = Occupied(t) /\ Deleted(u) = Deleted(t)
  BY <1>1, <1>2 DEF Bucket, Occupied, Deleted
<1>4. TableType(u)
  BY <1>0, <1>1, <1>2, <1>3 DEF TableType
<1>5. Keyed(u)
  <2>1. \A r \in Occupied(u) : Reached(u, u.key[r], r)
    BY <1>0, <1>1, <1>2, <1>3, ReachedStays DEF Keyed, TableType
  <2> QED
    BY <1>0, <1>1, <1>3, <2>1 DEF Keyed
<1>6. Counters(u) /\ (Loaded(t) => Loaded(u))
  BY <1>0, <1>1, <1>2, <1>3 DEF Counters, Loaded
<1> QED
  BY <1>1, <1>2, <1>3, <1>4, <1>5, <1>6 DEF Sound, u

\* remove leaves a tombstone, which searches pass.
RemovedAt(t, s) ==
  [t EXCEPT !.status[s] = "TOMBSTONE", !.key[s] = None, !.val[s] = None,
            !.len = @ - 1, !.tombstones = @ + 1]

LEMMA RemovedFacts ==
  ASSUME HashType, NEW t, Sound(t), Loaded(t), NEW s \in Occupied(t)
  PROVE  LET u == RemovedAt(t, s) IN
             /\ Sound(u) /\ Loaded(u) /\ Capacity(u) = Capacity(t)
             /\ Occupied(u) = Occupied(t) \ {s} /\ u.len = t.len - 1
             /\ \A r \in Occupied(u) : u.key[r] = t.key[r] /\ u.val[r] = t.val[r]
<1> DEFINE u == RemovedAt(t, s)
<1>0. /\ TableType(t) /\ Keyed(t) /\ Counters(t) /\ t \in Tables(Capacity(t))
      /\ s \in 0 .. Capacity(t) - 1 /\ Capacity(t) \in Nat \ {0}
      /\ t.len \in Nat /\ t.tombstones \in Nat /\ s \in Bucket(t)
  BY DEF Sound, TableType, Tables, Occupied, Bucket
<1>1. t.len # 0
  BY <1>0, BucketCount, FS_EmptySet DEF Counters
<1>2. /\ u.status = [t.status EXCEPT ![s] = "TOMBSTONE"]
      /\ u.key = [t.key EXCEPT ![s] = None] /\ u.val = [t.val EXCEPT ![s] = None]
  BY <1>0 DEF Tables, RemovedAt
<1>3. u.len = t.len - 1 /\ u.tombstones = t.tombstones + 1
  BY <1>0 DEF Tables, RemovedAt
<1>4. u \in Tables(Capacity(t))
  <2>1. /\ [t.status EXCEPT ![s] = "TOMBSTONE"] \in [0 .. Capacity(t) - 1 -> Status]
        /\ [t.key EXCEPT ![s] = None] \in [0 .. Capacity(t) - 1 -> Keys \cup {None}]
        /\ [t.val EXCEPT ![s] = None] \in [0 .. Capacity(t) - 1 -> Values \cup {None}]
        /\ t.len - 1 \in Nat /\ t.tombstones + 1 \in Nat
    BY <1>0, <1>1 DEF Tables, Status
  <2> QED
    BY <1>0, <2>1 DEF Tables, RemovedAt
<1> HIDE DEF u
<1>5. Capacity(u) = Capacity(t) /\ Bucket(u) = Bucket(t)
  <2>1. DOMAIN u.status = DOMAIN t.status
    BY <1>2
  <2> QED
    BY <2>1 DEF Capacity, Bucket
<1>6. /\ u.status[s] = "TOMBSTONE"
      /\ \A r \in Bucket(t) : r # s => /\ u.status[r] = t.status[r]
                                       /\ u.key[r] = t.key[r] /\ u.val[r] = t.val[r]
  BY <1>0, <1>2 DEF Tables, Bucket
<1>7. Occupied(u) = Occupied(t) \ {s} /\ Deleted(u) = Deleted(t) \cup {s}
      /\ s \notin Deleted(t)
  BY <1>0, <1>5, <1>6 DEF Occupied, Deleted
<1>8. Counters(u)
  <2>1. IsFiniteSet(Occupied(t)) /\ IsFiniteSet(Deleted(t))
    BY <1>0, BucketCount
  <2>2. Cardinality(Occupied(t) \ {s}) = Cardinality(Occupied(t)) - 1
    BY <2>1, FS_RemoveElement
  <2>3. Cardinality(Deleted(t) \cup {s}) = Cardinality(Deleted(t)) + 1
    BY <1>7, <2>1, FS_AddElement
  <2> QED
    BY <1>0, <1>3, <1>7, <2>2, <2>3 DEF Counters
<1>9. \A r \in Occupied(u) : u.key[r] = t.key[r] /\ u.val[r] = t.val[r]
  BY <1>6, <1>7 DEF Occupied
<1>10. TableType(u)
  BY <1>0, <1>4, <1>5, <1>7, <1>9 DEF TableType
<1>11. Keyed(u)
  <2>1. \A b \in Bucket(t) : t.status[b] # "EMPTY" => u.status[b] # "EMPTY"
    BY <1>6
  <2>2. \A r \in Occupied(u) : Reached(u, u.key[r], r)
    BY <1>0, <1>5, <1>7, <1>9, <2>1, ReachedStays DEF Keyed, TableType
  <2> QED
    BY <1>0, <1>7, <1>9, <2>2 DEF Keyed
<1>12. Loaded(u)
  BY <1>0, <1>3, <1>5 DEF Loaded
<1> QED
  BY <1>3, <1>5, <1>7, <1>8, <1>9, <1>10, <1>11, <1>12 DEF Sound, u

(***************************************************************************)
(* clone: the entries inserted, in bucket order, into a new map.           *)
(***************************************************************************)
CloneStep(t, c, i) ==
  IF t.status[i - 1] = "OCCUPIED" THEN Inserted(c, t.key[i - 1], t.val[i - 1]) ELSE c

Clones(t) ==
  CHOOSE f : f = [i \in 0 .. Capacity(t) |->
                    IF i = 0 THEN Fresh(InitialCapacity) ELSE CloneStep(t, f[i - 1], i)]

LEMMA ClonesSteps ==
  ASSUME NEW t, Capacity(t) \in Nat
  PROVE  /\ Clones(t)[0] = Fresh(InitialCapacity)
         /\ \A i \in 1 .. Capacity(t) :
              Clones(t)[i] = CloneStep(t, Clones(t)[i - 1], i)
<1> DEFINE base == Fresh(InitialCapacity)
           Graph(f, n) == f = [i \in 0 .. n |->
                                 IF i = 0 THEN base ELSE CloneStep(t, f[i - 1], i)]
           Bad == {n \in Nat : ~ \E f : Graph(f, n)}
<1>1. Bad = {}
  <2> SUFFICES ASSUME Bad # {} PROVE FALSE
    OBVIOUS
  <2> DEFINE n == Min(Bad)
  <2>1. n \in Bad /\ \A m \in Bad : n <= m
    BY MinFacts
  <2>2. n \in Nat
    BY <2>1
  <2> HIDE DEF n
  <2>3. CASE n = 0
    <3>1. Graph([i \in 0 .. 0 |-> base], 0)
      OBVIOUS
    <3> QED
      BY <2>1, <2>3, <3>1
  <2>4. CASE n # 0
    <3>1. n - 1 \in Nat /\ n - 1 \notin Bad
      <4>1. n - 1 \in Nat /\ ~ (n <= n - 1)
        BY <2>2, <2>4
      <4> QED
        BY <2>1, <4>1, Zenon
    <3>2. PICK f : Graph(f, n - 1)
      BY <3>1
    <3> DEFINE g == [i \in 0 .. n |-> IF i < n THEN f[i] ELSE CloneStep(t, f[n - 1], n)]
    <3>3. /\ DOMAIN g = 0 .. n
          /\ \A i \in 0 .. n : g[i] = IF i = 0 THEN base ELSE CloneStep(t, g[i - 1], i)
      <4>1. ASSUME NEW i \in 0 .. n
            PROVE  g[i] = IF i = 0 THEN base ELSE CloneStep(t, g[i - 1], i)
        <5>1. CASE i < n
          <6>1. i \in 0 .. n - 1 /\ g[i] = f[i] /\ (i # 0 => g[i - 1] = f[i - 1])
            BY <2>2, <5>1
          <6> HIDE DEF g, base
          <6> QED
            BY <3>2, <6>1
        <5>2. CASE i = n
          <6>1. g[n] = CloneStep(t, f[n - 1], n) /\ g[n - 1] = f[n - 1]
            BY <2>2, <2>4
          <6> HIDE DEF g, base
          <6> QED
            BY <2>4, <5>2, <6>1
        <5> QED
          BY <2>2, <5>1, <5>2
      <4> QED
        BY <4>1
    <3> HIDE DEF base
    <3>4. g = [i \in 0 .. n |-> g[i]]
      OBVIOUS
    <3> HIDE DEF g
    <3>5. Graph(g, n)
      BY <3>3, <3>4
    <3> QED
      BY <2>1, <3>5
  <2> QED
    BY <2>3, <2>4
<1>2. \E f : Graph(f, Capacity(t))
  BY <1>1
<1>3. Graph(Clones(t), Capacity(t))
  BY <1>2 DEF Clones
<1> QED
  BY <1>3

\* The clone after i buckets of the original.
Cloned(t, c, i) ==
  /\ Sound(c) /\ Loaded(c)
  /\ \A k, v : Binds(c, k, v) <=> BindsBelow(t, i, k, v)

LEMMA ClonesCloned ==
  ASSUME HashType, NEW t, Sound(t)
  PROVE  \A i \in 0 .. Capacity(t) : Cloned(t, Clones(t)[i], i)
<1>0. TableType(t) /\ Keyed(t) /\ Capacity(t) \in Nat \ {0}
  BY DEF Sound, TableType
<1> DEFINE Bad == {i \in 0 .. Capacity(t) : ~ Cloned(t, Clones(t)[i], i)}
<1> SUFFICES ASSUME Bad # {} PROVE FALSE
  OBVIOUS
<1> DEFINE n == Min(Bad)
<1>1. n \in Bad /\ \A m \in Bad : n <= m
  <2>1. \A i \in 0 .. Capacity(t) : i \in Nat
    BY <1>0
  <2>2. Bad \subseteq Nat
    BY <2>1, Zenon
  <2> QED
    BY <2>2, MinFacts
<1>2. n \in 0 .. Capacity(t) /\ ~ Cloned(t, Clones(t)[n], n)
  BY <1>1
<1> HIDE DEF n
<1>3. CASE n = 0
  <2>1. Clones(t)[0] = Fresh(InitialCapacity) /\ InitialCapacity \in Nat \ {0}
    BY <1>0, ClonesSteps, CapacityAssumption
  <2>2. Cloned(t, Fresh(InitialCapacity), 0)
    <3>1. Below(t, 0) = {}
      BY <1>0, BelowFacts
    <3>2. LET f == Fresh(InitialCapacity) IN
            Sound(f) /\ Loaded(f) /\ Occupied(f) = {}
      BY <2>1, FreshFacts
    <3> QED
      BY <3>1, <3>2 DEF Cloned, Binds, BindsBelow
  <2> QED
    BY <1>2, <1>3, <2>1, <2>2
<1>4. CASE n # 0
  <2>1. n \in 1 .. Capacity(t) /\ n - 1 \in 0 .. Capacity(t) /\ ~ (n <= n - 1)
    BY <1>0, <1>2, <1>4
  <2> DEFINE c == Clones(t)[n - 1]
  <2>2. Cloned(t, c, n - 1)
    BY <1>1, <2>1
  <2>3. Clones(t)[n] = CloneStep(t, c, n)
    BY <1>0, <2>1, ClonesSteps
  <2> HIDE DEF c
  <2>4. CASE t.status[n - 1] # "OCCUPIED"
    <3>1. Below(t, n) = Below(t, n - 1)
      BY <1>0, <2>1, <2>4, BelowFacts
    <3> QED
      BY <1>2, <2>2, <2>3, <2>4, <3>1 DEF Cloned, CloneStep, BindsBelow
  <2>5. CASE t.status[n - 1] = "OCCUPIED"
    <3> DEFINE k == t.key[n - 1]
               v == t.val[n - 1]
               u == Inserted(c, k, v)
    <3>1. /\ n - 1 \in Occupied(t) /\ n - 1 \in Bucket(t)
          /\ Below(t, n) = Below(t, n - 1) \cup {n - 1} /\ n - 1 \notin Below(t, n - 1)
          /\ CloneStep(t, c, n) = u
      BY <1>0, <2>1, <2>5, BelowFacts DEF CloneStep, Occupied
    <3>2. k \in Keys /\ v \in Values \cup {None}
      BY <1>0, <3>1 DEF TableType, Tables, Bucket
    <3> HIDE DEF k, v, u
    <3>3. /\ Sound(u) /\ Loaded(u)
          /\ \A kk, vv : Binds(u, kk, vv) <=>
               (kk = k /\ vv = v) \/ (kk # k /\ BindsBelow(t, n - 1, kk, vv))
      BY <2>2, <3>2, InsertedFacts DEF Cloned, u
    <3>4. \A kk, vv : BindsBelow(t, n, kk, vv) <=>
            (kk = k /\ vv = v) \/ BindsBelow(t, n - 1, kk, vv)
      BY <3>1 DEF BindsBelow, k, v
    <3>5. \A vv : ~ BindsBelow(t, n - 1, k, vv)
      <4>1. \A r \in Below(t, n - 1) : r \in Occupied(t) /\ r # n - 1
        BY <3>1 DEF Below
      <4> QED
        BY <1>0, <3>1, <4>1 DEF BindsBelow, Keyed, k
    <3>6. Cloned(t, u, n)
      BY <3>3, <3>4, <3>5 DEF Cloned
    <3> QED
      BY <1>2, <2>3, <3>1, <3>6
  <2> QED
    BY <2>4, <2>5
<1> QED
  BY <1>3, <1>4

LEMMA CloneFacts ==
  ASSUME HashType, NEW t, Sound(t)
  PROVE  LET c == Clones(t)[Capacity(t)] IN
         /\ Sound(c) /\ Loaded(c)
         /\ \A k, v : Binds(c, k, v) <=> Binds(t, k, v)
<1>1. TableType(t) /\ Capacity(t) \in 0 .. Capacity(t)
  BY DEF Sound, TableType
<1>2. Cloned(t, Clones(t)[Capacity(t)], Capacity(t))
  BY <1>1, ClonesCloned
<1> QED
  BY <1>1, <1>2, BelowFacts DEF Cloned, Binds, BindsBelow

(***************************************************************************)
(* The probe loop the compiler emits finds what find_insert_slot finds.    *)
(***************************************************************************)
MonoStep(t, k, x, i) ==
  LET ft == x[1]
      s == Probe(t, k, i - 1)
  IN CASE x[2] # NoSlot -> x
       [] x[2] = NoSlot /\ t.status[s] = "EMPTY" ->
            <<ft, IF ft # NoSlot THEN ft ELSE s, FALSE>>
       [] x[2] = NoSlot /\ t.status[s] = "TOMBSTONE" ->
            <<IF ft # NoSlot THEN ft ELSE s, NoSlot, FALSE>>
       [] OTHER -> IF t.key[s] = k THEN <<ft, s, TRUE>> ELSE x

MonoLoop(t, k) ==
  CHOOSE f : f = [i \in 0 .. Capacity(t) |->
                    IF i = 0 THEN <<NoSlot, NoSlot, FALSE>> ELSE MonoStep(t, k, f[i - 1], i)]

LEMMA MonoProbeLoop == \A t, k : MonoProbe(t, k) = MonoLoop(t, k)[Capacity(t)]
BY DEF MonoProbe, MonoLoop, MonoStep

LEMMA MonoSteps ==
  ASSUME NEW t, NEW k, Capacity(t) \in Nat
  PROVE  /\ MonoLoop(t, k)[0] = <<NoSlot, NoSlot, FALSE>>
         /\ \A i \in 1 .. Capacity(t) :
              MonoLoop(t, k)[i] = MonoStep(t, k, MonoLoop(t, k)[i - 1], i)
<1> DEFINE base == <<NoSlot, NoSlot, FALSE>>
           Graph(f, n) == f = [i \in 0 .. n |->
                                 IF i = 0 THEN base ELSE MonoStep(t, k, f[i - 1], i)]
           Bad == {n \in Nat : ~ \E f : Graph(f, n)}
<1>1. Bad = {}
  <2> SUFFICES ASSUME Bad # {} PROVE FALSE
    OBVIOUS
  <2> DEFINE n == Min(Bad)
  <2>1. n \in Bad /\ \A m \in Bad : n <= m
    BY MinFacts
  <2>2. n \in Nat
    BY <2>1
  <2> HIDE DEF n
  <2>3. CASE n = 0
    <3>1. Graph([i \in 0 .. 0 |-> base], 0)
      OBVIOUS
    <3> QED
      BY <2>1, <2>3, <3>1
  <2>4. CASE n # 0
    <3>1. n - 1 \in Nat /\ n - 1 \notin Bad
      <4>1. n - 1 \in Nat /\ ~ (n <= n - 1)
        BY <2>2, <2>4
      <4> QED
        BY <2>1, <4>1, Zenon
    <3>2. PICK f : Graph(f, n - 1)
      BY <3>1
    <3> DEFINE g == [i \in 0 .. n |-> IF i < n THEN f[i] ELSE MonoStep(t, k, f[n - 1], n)]
    <3>3. /\ DOMAIN g = 0 .. n
          /\ \A i \in 0 .. n : g[i] = IF i = 0 THEN base ELSE MonoStep(t, k, g[i - 1], i)
      <4>1. ASSUME NEW i \in 0 .. n
            PROVE  g[i] = IF i = 0 THEN base ELSE MonoStep(t, k, g[i - 1], i)
        <5>1. CASE i < n
          <6>1. i \in 0 .. n - 1 /\ g[i] = f[i] /\ (i # 0 => g[i - 1] = f[i - 1])
            BY <2>2, <5>1
          <6> HIDE DEF g, base
          <6> QED
            BY <3>2, <6>1
        <5>2. CASE i = n
          <6>1. g[n] = MonoStep(t, k, f[n - 1], n) /\ g[n - 1] = f[n - 1]
            BY <2>2, <2>4
          <6> HIDE DEF g, base
          <6> QED
            BY <2>4, <5>2, <6>1
        <5> QED
          BY <2>2, <5>1, <5>2
      <4> QED
        BY <4>1
    <3> HIDE DEF base
    <3>4. g = [i \in 0 .. n |-> g[i]]
      OBVIOUS
    <3> HIDE DEF g
    <3>5. Graph(g, n)
      BY <3>3, <3>4
    <3> QED
      BY <2>1, <3>5
  <2> QED
    BY <2>3, <2>4
<1>2. \E f : Graph(f, Capacity(t))
  BY <1>1
<1>3. Graph(MonoLoop(t, k), Capacity(t))
  BY <1>2 DEF MonoLoop
<1> DEFINE f == MonoLoop(t, k)
           n == Capacity(t)
<1> HIDE DEF f, base, n
<1>4. f = [i \in 0 .. n |-> IF i = 0 THEN base ELSE MonoStep(t, k, f[i - 1], i)] /\ n \in Nat
  BY <1>3 DEF f, n
<1>5. f[0] = base /\ \A i \in 1 .. n : f[i] = MonoStep(t, k, f[i - 1], i)
  BY <1>4
<1> QED
  BY <1>5 DEF f, base, n

\* The first tombstone the loop has passed before step i.
TombsBefore(t, k, i) == {j \in 0 .. i - 1 : t.status[Probe(t, k, j)] = "TOMBSTONE"}
FirstTomb(t, k, i) ==
  IF TombsBefore(t, k, i) = {} THEN NoSlot ELSE Probe(t, k, Min(TombsBefore(t, k, i)))

\* The state of the loop before step i; m is the first step that ends the search.
MonoState(t, k, m, x, i) ==
  IF i <= m THEN x = <<FirstTomb(t, k, i), NoSlot, FALSE>>
  ELSE IF Holds(t, Probe(t, k, m), k) THEN x = <<FirstTomb(t, k, m), Probe(t, k, m), TRUE>>
  ELSE x = <<FirstTomb(t, k, m),
             IF FirstTomb(t, k, m) # NoSlot THEN FirstTomb(t, k, m) ELSE Probe(t, k, m),
             FALSE>>

LEMMA FirstTombFacts ==
  ASSUME HashType, NEW t, TableType(t), NEW k \in Keys, NEW i \in Nat
  PROVE  /\ FirstTomb(t, k, 0) = NoSlot
         /\ FirstTomb(t, k, i + 1) =
              IF FirstTomb(t, k, i) # NoSlot THEN FirstTomb(t, k, i)
              ELSE IF t.status[Probe(t, k, i)] = "TOMBSTONE" THEN Probe(t, k, i)
              ELSE NoSlot
         /\ FirstTomb(t, k, i) # NoSlot <=> TombsBefore(t, k, i) # {}
<1>1. \A n \in Nat : TombsBefore(t, k, n) \subseteq Nat
  BY DEF TombsBefore
<1>2. \A n \in Nat : TombsBefore(t, k, n) # {} =>
        /\ Min(TombsBefore(t, k, n)) \in TombsBefore(t, k, n)
        /\ \A y \in TombsBefore(t, k, n) : Min(TombsBefore(t, k, n)) <= y
  BY <1>1, MinFacts
<1>3. \A n \in Nat : Probe(t, k, n) # NoSlot
  BY ProbeFacts DEF Bucket, NoSlot
<1>4. \A n \in Nat : FirstTomb(t, k, n) # NoSlot <=> TombsBefore(t, k, n) # {}
  BY <1>1, <1>2, <1>3 DEF FirstTomb
<1>5. TombsBefore(t, k, 0) = {}
  BY DEF TombsBefore
<1>6. TombsBefore(t, k, i + 1) =
        IF t.status[Probe(t, k, i)] = "TOMBSTONE" THEN TombsBefore(t, k, i) \cup {i}
        ELSE TombsBefore(t, k, i)
  <2>1. 0 .. (i + 1) - 1 = (0 .. i - 1) \cup {i}
    OBVIOUS
  <2> QED
    BY <2>1 DEF TombsBefore
<1>7. CASE TombsBefore(t, k, i) # {}
  <2> DEFINE A == TombsBefore(t, k, i)
             B == TombsBefore(t, k, i + 1)
  <2>1. i + 1 \in Nat /\ B # {} /\ A \subseteq B
    BY <1>6, <1>7
  <2>2. \A y \in B : y \in A \/ y = i
    BY <1>6
  <2>3. \A y \in A : y \in Nat /\ y < i
    BY DEF TombsBefore
  <2>4. Min(A) \in A /\ Min(B) \in B /\ \A y \in B : Min(B) <= y
    BY <1>2, <1>7, <2>1
  <2>5. \A y \in A : Min(A) <= y
    BY <1>2, <1>7
  <2> HIDE DEF A, B
  <2>6. Min(B) = Min(A)
    BY <2>1, <2>2, <2>3, <2>4, <2>5
  <2>7. FirstTomb(t, k, i + 1) = FirstTomb(t, k, i)
    BY <1>7, <2>1, <2>6 DEF FirstTomb, A, B
  <2> QED
    BY <1>4, <1>5, <1>7, <2>7 DEF FirstTomb
<1>8. CASE TombsBefore(t, k, i) = {} /\ t.status[Probe(t, k, i)] = "TOMBSTONE"
  <2>1. TombsBefore(t, k, i + 1) = {i} /\ i + 1 \in Nat
    BY <1>6, <1>8
  <2>2. Min(TombsBefore(t, k, i + 1)) = i
    BY <1>2, <2>1
  <2> QED
    BY <1>4, <1>5, <1>8, <2>1, <2>2 DEF FirstTomb
<1>9. CASE TombsBefore(t, k, i) = {} /\ t.status[Probe(t, k, i)] # "TOMBSTONE"
  BY <1>4, <1>5, <1>6, <1>9 DEF FirstTomb
<1> QED
  BY <1>7, <1>8, <1>9

LEMMA MonoStepFacts ==
  ASSUME HashType, NEW t, TableType(t), NEW k \in Keys, Stops(t, k) # {},
         NEW m, m = Min(Stops(t, k)),
         NEW i \in 1 .. Capacity(t), NEW x, MonoState(t, k, m, x, i - 1)
  PROVE  MonoState(t, k, m, MonoStep(t, k, x, i), i)
<1> DEFINE s == Probe(t, k, i - 1)
<1>0. /\ m \in Bucket(t) /\ m \in Nat /\ Capacity(t) \in Nat
      /\ Probe(t, k, m) \in Bucket(t)
      /\ t.status[Probe(t, k, m)] = "EMPTY" \/ Holds(t, Probe(t, k, m), k)
      /\ \A j \in 0 .. m - 1 : /\ t.status[Probe(t, k, j)] # "EMPTY"
                               /\ ~ Holds(t, Probe(t, k, j), k)
  <2>1. /\ m \in Bucket(t) /\ Probe(t, k, m) \in Bucket(t)
        /\ t.status[Probe(t, k, m)] = "EMPTY" \/ Holds(t, Probe(t, k, m), k)
        /\ \A j \in 0 .. m - 1 : /\ t.status[Probe(t, k, j)] # "EMPTY"
                                 /\ ~ Holds(t, Probe(t, k, j), k)
    BY FirstStop
  <2>2. Capacity(t) \in Nat
    BY ProbeFacts
  <2>3. m \in Nat
    BY <2>1 DEF Bucket
  <2> QED
    BY <2>1, <2>2, <2>3
<1>1. i - 1 \in Nat /\ (i - 1) + 1 = i /\ i \in Nat
  BY <1>0
<1>2. s \in Bucket(t) /\ t.status[s] \in Status
  BY <1>1, ProbeFacts DEF TableType, Tables, Bucket
<1>3. /\ FirstTomb(t, k, i) =
           IF FirstTomb(t, k, i - 1) # NoSlot THEN FirstTomb(t, k, i - 1)
           ELSE IF t.status[s] = "TOMBSTONE" THEN s
           ELSE NoSlot
  BY <1>1, FirstTombFacts
<1>4. s # NoSlot /\ Probe(t, k, m) # NoSlot
  BY <1>0, <1>2 DEF Bucket, NoSlot
<1>5. CASE i <= m
  <2>1. i - 1 <= m /\ i - 1 \in 0 .. m - 1
    BY <1>0, <1>1, <1>5
  <2>2. x = <<FirstTomb(t, k, i - 1), NoSlot, FALSE>>
    BY <2>1 DEF MonoState
  <2>3. t.status[s] # "EMPTY" /\ ~ Holds(t, s, k)
    BY <1>0, <2>1
  <2> HIDE DEF s
  <2>4. MonoStep(t, k, x, i) =
          IF t.status[s] = "TOMBSTONE"
          THEN <<IF x[1] # NoSlot THEN x[1] ELSE s, NoSlot, FALSE>> ELSE x
    BY <1>2, <2>2, <2>3 DEF MonoStep, Holds, Status, s
  <2>5. MonoStep(t, k, x, i) = <<FirstTomb(t, k, i), NoSlot, FALSE>>
    BY <1>3, <2>2, <2>4
  <2> QED
    BY <1>5, <2>5 DEF MonoState
<1>6. CASE i - 1 = m
  <2>1. ~ (i <= m) /\ i - 1 <= m /\ s = Probe(t, k, m)
    BY <1>0, <1>1, <1>6
  <2>2. x = <<FirstTomb(t, k, m), NoSlot, FALSE>>
    BY <1>6, <2>1 DEF MonoState
  <2>3. CASE Holds(t, s, k)
    <3>1. MonoStep(t, k, x, i) = <<x[1], s, TRUE>>
      BY <2>2, <2>3 DEF MonoStep, Holds
    <3> QED
      BY <2>1, <2>2, <2>3, <3>1 DEF MonoState
  <2>4. CASE ~ Holds(t, s, k)
    <3>1. t.status[s] = "EMPTY"
      BY <1>0, <2>1, <2>4
    <3>2. MonoStep(t, k, x, i) = <<x[1], IF x[1] # NoSlot THEN x[1] ELSE s, FALSE>>
      BY <2>2, <3>1 DEF MonoStep
    <3> QED
      BY <2>1, <2>2, <2>4, <3>2 DEF MonoState
  <2> QED
    BY <2>3, <2>4
<1>7. CASE i - 1 > m
  <2>1. ~ (i <= m) /\ ~ (i - 1 <= m)
    BY <1>0, <1>1, <1>7
  <2>2. MonoState(t, k, m, x, i) /\ x[2] # NoSlot
    <3>1. MonoState(t, k, m, x, i)
      BY <2>1 DEF MonoState
    <3>2. CASE Holds(t, Probe(t, k, m), k)
      <4>1. x = <<FirstTomb(t, k, m), Probe(t, k, m), TRUE>>
        BY <2>1, <3>2 DEF MonoState
      <4> QED
        BY <1>4, <3>1, <4>1
    <3>3. CASE ~ Holds(t, Probe(t, k, m), k)
      <4>1. x = <<FirstTomb(t, k, m),
                  IF FirstTomb(t, k, m) # NoSlot THEN FirstTomb(t, k, m) ELSE Probe(t, k, m),
                  FALSE>>
        BY <2>1, <3>3 DEF MonoState
      <4> QED
        BY <1>4, <3>1, <4>1
    <3> QED
      BY <3>2, <3>3
  <2>3. MonoStep(t, k, x, i) = x
    BY <2>2 DEF MonoStep
  <2> QED
    BY <2>2, <2>3
<1> QED
  BY <1>0, <1>1, <1>5, <1>6, <1>7

LEMMA MonoStates ==
  ASSUME HashType, NEW t, TableType(t), NEW k \in Keys, Stops(t, k) # {}
  PROVE  \A i \in 0 .. Capacity(t) :
           MonoState(t, k, Min(Stops(t, k)), MonoLoop(t, k)[i], i)
<1> DEFINE m == Min(Stops(t, k))
           Bad == {i \in 0 .. Capacity(t) : ~ MonoState(t, k, m, MonoLoop(t, k)[i], i)}
<1>0. Capacity(t) \in Nat \ {0} /\ m \in Nat
  BY FirstStop DEF TableType, Bucket
<1> HIDE DEF m
<1> SUFFICES ASSUME Bad # {} PROVE FALSE
  BY DEF m
<1> DEFINE n == Min(Bad)
<1>1. n \in Bad /\ \A i \in Bad : n <= i
  <2>1. \A i \in 0 .. Capacity(t) : i \in Nat
    BY <1>0
  <2>2. Bad \subseteq Nat
    BY <2>1, Zenon
  <2> QED
    BY <2>2, MinFacts
<1>2. n \in 0 .. Capacity(t) /\ ~ MonoState(t, k, m, MonoLoop(t, k)[n], n)
  BY <1>1
<1> HIDE DEF n
<1>3. CASE n = 0
  <2>1. MonoLoop(t, k)[0] = <<NoSlot, NoSlot, FALSE>>
    BY <1>0, MonoSteps
  <2>2. FirstTomb(t, k, 0) = NoSlot
    BY <1>0, FirstTombFacts
  <2>3. 0 <= m
    BY <1>0
  <2> QED
    BY <1>2, <1>3, <2>1, <2>2, <2>3 DEF MonoState
<1>4. CASE n # 0
  <2>1. n \in 1 .. Capacity(t) /\ n - 1 \in 0 .. Capacity(t) /\ ~ (n <= n - 1)
    BY <1>0, <1>2, <1>4
  <2>2. MonoState(t, k, m, MonoLoop(t, k)[n - 1], n - 1)
    BY <1>1, <2>1
  <2>3. MonoLoop(t, k)[n] = MonoStep(t, k, MonoLoop(t, k)[n - 1], n)
    BY <1>0, <2>1, MonoSteps
  <2>4. MonoState(t, k, m, MonoStep(t, k, MonoLoop(t, k)[n - 1], n), n)
    BY <2>1, <2>2, MonoStepFacts DEF m
  <2> QED
    BY <1>2, <2>3, <2>4
<1> QED
  BY <1>3, <1>4

\* The emitted loop ends with the bucket of find_insert_slot, knows whether the
\* key is there, and remembers a tombstone just when it reuses one.
LEMMA MonoProbeFacts ==
  ASSUME HashType, NEW t, TableType(t), Keyed(t), Empty(t) # {}, NEW k \in Keys
  PROVE  LET p == MonoProbe(t, k) IN
         /\ p[2] = FindInsertSlot(t, k) /\ p[2] # NoSlot
         /\ p[3] = TRUE <=> Lookup(t, k) # NoSlot
         /\ p[3] \in BOOLEAN
         /\ p[3] = FALSE => (p[1] # NoSlot <=> t.status[p[2]] = "TOMBSTONE")
<1> DEFINE m == Min(Stops(t, k))
           p == MonoProbe(t, k)
           before == {i \in DOMAIN t.status : \A j \in Stops(t, k) : i < j}
           tombs == {i \in before : t.status[Probe(t, k, i)] = "TOMBSTONE"}
<1>1. Stops(t, k) # {}
  <2>1. PICK e \in Bucket(t) : t.status[e] = "EMPTY"
    BY DEF Empty
  <2>2. PICK i \in Bucket(t) : Probe(t, k, i) = e
    BY ProbeFacts
  <2>3. DOMAIN t.status = Bucket(t)
    BY ProbeFacts
  <2> QED
    BY <2>1, <2>2, <2>3 DEF Stops
<1>2. /\ m \in Bucket(t) /\ m \in Stops(t, k)
      /\ \A j \in Stops(t, k) : m <= j
      /\ Probe(t, k, m) \in Bucket(t)
      /\ t.status[Probe(t, k, m)] = "EMPTY" \/ Holds(t, Probe(t, k, m), k)
  BY <1>1, FirstStop
<1>3. m \in Nat /\ Capacity(t) \in Nat /\ ~ (Capacity(t) <= m)
      /\ Capacity(t) \in 0 .. Capacity(t)
  <2>1. Capacity(t) \in Nat \ {0}
    BY ProbeFacts
  <2> HIDE DEF m
  <2> QED
    BY <1>2, <2>1 DEF Bucket
<1>4. MonoState(t, k, m, p, Capacity(t))
  BY <1>1, <1>3, MonoStates, MonoProbeLoop
<1>5. Lookup(t, k) = IF Holds(t, Probe(t, k, m), k) THEN Probe(t, k, m) ELSE NoSlot
  BY <1>1, <1>3 DEF Lookup, NoSlot
<1>6. FindInsertSlot(t, k) =
        IF Lookup(t, k) # NoSlot THEN Lookup(t, k)
        ELSE IF tombs # {} THEN Probe(t, k, Min(tombs))
        ELSE Probe(t, k, m)
  BY <1>1 DEF FindInsertSlot
<1>7. tombs = TombsBefore(t, k, m)
  <2>1. \A i : i \in before <=> i \in 0 .. m - 1
    <3>1. DOMAIN t.status = 0 .. Capacity(t) - 1
      BY ProbeFacts DEF Bucket
    <3>2. \A j \in Stops(t, k) : j \in Nat /\ m <= j
      BY <1>2, <3>1 DEF Stops
    <3>3. m \in 0 .. Capacity(t) - 1
      BY <1>2 DEF Bucket
    <3>4. ASSUME NEW i \in 0 .. m - 1 PROVE i \in before
      <4>1. i \in 0 .. Capacity(t) - 1 /\ \A j \in Nat : m <= j => i < j
        BY <1>3, <3>3
      <4> QED
        BY <3>1, <3>2, <4>1
    <3>5. ASSUME NEW i \in before PROVE i \in 0 .. m - 1
      <4>1. i \in 0 .. Capacity(t) - 1 /\ i < m
        BY <1>2, <3>1
      <4> QED
        BY <1>3, <4>1
    <3> QED
      BY <3>4, <3>5
  <2> HIDE DEF before, m
  <2> QED
    BY <2>1 DEF TombsBefore
<1>8. /\ Probe(t, k, m) # NoSlot
      /\ FirstTomb(t, k, m) # NoSlot <=> tombs # {}
      /\ FirstTomb(t, k, m) = IF tombs = {} THEN NoSlot ELSE Probe(t, k, Min(tombs))
  <2> HIDE DEF m, tombs
  <2>1. Probe(t, k, m) # NoSlot
    BY <1>2 DEF Bucket, NoSlot
  <2>2. FirstTomb(t, k, m) # NoSlot <=> TombsBefore(t, k, m) # {}
    BY <1>3, FirstTombFacts
  <2> QED
    BY <1>7, <2>1, <2>2 DEF FirstTomb
<1>9. tombs # {} => t.status[Probe(t, k, Min(tombs))] = "TOMBSTONE"
  <2>1. tombs \subseteq Nat
    BY <1>3, <1>7 DEF TombsBefore
  <2> QED
    BY <2>1, MinFacts
<1> HIDE DEF m, p, tombs
<1>10. CASE Holds(t, Probe(t, k, m), k)
  <2>1. p = <<FirstTomb(t, k, m), Probe(t, k, m), TRUE>>
    BY <1>3, <1>4, <1>10 DEF MonoState
  <2> QED
    BY <1>5, <1>6, <1>8, <1>10, <2>1 DEF p
<1>11. CASE ~ Holds(t, Probe(t, k, m), k)
  <2>1. p = <<FirstTomb(t, k, m),
              IF FirstTomb(t, k, m) # NoSlot THEN FirstTomb(t, k, m) ELSE Probe(t, k, m),
              FALSE>>
    BY <1>3, <1>4, <1>11 DEF MonoState
  <2>2. Lookup(t, k) = NoSlot /\ t.status[Probe(t, k, m)] = "EMPTY"
    BY <1>2, <1>5, <1>11
  <2> QED
    BY <1>6, <1>8, <1>9, <2>1, <2>2 DEF p
<1> QED
  BY <1>10, <1>11

(***************************************************************************)
(* The copies of insert and get that the compiler emits are the runtime's. *)
(***************************************************************************)
\* The writes it emits for a key that is there, and for one that is not.
Kept(t, s, v) == [t EXCEPT !.val[s] = v]
Taken(t, s, k, v, ft) ==
  [t EXCEPT !.status[s] = "OCCUPIED",
            !.key[s] = k, !.val[s] = v,
            !.len = @ + 1,
            !.tombstones = IF ft # NoSlot THEN @ - 1 ELSE @]

WithFields(t, a, b, c, d, e) ==
  [t EXCEPT !.status = a, !.key = b, !.val = c, !.len = d, !.tombstones = e]

LEMMA FieldsWritten ==
  ASSUME NEW t, NEW cap, t \in Tables(cap), NEW a, NEW b, NEW c, NEW d, NEW e
  PROVE  WithFields(t, a, b, c, d, e) =
           [status |-> a, key |-> b, val |-> c, len |-> d, tombstones |-> e]
<1> DEFINE w == WithFields(t, a, b, c, d, e)
<1>1. w \in [status : {a}, key : {b}, val : {c}, len : {d}, tombstones : {e}]
  BY DEF Tables, WithFields
<1> HIDE DEF w
<1>2. w = [status |-> a, key |-> b, val |-> c, len |-> d, tombstones |-> e]
  BY <1>1
<1> QED
  BY <1>2 DEF w

LEMMA MonoWriteIsFill ==
  ASSUME HashType, NEW t, Sound(t), Empty(t) # {}, NEW k \in Keys, NEW v
  PROVE  LET p == MonoProbe(t, k)
             slot == p[2]
         IN  /\ p[3] => Kept(t, slot, v) = Fill(t, FindInsertSlot(t, k), k, v)
             /\ ~ p[3] => Taken(t, slot, k, v, p[1]) = Fill(t, FindInsertSlot(t, k), k, v)
<1> DEFINE p == MonoProbe(t, k)
           s == FindInsertSlot(t, k)
<1>0. TableType(t) /\ Keyed(t) /\ t \in Tables(Capacity(t))
  BY DEF Sound, TableType
<1>1. /\ p[2] = s /\ s \in Bucket(t)
      /\ p[3] = TRUE <=> Lookup(t, k) # NoSlot
      /\ p[3] \in BOOLEAN
      /\ p[3] = FALSE => (p[1] # NoSlot <=> t.status[s] = "TOMBSTONE")
  BY <1>0, MonoProbeFacts, FindFacts
<1>2. p[3] = TRUE => Holds(t, s, k)
  BY <1>0, <1>1, FindFacts, LookupFacts
<1>3. p[3] = FALSE => ~ Holds(t, s, k)
  BY <1>0, <1>1, FindFacts DEF Holds, Occupied
<1> DEFINE u == Fill(t, s, k, v)
<1>4. u = [status |-> [t.status EXCEPT ![s] = "OCCUPIED"],
           key |-> [t.key EXCEPT ![s] = k], val |-> [t.val EXCEPT ![s] = v],
           len |-> IF Holds(t, s, k) THEN t.len ELSE t.len + 1,
           tombstones |-> IF ~ Holds(t, s, k) /\ t.status[s] = "TOMBSTONE"
                          THEN t.tombstones - 1 ELSE t.tombstones]
  BY <1>0, <1>1, FillFields
<1>5. ASSUME NEW a, NEW b, NEW c, NEW d, NEW e
      PROVE  WithFields(t, a, b, c, d, e)
               = [status |-> a, key |-> b, val |-> c, len |-> d, tombstones |-> e]
  BY <1>0, FieldsWritten
<1>6. ASSUME p[3] = TRUE PROVE Kept(t, s, v) = u
  <2> DEFINE w == Kept(t, s, v)
  <2>1. /\ w.status = t.status /\ w.key = t.key /\ w.val = [t.val EXCEPT ![s] = v]
        /\ w.len = t.len /\ w.tombstones = t.tombstones
    BY <1>0 DEF Tables, Kept
  <2>2. w \in [status : {t.status}, key : {t.key}, val : {[t.val EXCEPT ![s] = v]},
               len : {t.len}, tombstones : {t.tombstones}]
    BY <1>0 DEF Tables, Kept
  <2> HIDE DEF w
  <2>3. w = [status |-> t.status, key |-> t.key, val |-> [t.val EXCEPT ![s] = v],
             len |-> t.len, tombstones |-> t.tombstones]
    BY <2>2
  <2>4. [t.status EXCEPT ![s] = "OCCUPIED"] = t.status /\ [t.key EXCEPT ![s] = k] = t.key
    <3>1. t.status[s] = "OCCUPIED" /\ t.key[s] = k
      BY <1>2, <1>6 DEF Holds
    <3>2. t.status = [x \in DOMAIN t.status |-> t.status[x]]
          /\ t.key = [x \in DOMAIN t.key |-> t.key[x]]
      BY <1>0 DEF Tables
    <3> QED
      BY <3>1, <3>2
  <2> HIDE DEF s, u, p
  <2>5. u = [status |-> t.status, key |-> t.key, val |-> [t.val EXCEPT ![s] = v],
             len |-> t.len, tombstones |-> t.tombstones]
    BY <1>2, <1>4, <1>6, <2>4
  <2> QED
    BY <2>3, <2>5 DEF w
<1>7. ASSUME p[3] = FALSE
      PROVE  Taken(t, s, k, v, p[1]) = u
  <2> DEFINE tomb == IF p[1] # NoSlot THEN t.tombstones - 1 ELSE t.tombstones
  <2>1. WithFields(t, [t.status EXCEPT ![s] = "OCCUPIED"], [t.key EXCEPT ![s] = k],
                   [t.val EXCEPT ![s] = v], t.len + 1, tomb)
          = [status |-> [t.status EXCEPT ![s] = "OCCUPIED"],
             key |-> [t.key EXCEPT ![s] = k], val |-> [t.val EXCEPT ![s] = v],
             len |-> t.len + 1, tombstones |-> tomb]
    <3> DEFINE a == [t.status EXCEPT ![s] = "OCCUPIED"]
               b == [t.key EXCEPT ![s] = k]
               c == [t.val EXCEPT ![s] = v]
               d == t.len + 1
    <3> HIDE DEF a, b, c, d, tomb
    <3>1. WithFields(t, a, b, c, d, tomb) =
            [status |-> a, key |-> b, val |-> c, len |-> d, tombstones |-> tomb]
      BY <1>5
    <3> QED
      BY <3>1 DEF a, b, c, d
  <2>2. tomb = IF t.status[s] = "TOMBSTONE" THEN t.tombstones - 1 ELSE t.tombstones
    BY <1>1, <1>7
  <2>3. Taken(t, s, k, v, p[1]) =
          WithFields(t, [t.status EXCEPT ![s] = "OCCUPIED"], [t.key EXCEPT ![s] = k],
                     [t.val EXCEPT ![s] = v], t.len + 1, tomb)
    <3> HIDE DEF s, u, p
    <3> QED
      BY DEF Taken, WithFields
  <2> HIDE DEF s, u, p, tomb
  <2>4. u = [status |-> [t.status EXCEPT ![s] = "OCCUPIED"],
             key |-> [t.key EXCEPT ![s] = k], val |-> [t.val EXCEPT ![s] = v],
             len |-> t.len + 1, tombstones |-> tomb]
    BY <1>3, <1>4, <1>7, <2>2
  <2> QED
    BY <2>1, <2>3, <2>4
<1> HIDE DEF u, s, p
<1>8. /\ p[3] => Kept(t, p[2], v) = u
      /\ ~ p[3] => Taken(t, p[2], k, v, p[1]) = u
  BY <1>1, <1>6, <1>7
<1> QED
  BY <1>8 DEF p, u, s

LEMMA MonoInsertIsInsert ==
  ASSUME HashType, Sound(table), Loaded(table), NEW k \in Keys, NEW v, MonoInsert(k, v)
  PROVE  Insert(k, v)
<1> DEFINE p == MonoProbe(table, k)
<1>0. TableType(table) /\ Keyed(table) /\ Empty(table) # {}
  BY LoadedEmpty DEF Sound
<1>1. /\ Idle /\ Fits(table) /\ UNCHANGED <<hash, claim, iter>>
      /\ IF Overloaded(table) \/ p[2] = NoSlot
         THEN /\ table' = Inserted(table, k, v)
              /\ ret' = <<"value", ValueOf(Prepared(table), k)>>
         ELSE /\ table' = IF p[3] THEN Kept(table, p[2], v)
                          ELSE Taken(table, p[2], k, v, p[1])
              /\ ret' = <<"value", IF p[3] THEN table.val[p[2]] ELSE None>>
  BY DEF MonoInsert, Kept, Taken
<1>2. CASE Overloaded(table)
  BY <1>1, <1>2 DEF Insert
<1>3. CASE ~ Overloaded(table)
  <2>1. Prepared(table) = table
    BY <1>3 DEF Prepared
  <2>2. /\ p[2] # NoSlot /\ p[2] = FindInsertSlot(table, k) /\ p[3] \in BOOLEAN
        /\ p[3] = TRUE <=> Lookup(table, k) # NoSlot
    BY <1>0, MonoProbeFacts
  <2>3. Inserted(table, k, v) = Fill(table, FindInsertSlot(table, k), k, v)
    BY <2>1 DEF Inserted
  <2>4. table' = Inserted(table, k, v)
    <3> DEFINE filled == Fill(table, FindInsertSlot(table, k), k, v)
               kept == Kept(table, p[2], v)
               taken == Taken(table, p[2], k, v, p[1])
    <3>1. (p[3] => kept = filled) /\ (~ p[3] => taken = filled)
      BY <1>0, MonoWriteIsFill
    <3>2. table' = IF p[3] THEN kept ELSE taken
      BY <1>1, <1>3, <2>2
    <3> HIDE DEF p, kept, taken, filled
    <3>3. table' = filled
      BY <2>2, <3>1, <3>2
    <3> QED
      BY <2>3, <3>3 DEF filled
  <2>5. (IF p[3] THEN table.val[p[2]] ELSE None) = ValueOf(table, k)
    <3>1. Lookup(table, k) # NoSlot => p[2] = Lookup(table, k)
      BY <1>0, <2>2, FindFacts
    <3> QED
      BY <2>2, <3>1 DEF ValueOf
  <2> QED
    BY <1>1, <1>3, <2>1, <2>2, <2>4, <2>5 DEF Insert
<1> QED
  BY <1>2, <1>3

LEMMA MonoGetIsGet ==
  ASSUME HashType, Sound(table), Loaded(table), NEW k \in Keys, MonoGet(k)
  PROVE  Get(k)
<1> DEFINE p == MonoProbe(table, k)
<1>0. TableType(table) /\ Keyed(table) /\ Empty(table) # {}
  BY LoadedEmpty DEF Sound
<1>1. /\ p[2] = FindInsertSlot(table, k) /\ p[3] \in BOOLEAN
      /\ p[3] = TRUE <=> Lookup(table, k) # NoSlot
      /\ Lookup(table, k) # NoSlot => FindInsertSlot(table, k) = Lookup(table, k)
  BY <1>0, MonoProbeFacts, FindFacts
<1>2. (IF p[3] THEN table.val[p[2]] ELSE None) = ValueOf(table, k)
  BY <1>1 DEF ValueOf
<1> QED
  BY <1>2 DEF MonoGet, Get

(***************************************************************************)
(* The operations preserve what is true of a table.                        *)
(***************************************************************************)
\* The hash function is chosen once.
LEMMA TableNext ==
  ASSUME hash' = hash, Sound(table'), Loaded(table')
  PROVE  Sound(table)' /\ Loaded(table)'
<1>1. TableType(table)'
  BY DEF Sound, TableType, Tables, Occupied, Bucket, Capacity
<1>2. Keyed(table)'
  BY DEF Sound, Keyed, Reached, Probe, Occupied, Bucket, Capacity
<1>3. Counters(table)'
  BY DEF Sound, Counters, Occupied, Deleted, Bucket, Capacity
<1>4. Loaded(table)'
  BY DEF Loaded, Capacity
<1> QED
  BY <1>1, <1>2, <1>3, <1>4 DEF Sound

LEMMA InvInit == Init => Inv
<1> SUFFICES ASSUME Init PROVE Inv
  OBVIOUS
<1>1. Sound(table) /\ Loaded(table)
  BY CapacityAssumption, FreshFacts DEF Init
<1> QED
  BY <1>1 DEF Init, Inv, HashType, ClaimHeld

\* The claim stays on an occupied bucket: while it is held only the store of
\* the default writes, and no operation but Entry makes one.
LEMMA TableInv ==
  ASSUME Inv, Next
  PROVE  /\ hash' = hash /\ Sound(table') /\ Loaded(table')
         /\ claim' # NoSlot => claim' \in Occupied(table')
<1>0. HashType /\ Sound(table) /\ Loaded(table) /\ ClaimHeld
      /\ TableType(table) /\ Keyed(table) /\ Capacity(table) \in Nat \ {0}
  BY DEF Inv, Sound, TableType
<1>1. ASSUME NEW k \in Keys, NEW v \in Values, Insert(k, v)
      PROVE  hash' = hash /\ Sound(table') /\ Loaded(table') /\ claim' = NoSlot
  BY <1>0, <1>1, InsertedFacts DEF Insert, Idle
<1>2. ASSUME NEW k \in Keys, NEW v \in Values, MonoInsert(k, v)
      PROVE  hash' = hash /\ Sound(table') /\ Loaded(table') /\ claim' = NoSlot
  BY <1>0, <1>1, <1>2, MonoInsertIsInsert
<1>3. ASSUME NEW k \in Keys, NEW v \in Values, Entry(k, v)
      PROVE  /\ hash' = hash /\ Sound(table') /\ Loaded(table')
             /\ claim' # NoSlot => claim' \in Occupied(table')
  <2> DEFINE p == Prepared(table)
             s == FindInsertSlot(p, k)
  <2>1. Sound(p) /\ Loaded(p) /\ ~ Overloaded(p) /\ Empty(p) # {}
    BY <1>0, PreparedFacts
  <2>2. /\ hash' = hash /\ claim = NoSlot
        /\ Holds(p, s, k) => table' = [p EXCEPT !.val[s] = v] /\ claim' = claim
        /\ ~ Holds(p, s, k) => table' = Fill(p, s, k, None) /\ claim' = s
    BY <1>3 DEF Entry, Idle
  <2> HIDE DEF p
  <2>3. s \in Bucket(p) /\ (Holds(p, s, k) => s \in Occupied(p))
    BY <1>0, <2>1, FillFacts DEF Holds, Occupied
  <2>4. CASE Holds(p, s, k)
    BY <1>0, <2>1, <2>2, <2>3, <2>4, ValueFacts
  <2>5. CASE ~ Holds(p, s, k)
    <3>1. /\ Sound(table') /\ Capacity(table') = Capacity(p) /\ s \in Occupied(table')
          /\ table'.len + table'.tombstones <= p.len + p.tombstones + 1
      BY <1>0, <2>1, <2>2, <2>5, FillFacts
    <3>2. /\ p.len \in Nat /\ p.tombstones \in Nat /\ Capacity(p) \in Nat
          /\ table'.len \in Nat /\ table'.tombstones \in Nat
      BY <2>1, <3>1 DEF Sound, TableType, Tables
    <3>3. Loaded(table')
      BY <2>1, <3>1, <3>2 DEF Overloaded, Loaded
    <3> QED
      BY <2>2, <2>5, <3>1, <3>3
  <2> QED
    BY <2>4, <2>5
<1>4. ASSUME NEW k \in Keys, NEW v \in Values, Modify(k, v)
      PROVE  hash' = hash /\ Sound(table') /\ Loaded(table') /\ claim' = NoSlot
  <2>1. CASE Lookup(table, k) = NoSlot
    BY <1>0, <1>4, <2>1 DEF Modify, Idle
  <2>2. CASE Lookup(table, k) # NoSlot
    <3>1. Lookup(table, k) \in Occupied(table)
      BY <1>0, <2>2, LookupFacts
    <3> QED
      BY <1>0, <1>4, <2>2, <3>1, ValueFacts DEF Modify, Idle
  <2> QED
    BY <2>1, <2>2
<1>5. ASSUME NEW k \in Keys, Remove(k)
      PROVE  hash' = hash /\ Sound(table') /\ Loaded(table') /\ claim' = NoSlot
  <2>1. CASE Lookup(table, k) = NoSlot
    BY <1>0, <1>5, <2>1 DEF Remove, Idle
  <2>2. CASE Lookup(table, k) # NoSlot
    <3>1. Lookup(table, k) \in Occupied(table)
      BY <1>0, <2>2, LookupFacts
    <3>2. /\ table' = RemovedAt(table, Lookup(table, k))
          /\ hash' = hash /\ claim' = NoSlot
      BY <1>5, <2>2 DEF Remove, Idle, RemovedAt
    <3> QED
      BY <1>0, <3>1, <3>2, RemovedFacts
  <2> QED
    BY <2>1, <2>2
<1>6. ASSUME NEW v \in Values, StoreDefault(v)
      PROVE  hash' = hash /\ Sound(table') /\ Loaded(table') /\ claim' = NoSlot
  BY <1>0, <1>6, ValueFacts DEF StoreDefault, ClaimHeld
<1>7. CASE Clear
  BY <1>0, <1>7, FreshFacts DEF Clear, Idle
<1>8. CASE Clone
  BY <1>0, <1>8, CloneFacts DEF Clone, Clones, CloneStep, Idle
<1>9. ASSUME \/ \E k \in Keys : Get(k) \/ MonoGet(k) \/ ContainsKey(k)
             \/ Len \/ Traverse \/ IterNext \/ Break
      PROVE  hash' = hash /\ table' = table /\ claim' = claim
  BY <1>9 DEF Get, MonoGet, ContainsKey, Len, Traverse, IterNext, Break
<1>10. claim # NoSlot => claim \in Occupied(table)
  BY <1>0 DEF ClaimHeld
<1> QED
  BY <1>0, <1>1, <1>2, <1>3, <1>4, <1>5, <1>6, <1>7, <1>8, <1>9, <1>10 DEF Next

LEMMA IterNat ==
  ASSUME Inv, Next
  PROVE  iter' # NoSlot => iter' \in Nat
<1>0. (iter # NoSlot => iter \in Nat) /\ TableType(table)
  BY DEF Inv, ClaimHeld, Sound
<1>1. CASE IterNext
  <2>1. LiveFrom(table, iter) \subseteq Nat
    <3>1. DOMAIN table.status = 0 .. Capacity(table) - 1
      BY <1>0 DEF TableType, Tables
    <3>2. \A s \in 0 .. Capacity(table) - 1 : s \in Nat
      OBVIOUS
    <3> QED
      BY <3>1, <3>2 DEF LiveFrom
  <2>2. CASE LiveFrom(table, iter) = {}
    BY <1>1, <2>2 DEF IterNext
  <2>3. CASE LiveFrom(table, iter) # {}
    <3>1. Min(LiveFrom(table, iter)) \in Nat
      BY <2>1, <2>3, MinFacts
    <3>2. iter' = Min(LiveFrom(table, iter)) + 1
      BY <1>1, <2>3 DEF IterNext
    <3> QED
      BY <3>1, <3>2
  <2> QED
    BY <2>2, <2>3
<1>2. CASE Traverse \/ Break
  BY <1>2 DEF Traverse, Break
<1>3. ASSUME NEW k \in Keys, NEW v \in Values,
             Insert(k, v) \/ MonoInsert(k, v) \/ Entry(k, v) \/ Modify(k, v)
      PROVE  iter' = iter
  <2>1. CASE Insert(k, v)
    BY <2>1 DEF Insert
  <2>2. CASE MonoInsert(k, v)
    BY <2>2, Zenon DEF MonoInsert
  <2>3. CASE Entry(k, v)
    BY <2>3 DEF Entry
  <2>4. CASE Modify(k, v)
    BY <2>4 DEF Modify
  <2> QED
    BY <1>3, <2>1, <2>2, <2>3, <2>4
<1>4. ASSUME NEW k \in Keys, Remove(k) PROVE iter' = iter
  BY <1>4, Zenon DEF Remove
<1>5. ASSUME \/ \E k \in Keys : Get(k) \/ MonoGet(k) \/ ContainsKey(k)
             \/ \E v \in Values : StoreDefault(v)
             \/ Len \/ Clear \/ Clone
      PROVE  iter' = iter
  BY <1>5 DEF Get, MonoGet, ContainsKey, StoreDefault, Len, Clear, Clone
<1> QED
  BY <1>0, <1>1, <1>2, <1>3, <1>4, <1>5 DEF Next

LEMMA InvNext == Inv /\ [Next]_vars => Inv'
<1> SUFFICES ASSUME Inv, [Next]_vars PROVE Inv'
  OBVIOUS
<1>1. CASE Next
  <2>1. /\ hash' = hash /\ Sound(table') /\ Loaded(table')
        /\ claim' # NoSlot => claim' \in Occupied(table')
        /\ iter' # NoSlot => iter' \in Nat
    BY <1>1, TableInv, IterNat
  <2>2. Sound(table)' /\ Loaded(table)'
    BY <2>1, TableNext
  <2>3. HashType'
    BY <2>1 DEF Inv, HashType
  <2>4. ClaimHeld'
    BY <2>1 DEF ClaimHeld, Occupied, Bucket, Capacity
  <2> QED
    BY <2>2, <2>3, <2>4 DEF Inv
<1>2. CASE UNCHANGED vars
  <2>1. hash' = hash /\ Sound(table') /\ Loaded(table')
    BY <1>2 DEF Inv, vars
  <2>2. Sound(table)' /\ Loaded(table)'
    BY <2>1, TableNext
  <2>3. HashType' /\ ClaimHeld'
    BY <1>2 DEF Inv, vars, HashType, ClaimHeld, Occupied, Bucket, Capacity
  <2> QED
    BY <2>2, <2>3 DEF Inv
<1> QED
  BY <1>1, <1>2

\* After any history of the operations of map.rs and of the emitted copies: the
\* buckets are well-formed, no key lies behind an empty bucket, the load is under
\* its limit, and a claim that is open points at its bucket.
THEOREM MapInvariant == Spec => []Inv
BY InvInit, InvNext, PTL DEF Spec

LEMMA StatusSets ==
  ASSUME TableType(table)
  PROVE  /\ InStatus("OCCUPIED") = Occupied(table)
         /\ InStatus("TOMBSTONE") = Deleted(table)
         /\ InStatus("EMPTY") = Empty(table)
<1>1. DOMAIN table.status = Bucket(table)
  BY DEF TableType, Tables, Bucket
<1> QED
  BY <1>1 DEF InStatus, Occupied, Deleted, Empty

\* The load test of map.rs adds up len and tombstones: they are the numbers of
\* occupied and of deleted buckets after any history of operations.
THEOREM CountersCorrect == Spec => []CountersExact
<1>1. Inv => CountersExact
  BY StatusSets DEF Inv, Sound, Counters, CountersExact
<1> QED
  BY <1>1, MapInvariant, PTL

\* A search and an insertion always meet an empty bucket: the fallback of
\* find_insert_slot, bucket 0, is never taken.
THEOREM EmptyBucketLeft == Spec => []ProbeMeetsEmpty
<1>1. Inv => ProbeMeetsEmpty
  BY StatusSets, LoadedEmpty DEF Inv, Sound, ProbeMeetsEmpty
<1> QED
  BY <1>1, MapInvariant, PTL

\* lookup finds every stored key, in the one bucket that holds it.
THEOREM KeysFound == Spec => []KeysReachable
<1>1. Inv => KeysReachable
  <2> SUFFICES ASSUME Inv, NEW s \in InStatus("OCCUPIED")
               PROVE  Lookup(table, table.key[s]) = s
    BY DEF KeysReachable
  <2>1. HashType /\ TableType(table) /\ Keyed(table)
    BY DEF Inv, Sound
  <2>2. s \in Occupied(table) /\ table.key[s] \in Keys
    BY <2>1, StatusSets DEF TableType
  <2> QED
    BY <2>1, <2>2, LookupFacts
<1> QED
  BY <1>1, MapInvariant, PTL
-----------------------------------------------------------------------------
(***************************************************************************)
(* KaracMap implements AbstractMap, for every set of keys and of values,   *)
(* every hash function and every capacity: whatever collides, is deleted,  *)
(* reused or resized, the program sees a function from keys to values.     *)
(***************************************************************************)

(***************************************************************************)
(* The abstract state of a table.                                          *)
(***************************************************************************)
\* The entries of t, but for the bucket c an entry chain has claimed.
Live(t, c) == Occupied(t) \ {c}

Contents(t, c) ==
  [k \in {t.key[s] : s \in Live(t, c)} |->
     t.val[CHOOSE s \in Live(t, c) : t.key[s] = k]]

\* The keys a traversal at index i has not returned.
Todo(t, i) == IF i = NoSlot THEN {} ELSE {t.key[s] : s \in LiveFrom(t, i)}

Bindings(t, c, k, v) == \E s \in Live(t, c) : t.key[s] = k /\ t.val[s] = v

\* The operations of AbstractMap on a function.
BoundIn(f, k) == IF k \in DOMAIN f THEN f[k] ELSE None
WithKey(f, k, v) == [x \in DOMAIN f \cup {k} |-> IF x = k THEN v ELSE f[x]]
Only(f, ks) == [x \in DOMAIN f \cap ks |-> f[x]]

LEMMA ContentsBindings ==
  ASSUME NEW t, Keyed(t), NEW c
  PROVE  /\ \A k, v : Bindings(t, c, k, v) <=>
                        k \in DOMAIN Contents(t, c) /\ Contents(t, c)[k] = v
         /\ Contents(t, c) = [k \in DOMAIN Contents(t, c) |-> Contents(t, c)[k]]
         /\ \A k : k \in DOMAIN Contents(t, c) <=> \E s \in Live(t, c) : t.key[s] = k
         /\ \A s \in Live(t, c) : Contents(t, c)[t.key[s]] = t.val[s]
<1>1. \A s \in Live(t, c) : (CHOOSE r \in Live(t, c) : t.key[r] = t.key[s]) = s
  <2> SUFFICES ASSUME NEW s \in Live(t, c)
               PROVE  (CHOOSE r \in Live(t, c) : t.key[r] = t.key[s]) = s
    OBVIOUS
  <2> DEFINE q == CHOOSE r \in Live(t, c) : t.key[r] = t.key[s]
  <2>1. q \in Live(t, c) /\ t.key[q] = t.key[s]
    OBVIOUS
  <2> HIDE DEF q
  <2>2. q = s
    BY <2>1 DEF Keyed, Live
  <2> QED
    BY <2>2 DEF q
<1>2. /\ DOMAIN Contents(t, c) = {t.key[s] : s \in Live(t, c)}
      /\ \A s \in Live(t, c) : Contents(t, c)[t.key[s]] = t.val[s]
  BY <1>1 DEF Contents
<1>3. Contents(t, c) = [k \in DOMAIN Contents(t, c) |-> Contents(t, c)[k]]
  BY DEF Contents
<1> QED
  BY <1>2, <1>3 DEF Bindings

\* A function is its bindings.
LEMMA SameFunction ==
  ASSUME NEW f, f = [x \in DOMAIN f |-> f[x]], NEW g, g = [x \in DOMAIN g |-> g[x]],
         \A k, v : (k \in DOMAIN f /\ f[k] = v) <=> (k \in DOMAIN g /\ g[k] = v)
  PROVE  f = g
<1>1. \A k : k \in DOMAIN f <=> k \in DOMAIN g
  <2> SUFFICES ASSUME NEW k PROVE k \in DOMAIN f <=> k \in DOMAIN g
    OBVIOUS
  <2>1. (k \in DOMAIN f /\ f[k] = f[k]) <=> (k \in DOMAIN g /\ g[k] = f[k])
    OBVIOUS
  <2>2. (k \in DOMAIN f /\ f[k] = g[k]) <=> (k \in DOMAIN g /\ g[k] = g[k])
    OBVIOUS
  <2> QED
    BY <2>1, <2>2
<1>2. DOMAIN f = DOMAIN g
  BY <1>1
<1>3. \A k \in DOMAIN f : f[k] = g[k]
  OBVIOUS
<1> QED
  BY <1>2, <1>3

LEMMA ContentsSame ==
  ASSUME NEW t, Keyed(t), NEW u, Keyed(u), NEW c, NEW d,
         \A k, v : Bindings(u, d, k, v) <=> Bindings(t, c, k, v)
  PROVE  Contents(u, d) = Contents(t, c)
<1> DEFINE f == Contents(u, d)
           g == Contents(t, c)
<1>1. /\ \A k, v : Bindings(u, d, k, v) <=> k \in DOMAIN f /\ f[k] = v
      /\ f = [k \in DOMAIN f |-> f[k]]
  BY ContentsBindings
<1>2. /\ \A k, v : Bindings(t, c, k, v) <=> k \in DOMAIN g /\ g[k] = v
      /\ g = [k \in DOMAIN g |-> g[k]]
  BY ContentsBindings
<1> HIDE DEF f, g
<1>3. f = g
  BY <1>1, <1>2, SameFunction
<1> QED
  BY <1>3 DEF f, g

LEMMA ContentsWith ==
  ASSUME NEW t, Keyed(t), NEW u, Keyed(u), NEW c, NEW d, NEW k, NEW v,
         \A kk, vv : Bindings(u, d, kk, vv) <=>
           (kk = k /\ vv = v) \/ (kk # k /\ Bindings(t, c, kk, vv))
  PROVE  Contents(u, d) = WithKey(Contents(t, c), k, v)
<1> DEFINE f == Contents(u, d)
           g == Contents(t, c)
           h == WithKey(g, k, v)
<1>1. /\ \A kk, vv : Bindings(u, d, kk, vv) <=> kk \in DOMAIN f /\ f[kk] = vv
      /\ f = [x \in DOMAIN f |-> f[x]]
  BY ContentsBindings
<1>2. \A kk, vv : Bindings(t, c, kk, vv) <=> kk \in DOMAIN g /\ g[kk] = vv
  BY ContentsBindings
<1> HIDE DEF f, g
<1>3. /\ DOMAIN h = DOMAIN g \cup {k}
      /\ \A x \in DOMAIN g \cup {k} : h[x] = IF x = k THEN v ELSE g[x]
      /\ h = [x \in DOMAIN h |-> h[x]]
  BY DEF WithKey
<1> HIDE DEF h
<1>4. \A kk, vv : (kk \in DOMAIN h /\ h[kk] = vv) <=>
                    (kk = k /\ vv = v) \/ (kk # k /\ kk \in DOMAIN g /\ g[kk] = vv)
  BY <1>3
<1>5. \A kk, vv : (kk \in DOMAIN f /\ f[kk] = vv) <=> (kk \in DOMAIN h /\ h[kk] = vv)
  BY <1>1, <1>2, <1>4
<1>6. f = h
  BY <1>1, <1>3, <1>5, SameFunction
<1> QED
  BY <1>6 DEF f, g, h

LEMMA ContentsOnly ==
  ASSUME NEW t, Keyed(t), NEW u, Keyed(u), NEW c, NEW d, NEW ks,
         \A kk, vv : Bindings(u, d, kk, vv) <=> (kk \in ks /\ Bindings(t, c, kk, vv))
  PROVE  Contents(u, d) = Only(Contents(t, c), ks)
<1> DEFINE f == Contents(u, d)
           g == Contents(t, c)
           h == Only(g, ks)
<1>1. /\ \A kk, vv : Bindings(u, d, kk, vv) <=> kk \in DOMAIN f /\ f[kk] = vv
      /\ f = [x \in DOMAIN f |-> f[x]]
  BY ContentsBindings
<1>2. \A kk, vv : Bindings(t, c, kk, vv) <=> kk \in DOMAIN g /\ g[kk] = vv
  BY ContentsBindings
<1> HIDE DEF f, g
<1>3. /\ DOMAIN h = DOMAIN g \cap ks
      /\ \A x \in DOMAIN g \cap ks : h[x] = g[x]
      /\ h = [x \in DOMAIN h |-> h[x]]
  BY DEF Only
<1> HIDE DEF h
<1>4. \A kk, vv : (kk \in DOMAIN h /\ h[kk] = vv) <=>
                    (kk \in ks /\ kk \in DOMAIN g /\ g[kk] = vv)
  BY <1>3
<1>5. \A kk, vv : (kk \in DOMAIN f /\ f[kk] = vv) <=> (kk \in DOMAIN h /\ h[kk] = vv)
  BY <1>1, <1>2, <1>4
<1>6. f = h
  BY <1>1, <1>3, <1>5, SameFunction
<1> QED
  BY <1>6 DEF f, g, h

\* With no chain open every entry counts.
LEMMA NoClaim ==
  ASSUME NEW t
  PROVE  /\ Live(t, NoSlot) = Occupied(t)
         /\ \A k, v : Bindings(t, NoSlot, k, v) <=> Binds(t, k, v)
<1>1. \A s \in Bucket(t) : s # NoSlot
  BY DEF Bucket, NoSlot
<1> QED
  BY <1>1 DEF Live, Occupied, Bindings, Binds

\* What lookup tells is what the function tells.
LEMMA ContentsLookup ==
  ASSUME HashType, NEW t, Sound(t), NEW k \in Keys
  PROVE  /\ Lookup(t, k) # NoSlot <=> k \in DOMAIN Contents(t, NoSlot)
         /\ ValueOf(t, k) = BoundIn(Contents(t, NoSlot), k)
<1> DEFINE f == Contents(t, NoSlot)
<1>1. TableType(t) /\ Keyed(t)
  BY DEF Sound
<1>2. /\ \A x : x \in DOMAIN f <=> \E s \in Occupied(t) : t.key[s] = x
      /\ \A s \in Occupied(t) : f[t.key[s]] = t.val[s]
  BY <1>1, ContentsBindings, NoClaim
<1> HIDE DEF f
<1>3. CASE Lookup(t, k) # NoSlot
  <2>1. Lookup(t, k) \in Occupied(t) /\ t.key[Lookup(t, k)] = k
    BY <1>1, <1>3, LookupFacts
  <2>2. k \in DOMAIN f /\ f[k] = t.val[Lookup(t, k)]
    BY <1>2, <2>1
  <2> QED
    BY <1>3, <2>2 DEF ValueOf, BoundIn, f
<1>4. CASE Lookup(t, k) = NoSlot
  <2>1. k \notin DOMAIN f
    BY <1>1, <1>2, <1>4, LookupFacts
  <2> QED
    BY <1>4, <2>1 DEF ValueOf, BoundIn, f
<1> QED
  BY <1>3, <1>4

\* len is the number of keys.
LEMMA ContentsLen ==
  ASSUME NEW t, Sound(t)
  PROVE  t.len = Cardinality(DOMAIN Contents(t, NoSlot))
<1> DEFINE S == Occupied(t)
           T == DOMAIN Contents(t, NoSlot)
           f == [s \in S |-> t.key[s]]
<1>1. TableType(t) /\ Keyed(t) /\ t.len = Cardinality(S)
  BY DEF Sound, Counters
<1>2. IsFiniteSet(S)
  BY <1>1, BucketCount
<1>3. \A x : x \in T <=> \E s \in S : t.key[s] = x
  BY <1>1, ContentsBindings, NoClaim
<1>4. \A r, s \in S : t.key[r] = t.key[s] => r = s
  BY <1>1 DEF Keyed
<1> HIDE DEF S, T
<1>5. f \in Bijection(S, T)
  BY <1>3, <1>4 DEF Bijection, Injection, Surjection, IsInjective
<1>6. Cardinality(T) = Cardinality(S)
  BY <1>2, <1>5, FS_Bijection DEF ExistsBijection
<1> QED
  BY <1>1, <1>6 DEF S, T

(***************************************************************************)
(* Traversals.                                                             *)
(***************************************************************************)
\* A traversal and an entry chain are never open together.
OneBorrow == claim = NoSlot \/ iter = NoSlot

LEMMA OneBorrowStep == OneBorrow /\ [Next]_vars => OneBorrow'
<1> SUFFICES ASSUME OneBorrow, [Next]_vars PROVE OneBorrow'
  OBVIOUS
<1>1. ASSUME NEW k \in Keys, NEW v \in Values,
             Insert(k, v) \/ MonoInsert(k, v) \/ Entry(k, v) \/ Modify(k, v)
      PROVE  iter' = NoSlot
  <2>1. CASE Insert(k, v)
    BY <2>1 DEF Insert, Idle
  <2>2. CASE MonoInsert(k, v)
    BY <2>2, Zenon DEF MonoInsert, Idle
  <2>3. CASE Entry(k, v)
    BY <2>3 DEF Entry, Idle
  <2>4. CASE Modify(k, v)
    BY <2>4 DEF Modify, Idle
  <2> QED
    BY <1>1, <2>1, <2>2, <2>3, <2>4
<1>2. ASSUME NEW k \in Keys, Remove(k) PROVE iter' = NoSlot
  BY <1>2, Zenon DEF Remove, Idle
<1>3. CASE \/ \E k \in Keys : Get(k) \/ MonoGet(k) \/ ContainsKey(k)
           \/ Len \/ Clear \/ Clone \/ UNCHANGED vars
  BY <1>3 DEF OneBorrow, Get, MonoGet, ContainsKey, Len, Clear, Clone, vars
<1>4. CASE (\E v \in Values : StoreDefault(v)) \/ Traverse \/ IterNext \/ Break
  BY <1>4 DEF OneBorrow, StoreDefault, Traverse, IterNext, Break, Idle
<1> QED
  BY <1>1, <1>2, <1>3, <1>4 DEF Next, OneBorrow

\* The traversal starts with every key, and each step returns one of those left.
LEMMA TodoFacts ==
  ASSUME NEW t, Sound(t)
  PROVE  /\ Todo(t, NoSlot) = {} /\ Todo(t, 0) = DOMAIN Contents(t, NoSlot)
         /\ \A i \in Nat :
              LET left == LiveFrom(t, i) IN
              /\ left = {} => Todo(t, i) = {}
              /\ left # {} =>
                   /\ Min(left) \in Occupied(t)
                   /\ t.key[Min(left)] \in Todo(t, i)
                   /\ Todo(t, Min(left) + 1) = Todo(t, i) \ {t.key[Min(left)]}
<1>0. TableType(t) /\ Keyed(t) /\ Bucket(t) \subseteq Nat
  BY DEF Sound, Bucket
<1>1. \A i \in Nat : LiveFrom(t, i) = {s \in Occupied(t) : s >= i}
  <2>1. DOMAIN t.status = Bucket(t)
    BY <1>0 DEF TableType, Tables, Bucket
  <2> QED
    BY <2>1 DEF LiveFrom, Occupied
<1>2. \A i \in Nat : Todo(t, i) = {t.key[s] : s \in LiveFrom(t, i)}
  BY DEF Todo, NoSlot
<1>3. LiveFrom(t, 0) = Occupied(t)
  BY <1>0, <1>1 DEF Occupied
<1>4. Todo(t, 0) = DOMAIN Contents(t, NoSlot)
  BY <1>0, <1>2, <1>3, NoClaim DEF Contents
<1>5. ASSUME NEW i \in Nat, LiveFrom(t, i) # {}
      PROVE  /\ Min(LiveFrom(t, i)) \in Occupied(t)
             /\ t.key[Min(LiveFrom(t, i))] \in Todo(t, i)
             /\ Todo(t, Min(LiveFrom(t, i)) + 1) = Todo(t, i) \ {t.key[Min(LiveFrom(t, i))]}
  <2> DEFINE left == LiveFrom(t, i)
             m == Min(left)
  <2>1. left \subseteq Nat
    BY <1>0, <1>1 DEF Occupied
  <2>2. m \in left /\ \A y \in left : m <= y
    BY <1>5, <2>1, MinFacts
  <2>3. m \in Occupied(t) /\ m \in Nat /\ m >= i
    BY <1>1, <2>1, <2>2
  <2> HIDE DEF m
  <2>4. \A s : s \in LiveFrom(t, m + 1) <=> s \in left /\ s # m
    <3>1. ASSUME NEW s \in Occupied(t)
          PROVE  s >= m + 1 <=> (s >= i /\ s # m)
      <4>1. s \in Nat
        BY <1>0 DEF Occupied
      <4>2. s >= i => m <= s
        BY <1>1, <2>2
      <4> QED
        BY <2>3, <4>1, <4>2
    <3>2. m + 1 \in Nat
      BY <2>3
    <3> QED
      BY <1>1, <3>1, <3>2
  <2>5. \A r \in left : t.key[r] = t.key[m] => r = m
    BY <1>0, <1>1, <2>3 DEF Keyed
  <2>6. Todo(t, m + 1) = {t.key[s] : s \in LiveFrom(t, m + 1)}
    BY <1>2, <2>3
  <2>7. Todo(t, m + 1) = Todo(t, i) \ {t.key[m]}
    BY <1>2, <2>2, <2>4, <2>5, <2>6
  <2> QED
    BY <1>2, <2>2, <2>3, <2>7 DEF m
<1> QED
  BY <1>2, <1>4, <1>5 DEF Todo

(***************************************************************************)
(* The refinement mapping of KaracMap, and the steps of AbstractMap under  *)
(* it.                                                                     *)
(***************************************************************************)
MapContents ==
  [k \in {table.key[s] : s \in Entries} |->
     table.val[CHOOSE s \in Entries : table.key[s] = k]]

MapTodo ==
  IF iter = NoSlot THEN {} ELSE {table.key[s] : s \in LiveFrom(table, iter)}

LEMMA MappedState ==
  ASSUME TableType(table)
  PROVE  MapContents = Contents(table, claim) /\ MapTodo = Todo(table, iter)
<1>1. Entries = Live(table, claim)
  BY StatusSets DEF Entries, Live
<1> QED
  BY <1>1 DEF MapContents, Contents, MapTodo, Todo

LEMMA MappedNext ==
  ASSUME TableType(table')
  PROVE  MapContents' = Contents(table', claim') /\ MapTodo' = Todo(table', iter')
<1>1. DOMAIN table'.status = Bucket(table')
  BY DEF TableType, Tables, Bucket
<1>2. Entries' = Live(table', claim')
  BY <1>1 DEF Entries, InStatus, Live, Occupied
<1>3. MapContents' = Contents(table', claim')
  BY <1>2 DEF MapContents, Contents
<1>4. MapTodo' = Todo(table', iter')
  BY DEF MapTodo, Todo, LiveFrom
<1> QED
  BY <1>3, <1>4

LEMMA AbstractSteps ==
  /\ \A k \in Keys, v \in Values :
       /\ MapContents' = WithKey(MapContents, k, v)
       /\ ret' = <<"value", BoundIn(MapContents, k)>> /\ MapTodo' = MapTodo
       => Abstract!Insert(k, v)
  /\ \A k \in Keys, v \in Values :
       /\ MapContents' = IF k \in DOMAIN MapContents THEN WithKey(MapContents, k, v)
                         ELSE MapContents
       /\ ret' = ret /\ MapTodo' = MapTodo
       => Abstract!Modify(k, v)
  /\ \A k \in Keys, v \in Values :
       /\ MapContents' = WithKey(MapContents, k, v)
       /\ ret' = <<"value", v>> /\ MapTodo' = MapTodo
       => Abstract!OrInsert(k, v)
  /\ \A k \in Keys :
       /\ MapContents' = Only(MapContents, Keys \ {k})
       /\ ret' = <<"value", BoundIn(MapContents, k)>> /\ MapTodo' = MapTodo
       => Abstract!Remove(k)
<1>1. ASSUME NEW k \in Keys, NEW v \in Values,
             MapContents' = WithKey(MapContents, k, v),
             ret' = <<"value", BoundIn(MapContents, k)>>, MapTodo' = MapTodo
      PROVE  Abstract!Insert(k, v)
  BY <1>1 DEF MapContents, MapTodo, WithKey, BoundIn, Abstract!Insert, Abstract!With,
              Abstract!Bound
<1>2. ASSUME NEW k \in Keys, NEW v \in Values,
             MapContents' = IF k \in DOMAIN MapContents THEN WithKey(MapContents, k, v)
                            ELSE MapContents,
             ret' = ret, MapTodo' = MapTodo
      PROVE  Abstract!Modify(k, v)
  BY <1>2 DEF MapContents, MapTodo, WithKey, Abstract!Modify, Abstract!With
<1>3. ASSUME NEW k \in Keys, NEW v \in Values,
             MapContents' = WithKey(MapContents, k, v),
             ret' = <<"value", v>>, MapTodo' = MapTodo
      PROVE  Abstract!OrInsert(k, v)
  BY <1>3 DEF MapContents, MapTodo, WithKey, Abstract!OrInsert, Abstract!With
<1>4. ASSUME NEW k \in Keys,
             MapContents' = Only(MapContents, Keys \ {k}),
             ret' = <<"value", BoundIn(MapContents, k)>>, MapTodo' = MapTodo
      PROVE  Abstract!Remove(k)
  BY <1>4 DEF MapContents, MapTodo, Only, BoundIn, Abstract!Remove, Abstract!Restricted,
              Abstract!Bound
<1> QED
  BY <1>1, <1>2, <1>3, <1>4

LEMMA AbstractReads ==
  ASSUME MapContents' = MapContents
  PROVE  /\ \A k \in Keys :
              ret' = <<"value", BoundIn(MapContents, k)>> /\ MapTodo' = MapTodo
              => Abstract!Get(k)
         /\ \A k \in Keys :
              ret' = <<"found", k \in DOMAIN MapContents>> /\ MapTodo' = MapTodo
              => Abstract!ContainsKey(k)
         /\ \A k \in Keys :
              /\ k \in MapTodo /\ MapTodo' = MapTodo \ {k}
              /\ ret' = <<"entry", k, MapContents[k]>>
              => Abstract!NextEntry(k)
         /\ ret' = <<"len", Cardinality(DOMAIN MapContents)>> /\ MapTodo' = MapTodo
            => Abstract!Len
         /\ MapTodo' = DOMAIN MapContents /\ ret' = ret => Abstract!Traverse
         /\ MapTodo = {} /\ MapTodo' = MapTodo /\ ret' = <<"value", None>>
            => Abstract!Exhausted
         /\ MapTodo' = {} /\ ret' = ret => Abstract!Break
<1>1. ASSUME NEW k \in Keys, ret' = <<"value", BoundIn(MapContents, k)>>,
             MapTodo' = MapTodo
      PROVE  Abstract!Get(k)
  BY <1>1 DEF MapContents, MapTodo, BoundIn, Abstract!Get, Abstract!Bound
<1>2. ASSUME NEW k \in Keys, ret' = <<"found", k \in DOMAIN MapContents>>,
             MapTodo' = MapTodo
      PROVE  Abstract!ContainsKey(k)
  BY <1>2 DEF MapContents, MapTodo, Abstract!ContainsKey
<1>3. ASSUME NEW k \in Keys, k \in MapTodo, MapTodo' = MapTodo \ {k},
             ret' = <<"entry", k, MapContents[k]>>
      PROVE  Abstract!NextEntry(k)
  BY <1>3 DEF MapContents, MapTodo, Abstract!NextEntry
<1>4. ASSUME ret' = <<"len", Cardinality(DOMAIN MapContents)>>, MapTodo' = MapTodo
      PROVE  Abstract!Len
  <2>1. \A S : Abstract!Cardinality(S) = Cardinality(S)
    BY DEF Cardinality, Abstract!Cardinality
  <2>2. ret' = <<"len", Abstract!Cardinality(DOMAIN MapContents)>>
    BY <1>4, <2>1
  <2> QED
    BY <1>4, <2>2 DEF MapContents, MapTodo, Abstract!Len
<1>5. ASSUME MapTodo' = DOMAIN MapContents, ret' = ret PROVE Abstract!Traverse
  BY <1>5 DEF MapContents, MapTodo, Abstract!Traverse
<1>6. ASSUME MapTodo = {}, MapTodo' = MapTodo, ret' = <<"value", None>>
      PROVE  Abstract!Exhausted
  BY <1>6 DEF MapContents, MapTodo, Abstract!Exhausted
<1>7. ASSUME MapTodo' = {}, ret' = ret PROVE Abstract!Break
  BY <1>7 DEF MapContents, MapTodo, Abstract!Break
<1> QED
  BY <1>1, <1>2, <1>3, <1>4, <1>5, <1>6, <1>7

LEMMA AbstractClear ==
  ASSUME MapContents' = Only(MapContents, {}), MapTodo' = MapTodo, ret' = ret
  PROVE  Abstract!Clear
BY DEF MapContents, MapTodo, Only, Abstract!Clear, Abstract!Restricted

LEMMA AbstractStutter ==
  ASSUME MapContents' = MapContents, MapTodo' = MapTodo, ret' = ret
  PROVE  UNCHANGED Abstract!vars
BY DEF MapContents, MapTodo, Abstract!vars

(***************************************************************************)
(* Every operation is a step of AbstractMap, or is not seen.               *)
(***************************************************************************)
LEMMA ValueBinds ==
  ASSUME HashType, NEW t, Sound(t), NEW s \in Occupied(t), NEW v \in Values \cup {None}
  PROVE  \A kk, vv :
           Binds(Kept(t, s, v), kk, vv) <=>
             (kk = t.key[s] /\ vv = v) \/ (kk # t.key[s] /\ Binds(t, kk, vv))
<1> DEFINE u == Kept(t, s, v)
<1>1. Occupied(u) = Occupied(t) /\ u.key = t.key /\ u.val = [t.val EXCEPT ![s] = v]
  BY ValueFacts DEF Kept
<1>2. s \in DOMAIN t.val
  BY DEF Sound, TableType, Tables, Occupied, Bucket
<1>3. \A r \in Occupied(t) : t.key[r] = t.key[s] => r = s
  BY DEF Sound, Keyed
<1> HIDE DEF u
<1>4. u.val[s] = v /\ \A r \in Occupied(t) : r # s => u.val[r] = t.val[r]
  BY <1>1, <1>2
<1>5. \A kk, vv : Binds(u, kk, vv) <=>
                    (kk = t.key[s] /\ vv = v) \/ (kk # t.key[s] /\ Binds(t, kk, vv))
  BY <1>1, <1>3, <1>4 DEF Binds
<1> QED
  BY <1>5 DEF u

\* What is known of a step; the primed tables are read with the hash function
\* that the step leaves alone.
LEMMA StepFacts ==
  ASSUME Inv, Next
  PROVE  /\ HashType /\ Sound(table) /\ Loaded(table) /\ ClaimHeld
         /\ TableType(table) /\ Keyed(table) /\ Empty(table) # {}
         /\ Sound(table') /\ Keyed(table')
         /\ MapContents = Contents(table, claim) /\ MapTodo = Todo(table, iter)
         /\ MapContents' = Contents(table', claim') /\ MapTodo' = Todo(table', iter')
<1>1. /\ HashType /\ Sound(table) /\ Loaded(table) /\ ClaimHeld
      /\ TableType(table) /\ Keyed(table)
  BY DEF Inv, Sound
<1>2. Sound(table') /\ TableType(table') /\ Keyed(table')
  BY TableInv DEF Sound
<1>3. Empty(table) # {}
  BY <1>1, LoadedEmpty DEF Sound
<1> QED
  BY <1>1, <1>2, <1>3, MappedState, MappedNext

LEMMA InsertStep ==
  ASSUME Inv, Next, NEW k \in Keys, NEW v \in Values, Insert(k, v)
  PROVE  Abstract!Insert(k, v)
<1> DEFINE p == Prepared(table)
<1>1. /\ HashType /\ Sound(table) /\ Loaded(table) /\ Keyed(table) /\ Keyed(table')
      /\ MapContents = Contents(table, claim) /\ MapTodo = Todo(table, iter)
      /\ MapContents' = Contents(table', claim') /\ MapTodo' = Todo(table', iter')
  BY StepFacts
<1>2. /\ claim = NoSlot /\ claim' = NoSlot /\ iter' = iter /\ iter = NoSlot
      /\ table' = Inserted(table, k, v) /\ ret' = <<"value", ValueOf(p, k)>>
  BY DEF Insert, Idle
<1>3. \A kk, vv : Binds(table', kk, vv) <=>
                    (kk = k /\ vv = v) \/ (kk # k /\ Binds(table, kk, vv))
  BY <1>1, <1>2, InsertedFacts
<1>4. MapContents' = WithKey(MapContents, k, v)
  <2>1. \A kk, vv : Bindings(table', NoSlot, kk, vv) <=>
                      (kk = k /\ vv = v) \/ (kk # k /\ Bindings(table, NoSlot, kk, vv))
    BY <1>3, NoClaim
  <2> QED
    BY <1>1, <1>2, <2>1, ContentsWith
<1>5. Sound(p) /\ Keyed(p) /\ \A kk, vv : Binds(p, kk, vv) <=> Binds(table, kk, vv)
  BY <1>1, PreparedFacts DEF Sound
<1> HIDE DEF p
<1>6. Contents(p, NoSlot) = Contents(table, NoSlot)
  <2>1. \A kk, vv : Bindings(p, NoSlot, kk, vv) <=> Bindings(table, NoSlot, kk, vv)
    BY <1>5, NoClaim
  <2> QED
    BY <1>1, <1>5, <2>1, ContentsSame
<1>7. ValueOf(p, k) = BoundIn(MapContents, k)
  BY <1>1, <1>2, <1>5, <1>6, ContentsLookup
<1>8. MapTodo' = MapTodo
  BY <1>1, <1>2 DEF Todo
<1> QED
  BY <1>2, <1>4, <1>7, <1>8, AbstractSteps

LEMMA EntryStep ==
  ASSUME Inv, Next, NEW k \in Keys, NEW v \in Values, Entry(k, v)
  PROVE  Abstract!OrInsert(k, v) \/ UNCHANGED Abstract!vars
<1> DEFINE p == Prepared(table)
           s == FindInsertSlot(p, k)
<1>1. /\ HashType /\ Sound(table) /\ Loaded(table) /\ Keyed(table)
      /\ Sound(table') /\ Keyed(table')
      /\ MapContents = Contents(table, claim) /\ MapTodo = Todo(table, iter)
      /\ MapContents' = Contents(table', claim') /\ MapTodo' = Todo(table', iter')
  BY StepFacts
<1>2. /\ claim = NoSlot /\ iter = NoSlot /\ iter' = iter
      /\ Holds(p, s, k) => /\ table' = Kept(p, s, v) /\ claim' = claim
                           /\ ret' = <<"value", v>>
      /\ ~ Holds(p, s, k) => table' = Fill(p, s, k, None) /\ claim' = s /\ ret' = ret
  BY DEF Entry, Idle, Kept
<1>3. /\ Sound(p) /\ Keyed(p) /\ Empty(p) # {}
      /\ \A kk, vv : Binds(p, kk, vv) <=> Binds(table, kk, vv)
  BY <1>1, PreparedFacts DEF Sound
<1>4. MapTodo' = MapTodo
  BY <1>1, <1>2 DEF Todo
<1> HIDE DEF p
<1>5. /\ s \in Bucket(p) /\ (Holds(p, s, k) <=> s \in Occupied(p))
      /\ Holds(p, s, k) => p.key[s] = k
  BY <1>1, <1>3, FillFacts DEF Holds
<1>6. CASE Holds(p, s, k)
  <2>1. \A kk, vv : Binds(table', kk, vv) <=>
                      (kk = k /\ vv = v) \/ (kk # k /\ Binds(p, kk, vv))
    BY <1>1, <1>2, <1>3, <1>5, <1>6, ValueBinds
  <2>2. \A kk, vv : Bindings(table', NoSlot, kk, vv) <=>
                      (kk = k /\ vv = v) \/ (kk # k /\ Bindings(table, NoSlot, kk, vv))
    BY <1>3, <2>1, NoClaim
  <2>3. MapContents' = WithKey(MapContents, k, v)
    BY <1>1, <1>2, <1>6, <2>2, ContentsWith
  <2> QED
    BY <1>2, <1>4, <1>6, <2>3, AbstractSteps
<1>7. CASE ~ Holds(p, s, k)
  <2>1. /\ Occupied(table') = Occupied(p) \cup {s} /\ s \notin Occupied(p)
        /\ \A r \in Occupied(p) : r # s => /\ table'.key[r] = p.key[r]
                                           /\ table'.val[r] = p.val[r]
    BY <1>1, <1>2, <1>3, <1>5, <1>7, FillFacts
  <2> HIDE DEF s
  <2>2. Live(table', s) = Occupied(p)
    BY <2>1 DEF Live
  <2>3. \A kk, vv : Bindings(table', s, kk, vv) <=> Binds(p, kk, vv)
    BY <2>1, <2>2 DEF Bindings, Binds
  <2>4. \A kk, vv : Bindings(table', s, kk, vv) <=> Bindings(table, NoSlot, kk, vv)
    BY <1>3, <2>3, NoClaim
  <2>5. Contents(table', s) = Contents(table, NoSlot)
    BY <1>1, <2>4, ContentsSame
  <2>6. MapContents' = MapContents
    BY <1>1, <1>2, <1>7, <2>5 DEF s
  <2> QED
    BY <1>2, <1>4, <1>7, <2>6, AbstractStutter
<1> QED
  BY <1>6, <1>7

LEMMA StoreStep ==
  ASSUME Inv, Next, OneBorrow, NEW v \in Values, StoreDefault(v)
  PROVE  \E k \in Keys : Abstract!OrInsert(k, v)
<1>1. /\ HashType /\ Sound(table) /\ TableType(table) /\ Keyed(table) /\ ClaimHeld
      /\ Sound(table') /\ Keyed(table')
      /\ MapContents = Contents(table, claim) /\ MapTodo = Todo(table, iter)
      /\ MapContents' = Contents(table', claim') /\ MapTodo' = Todo(table', iter')
  BY StepFacts
<1>2. /\ claim # NoSlot /\ claim' = NoSlot /\ iter' = iter /\ iter = NoSlot
      /\ table' = Kept(table, claim, v) /\ ret' = <<"value", v>>
  BY DEF StoreDefault, OneBorrow, Kept
<1>3. claim \in Occupied(table)
  BY <1>1, <1>2 DEF ClaimHeld
<1>4. PICK k \in Keys : k = table.key[claim]
  BY <1>1, <1>3 DEF TableType
<1>5. \A kk, vv : Binds(table', kk, vv) <=>
                    (kk = k /\ vv = v) \/ (kk # k /\ Binds(table, kk, vv))
  BY <1>1, <1>2, <1>3, <1>4, ValueBinds
<1>6. ASSUME NEW kk, NEW vv, kk # k
      PROVE  Bindings(table, claim, kk, vv) <=> Binds(table, kk, vv)
  <2>1. \A s \in Occupied(table) : table.key[s] = kk => s # claim
    BY <1>4, <1>6
  <2> QED
    BY <2>1 DEF Bindings, Binds, Live
<1>7. \A kk, vv : Bindings(table', NoSlot, kk, vv) <=>
                    (kk = k /\ vv = v) \/ (kk # k /\ Bindings(table, claim, kk, vv))
  <2>1. \A kk, vv : Bindings(table', NoSlot, kk, vv) <=> Binds(table', kk, vv)
    BY NoClaim
  <2> QED
    BY <1>5, <1>6, <2>1
<1>8. MapContents' = WithKey(MapContents, k, v)
  BY <1>1, <1>2, <1>7, ContentsWith
<1>9. MapTodo' = MapTodo
  BY <1>1, <1>2 DEF Todo
<1>10. Abstract!OrInsert(k, v)
  BY <1>2, <1>4, <1>8, <1>9, AbstractSteps
<1> QED
  BY <1>10

LEMMA ModifyStep ==
  ASSUME Inv, Next, NEW k \in Keys, NEW v \in Values, Modify(k, v)
  PROVE  Abstract!Modify(k, v)
<1> DEFINE s == Lookup(table, k)
<1>1. /\ HashType /\ Sound(table) /\ TableType(table) /\ Keyed(table) /\ Keyed(table')
      /\ MapContents = Contents(table, claim) /\ MapTodo = Todo(table, iter)
      /\ MapContents' = Contents(table', claim') /\ MapTodo' = Todo(table', iter')
  BY StepFacts
<1>2. /\ claim = NoSlot /\ claim' = NoSlot /\ iter = NoSlot /\ iter' = iter /\ ret' = ret
      /\ s = NoSlot => table' = table
      /\ s # NoSlot => table' = Kept(table, s, v)
  BY DEF Modify, Idle, Kept
<1>3. s # NoSlot <=> k \in DOMAIN MapContents
  BY <1>1, <1>2, ContentsLookup
<1>4. s # NoSlot => s \in Occupied(table) /\ table.key[s] = k
  BY <1>1, LookupFacts
<1> HIDE DEF s
<1>5. MapTodo' = MapTodo
  BY <1>1, <1>2 DEF Todo
<1>6. CASE s = NoSlot
  BY <1>1, <1>2, <1>3, <1>5, <1>6, AbstractSteps
<1>7. CASE s # NoSlot
  <2>1. \A kk, vv : Binds(table', kk, vv) <=>
                      (kk = k /\ vv = v) \/ (kk # k /\ Binds(table, kk, vv))
    BY <1>1, <1>2, <1>4, <1>7, ValueBinds
  <2>2. \A kk, vv : Bindings(table', NoSlot, kk, vv) <=>
                      (kk = k /\ vv = v) \/ (kk # k /\ Bindings(table, NoSlot, kk, vv))
    BY <2>1, NoClaim
  <2>3. MapContents' = WithKey(MapContents, k, v)
    BY <1>1, <1>2, <2>2, ContentsWith
  <2> QED
    BY <1>2, <1>3, <1>5, <1>7, <2>3, AbstractSteps
<1> QED
  BY <1>6, <1>7

LEMMA RemoveStep ==
  ASSUME Inv, Next, NEW k \in Keys, Remove(k)
  PROVE  Abstract!Remove(k)
<1> DEFINE s == Lookup(table, k)
<1>1. /\ HashType /\ Sound(table) /\ Loaded(table) /\ TableType(table) /\ Keyed(table)
      /\ Keyed(table')
      /\ MapContents = Contents(table, claim) /\ MapTodo = Todo(table, iter)
      /\ MapContents' = Contents(table', claim') /\ MapTodo' = Todo(table', iter')
  BY StepFacts
<1>2. /\ claim = NoSlot /\ claim' = NoSlot /\ iter = NoSlot /\ iter' = iter
      /\ ret' = <<"value", ValueOf(table, k)>>
      /\ s = NoSlot => table' = table
      /\ s # NoSlot => table' = RemovedAt(table, s)
  BY DEF Remove, Idle, RemovedAt
<1>3. ValueOf(table, k) = BoundIn(MapContents, k)
  BY <1>1, <1>2, ContentsLookup
<1>4. /\ s # NoSlot => s \in Occupied(table) /\ table.key[s] = k
      /\ s = NoSlot => \A r \in Occupied(table) : table.key[r] # k
      /\ \A r \in Occupied(table) : table.key[r] = k => r = s
      /\ \A r \in Occupied(table) : table.key[r] \in Keys
  BY <1>1, LookupFacts DEF TableType
<1> HIDE DEF s
<1>5. MapTodo' = MapTodo
  BY <1>1, <1>2 DEF Todo
<1>6. \A kk, vv : Binds(table', kk, vv) <=> (kk \in Keys \ {k} /\ Binds(table, kk, vv))
  <2>1. CASE s = NoSlot
    BY <1>2, <1>4, <2>1 DEF Binds
  <2>2. CASE s # NoSlot
    <3>1. /\ Occupied(table') = Occupied(table) \ {s}
          /\ \A r \in Occupied(table') : /\ table'.key[r] = table.key[r]
                                         /\ table'.val[r] = table.val[r]
      BY <1>1, <1>2, <1>4, <2>2, RemovedFacts
    <3> QED
      BY <1>4, <2>2, <3>1 DEF Binds
  <2> QED
    BY <2>1, <2>2
<1>7. \A kk, vv : Bindings(table', NoSlot, kk, vv) <=>
                    (kk \in Keys \ {k} /\ Bindings(table, NoSlot, kk, vv))
  BY <1>6, NoClaim
<1>8. MapContents' = Only(MapContents, Keys \ {k})
  BY <1>1, <1>2, <1>7, ContentsOnly
<1> QED
  BY <1>2, <1>3, <1>5, <1>8, AbstractSteps

\* The operations that only read.
LEMMA ReadStep ==
  ASSUME Inv, Next, OneBorrow,
         \/ \E k \in Keys : Get(k) \/ ContainsKey(k)
         \/ Len \/ Traverse \/ Break
  PROVE  Abstract!Next
<1>1. /\ HashType /\ Sound(table)
      /\ MapContents = Contents(table, claim) /\ MapTodo = Todo(table, iter)
      /\ MapContents' = Contents(table', claim') /\ MapTodo' = Todo(table', iter')
  BY StepFacts
<1>2. claim = NoSlot /\ claim' = claim /\ table' = table
  BY DEF OneBorrow, Get, ContainsKey, Len, Traverse, Break, Idle
<1>3. MapContents' = MapContents /\ MapContents = Contents(table, NoSlot)
  BY <1>1, <1>2
<1>4. ASSUME NEW k \in Keys, Get(k) PROVE Abstract!Get(k)
  <2>1. ret' = <<"value", ValueOf(table, k)>> /\ iter' = iter
    BY <1>4 DEF Get
  <2>2. MapTodo' = MapTodo
    BY <1>1, <1>2, <2>1
  <2>3. ValueOf(table, k) = BoundIn(MapContents, k)
    BY <1>1, <1>3, ContentsLookup
  <2> QED
    BY <1>3, <2>1, <2>2, <2>3, AbstractReads
<1>5. ASSUME NEW k \in Keys, ContainsKey(k) PROVE Abstract!ContainsKey(k)
  <2>1. ret' = <<"found", Lookup(table, k) # NoSlot>> /\ iter' = iter
    BY <1>5 DEF ContainsKey
  <2>2. MapTodo' = MapTodo
    BY <1>1, <1>2, <2>1
  <2>3. (Lookup(table, k) # NoSlot) = (k \in DOMAIN MapContents)
    <3>1. Lookup(table, k) # NoSlot <=> k \in DOMAIN MapContents
      BY <1>1, <1>3, ContentsLookup
    <3>2. (Lookup(table, k) # NoSlot) \in BOOLEAN /\ (k \in DOMAIN MapContents) \in BOOLEAN
      OBVIOUS
    <3> QED
      BY <3>1, <3>2
  <2>4. ret' = <<"found", k \in DOMAIN MapContents>>
    BY <2>1, <2>3, Zenon
  <2> QED
    BY <1>3, <2>2, <2>4, AbstractReads
<1>6. CASE Len
  <2>1. ret' = <<"len", table.len>> /\ iter' = iter
    BY <1>6 DEF Len
  <2>2. MapTodo' = MapTodo
    BY <1>1, <1>2, <2>1
  <2>3. table.len = Cardinality(DOMAIN MapContents)
    BY <1>1, <1>3, ContentsLen
  <2> QED
    BY <1>3, <2>1, <2>2, <2>3, AbstractReads DEF Abstract!Next
<1>7. CASE Traverse
  <2>1. iter' = 0 /\ ret' = ret
    BY <1>7 DEF Traverse
  <2>2. MapTodo' = DOMAIN MapContents
    BY <1>1, <1>2, <1>3, <2>1, TodoFacts
  <2> QED
    BY <1>3, <2>1, <2>2, AbstractReads DEF Abstract!Next
<1>8. CASE Break
  <2>1. iter' = NoSlot /\ ret' = ret
    BY <1>8 DEF Break
  <2>2. MapTodo' = {}
    BY <1>1, <2>1 DEF Todo
  <2> QED
    BY <1>3, <2>1, <2>2, AbstractReads DEF Abstract!Next
<1> QED
  BY <1>4, <1>5, <1>6, <1>7, <1>8 DEF Abstract!Next

\* The next entry of a traversal is one it has not returned, and is in the map:
\* nothing writes while the traversal is open.
LEMMA IterStep ==
  ASSUME Inv, Next, OneBorrow, IterNext
  PROVE  Abstract!Next
<1> DEFINE left == LiveFrom(table, iter)
<1>1. /\ HashType /\ Sound(table) /\ TableType(table) /\ Keyed(table) /\ ClaimHeld
      /\ MapContents = Contents(table, claim) /\ MapTodo = Todo(table, iter)
      /\ MapContents' = Contents(table', claim') /\ MapTodo' = Todo(table', iter')
  BY StepFacts
<1>2. /\ iter # NoSlot /\ iter \in Nat /\ claim = NoSlot /\ claim' = claim
      /\ table' = table
  BY <1>1 DEF OneBorrow, IterNext, ClaimHeld
<1>3. MapContents' = MapContents /\ MapContents = Contents(table, NoSlot)
  BY <1>1, <1>2
<1>4. CASE left = {}
  <2>1. iter' = NoSlot /\ ret' = <<"value", None>>
    BY <1>4 DEF IterNext
  <2>2. MapTodo = {} /\ MapTodo' = {}
    BY <1>1, <1>2, <1>4, <2>1, TodoFacts
  <2> QED
    BY <1>3, <2>1, <2>2, AbstractReads DEF Abstract!Next
<1>5. CASE left # {}
  <2> DEFINE m == Min(left)
  <2>1. iter' = m + 1 /\ ret' = <<"entry", table.key[m], table.val[m]>>
    BY <1>5 DEF IterNext
  <2>2. /\ m \in Occupied(table) /\ table.key[m] \in Todo(table, iter)
        /\ Todo(table, m + 1) = Todo(table, iter) \ {table.key[m]}
    BY <1>1, <1>2, <1>5, TodoFacts
  <2> HIDE DEF m
  <2>3. PICK k \in Keys : k = table.key[m]
    BY <1>1, <2>2 DEF TableType
  <2>4. MapContents[k] = table.val[m]
    BY <1>1, <1>3, <2>2, <2>3, ContentsBindings, NoClaim
  <2>5. k \in MapTodo /\ MapTodo' = MapTodo \ {k} /\ ret' = <<"entry", k, MapContents[k]>>
    BY <1>1, <1>2, <2>1, <2>2, <2>3, <2>4
  <2>6. Abstract!NextEntry(k)
    BY <1>3, <2>5, AbstractReads
  <2> QED
    BY <2>6 DEF Abstract!Next
<1> QED
  BY <1>4, <1>5

LEMMA ClearStep ==
  ASSUME Inv, Next, Clear
  PROVE  Abstract!Clear
<1>1. /\ HashType /\ Sound(table) /\ TableType(table) /\ Keyed(table) /\ Keyed(table')
      /\ MapContents = Contents(table, claim) /\ MapTodo = Todo(table, iter)
      /\ MapContents' = Contents(table', claim') /\ MapTodo' = Todo(table', iter')
  BY StepFacts
<1>2. /\ claim = NoSlot /\ claim' = NoSlot /\ iter = NoSlot /\ iter' = iter /\ ret' = ret
      /\ table' = Fresh(Capacity(table))
  BY DEF Clear, Idle
<1>3. Occupied(table') = {}
  BY <1>1, <1>2, FreshFacts DEF TableType
<1>4. \A kk, vv : Bindings(table', NoSlot, kk, vv) <=>
                    (kk \in {} /\ Bindings(table, NoSlot, kk, vv))
  BY <1>3, NoClaim DEF Binds
<1>5. MapContents' = Only(MapContents, {})
  BY <1>1, <1>2, <1>4, ContentsOnly
<1>6. MapTodo' = MapTodo
  BY <1>1, <1>2 DEF Todo
<1> QED
  BY <1>2, <1>5, <1>6, AbstractClear

LEMMA CloneStutters ==
  ASSUME Inv, Next, Clone
  PROVE  UNCHANGED Abstract!vars
<1>1. /\ HashType /\ Sound(table) /\ Keyed(table) /\ Keyed(table')
      /\ MapContents = Contents(table, claim) /\ MapTodo = Todo(table, iter)
      /\ MapContents' = Contents(table', claim') /\ MapTodo' = Todo(table', iter')
  BY StepFacts
<1>2. /\ claim = NoSlot /\ claim' = NoSlot /\ iter = NoSlot /\ iter' = iter /\ ret' = ret
      /\ table' = Clones(table)[Capacity(table)]
  BY DEF Clone, Clones, CloneStep, Idle
<1>3. \A kk, vv : Binds(table', kk, vv) <=> Binds(table, kk, vv)
  BY <1>1, <1>2, CloneFacts
<1>4. \A kk, vv : Bindings(table', NoSlot, kk, vv) <=> Bindings(table, NoSlot, kk, vv)
  BY <1>3, NoClaim
<1>5. MapContents' = MapContents
  BY <1>1, <1>2, <1>4, ContentsSame
<1>6. MapTodo' = MapTodo
  BY <1>1, <1>2 DEF Todo
<1> QED
  BY <1>2, <1>5, <1>6, AbstractStutter

LEMMA AbstractNext ==
  Inv /\ OneBorrow /\ [Next]_vars => [Abstract!Next]_Abstract!vars
<1> SUFFICES ASSUME Inv, OneBorrow, [Next]_vars
             PROVE  Abstract!Next \/ UNCHANGED Abstract!vars
  OBVIOUS
<1>1. CASE UNCHANGED vars
  <2>1. MapContents' = MapContents /\ MapTodo' = MapTodo /\ ret' = ret
    BY <1>1 DEF vars, MapContents, MapTodo, Entries, InStatus, LiveFrom
  <2> QED
    BY <2>1, AbstractStutter
<1>2. CASE Next
  <2>0. HashType /\ Sound(table) /\ Loaded(table)
    BY DEF Inv
  <2>1. ASSUME NEW k \in Keys, NEW v \in Values, Insert(k, v) \/ MonoInsert(k, v)
        PROVE  Abstract!Next
    <3>1. Insert(k, v)
      BY <2>0, <2>1, MonoInsertIsInsert
    <3> QED
      BY <1>2, <3>1, InsertStep DEF Abstract!Next
  <2>2. ASSUME NEW k \in Keys, NEW v \in Values, Entry(k, v)
        PROVE  Abstract!Next \/ UNCHANGED Abstract!vars
    BY <1>2, <2>2, EntryStep DEF Abstract!Next
  <2>3. ASSUME NEW k \in Keys, NEW v \in Values, Modify(k, v) PROVE Abstract!Next
    BY <1>2, <2>3, ModifyStep DEF Abstract!Next
  <2>4. ASSUME NEW k \in Keys, Remove(k) PROVE Abstract!Next
    BY <1>2, <2>4, RemoveStep DEF Abstract!Next
  <2>5. ASSUME NEW k \in Keys, Get(k) \/ MonoGet(k) PROVE Abstract!Next
    <3>1. Get(k)
      BY <2>0, <2>5, MonoGetIsGet
    <3> QED
      BY <1>2, <3>1, ReadStep
  <2>6. ASSUME (\E k \in Keys : ContainsKey(k)) \/ Len \/ Traverse \/ Break
        PROVE  Abstract!Next
    BY <1>2, <2>6, ReadStep
  <2>7. ASSUME NEW v \in Values, StoreDefault(v) PROVE Abstract!Next
    BY <1>2, <2>7, StoreStep DEF Abstract!Next
  <2>8. CASE IterNext
    BY <1>2, <2>8, IterStep
  <2>9. CASE Clear
    BY <1>2, <2>9, ClearStep DEF Abstract!Next
  <2>10. CASE Clone
    BY <1>2, <2>10, CloneStutters
  <2> QED
    BY <1>2, <2>1, <2>2, <2>3, <2>4, <2>5, <2>6, <2>7, <2>8, <2>9, <2>10 DEF Next
<1> QED
  BY <1>1, <1>2

LEMMA AbstractInit == Init => Abstract!Init
<1> SUFFICES ASSUME Init PROVE Abstract!Init
  OBVIOUS
<1>1. Occupied(table) = {} /\ TableType(table) /\ Keyed(table)
  BY CapacityAssumption, FreshFacts DEF Init, Sound
<1>2. MapContents = Contents(table, claim) /\ MapTodo = {} /\ ret = <<"value", None>>
  BY <1>1, MappedState DEF Init, MapTodo
<1>3. \A kk, vv : Bindings(table, claim, kk, vv) <=>
                    (kk \in {} /\ Bindings(table, claim, kk, vv))
  BY <1>1 DEF Bindings, Live
<1>4. MapContents = Only(MapContents, {})
  BY <1>1, <1>2, <1>3, ContentsOnly
<1> QED
  BY <1>2, <1>4 DEF MapContents, MapTodo, Only, Abstract!Init, Abstract!Restricted

\* map.rs, and the copies of insert and get the compiler emits, implement a
\* function from keys to values: each operation leaves and returns what the
\* function says, an entry chain takes effect when its default is stored, and a
\* traversal returns each entry once.
THEOREM MapImplementsFunction == Spec => ImplementsMap
<1>1. Init => OneBorrow
  BY DEF Init, OneBorrow
<1> QED
  BY <1>1, OneBorrowStep, MapInvariant, AbstractInit, AbstractNext, PTL
  DEF Spec, ImplementsMap, Abstract!Spec
=============================================================================
