----------------------------- MODULE KaracMap -----------------------------
(***************************************************************************)
(* The hash map of compiled programs (runtime/src/map.rs): open addressing *)
(* with linear probing, tombstones, and a load factor that counts them.    *)
(*                                                                         *)
(* A map belongs to one thread, so an operation of the C ABI is one step.  *)
(* Two things take several: an entry chain, whose default expression runs  *)
(* between the claim of the bucket and the store of the value, and a       *)
(* traversal.  The copies of `insert` and `get` that the compiler emits    *)
(* for integer keys work on the same buckets and are actions of their own. *)
(***************************************************************************)
EXTENDS Integers, FiniteSets, FiniteSetsExt

CONSTANTS
  Keys, Values,
  None,            \* Option::None, also the value of unwritten memory
  InitialCapacity, \* INITIAL_CAPACITY, a power of two
  MaxCapacity,     \* bound on the capacity
  Hashes           \* the values of the hash function

ASSUME NoneAssumption == None \notin Values
ASSUME CapacityAssumption ==
  InitialCapacity \in Nat \ {0} /\ MaxCapacity \in Nat /\ Hashes \subseteq Nat

VARIABLES
  hash,  \* hash_fn
  table, \* the KaracMap: status, key and val per bucket, len, tombstones;
         \* the bytes left in a bucket that is not occupied are not read,
         \* and are None here
  claim, \* bucket claimed by an entry chain whose default is not stored yet
  iter,  \* index of the traversal in progress
  ret    \* result of the last operation

vars == <<hash, table, claim, iter, ret>>

NoSlot == -1

Status == {"EMPTY", "OCCUPIED", "TOMBSTONE"}

Capacity(t) == Cardinality(DOMAIN t.status)

Fresh(cap) ==
  [status |-> [s \in 0..(cap - 1) |-> "EMPTY"],
   key |-> [s \in 0..(cap - 1) |-> None],
   val |-> [s \in 0..(cap - 1) |-> None],
   len |-> 0, tombstones |-> 0]

-----------------------------------------------------------------------------
(* Probing. *)

\* The i-th bucket of the probe sequence of k.
Probe(t, k, i) == (hash[k] + i) % Capacity(t)

Holds(t, s, k) == t.status[s] = "OCCUPIED" /\ t.key[s] = k

\* Steps at which a search for k ends.
Stops(t, k) ==
  {i \in DOMAIN t.status :
     LET s == Probe(t, k, i) IN t.status[s] = "EMPTY" \/ Holds(t, s, k)}

Lookup(t, k) ==
  LET stop == IF Stops(t, k) = {} THEN NoSlot ELSE Min(Stops(t, k))
      s == Probe(t, k, stop)
  IN IF stop # NoSlot /\ Holds(t, s, k) THEN s ELSE NoSlot

\* Mutant of FindInsertSlot: stops at the first tombstone.
FindInsertSlotAtTombstone(t, k) ==
  LET free == {i \in DOMAIN t.status :
                 t.status[Probe(t, k, i)] # "OCCUPIED" \/ Holds(t, Probe(t, k, i), k)}
  IN IF free = {} THEN 0 ELSE Probe(t, k, Min(free))

\* The first tombstone of the sequence is reused, but only once the whole
\* sequence was searched for the key.
FindInsertSlot(t, k) ==
  LET before == {i \in DOMAIN t.status : \A j \in Stops(t, k) : i < j}
      tombs == {i \in before : t.status[Probe(t, k, i)] = "TOMBSTONE"}
      found == Lookup(t, k)
  IN CASE found # NoSlot -> found
       [] found = NoSlot /\ tombs # {} -> Probe(t, k, Min(tombs))
       [] found = NoSlot /\ tombs = {} /\ Stops(t, k) # {} ->
            Probe(t, k, Min(Stops(t, k)))
       [] OTHER -> 0

\* Key and value written into bucket s, which becomes occupied.
Fill(t, s, k, v) ==
  LET fresh == ~Holds(t, s, k) IN
  [t EXCEPT
     !.status[s] = "OCCUPIED", !.key[s] = k, !.val[s] = v,
     !.len = IF fresh THEN @ + 1 ELSE @,
     !.tombstones = IF fresh /\ t.status[s] = "TOMBSTONE" THEN @ - 1 ELSE @]

\* Mutant of Overloaded: tombstones do not count.
OverloadedByEntries(t) == (t.len + 1) * 4 > Capacity(t) * 3

Overloaded(t) == (t.len + t.tombstones + 1) * 4 > Capacity(t) * 3

\* Mutant of Resize: the counter of tombstones survives.
ResizeKeepsTombstones(t) ==
  LET copied[i \in 0..Capacity(t)] ==
        IF i = 0 THEN [Fresh(2 * Capacity(t)) EXCEPT !.tombstones = t.tombstones]
        ELSE LET c == copied[i - 1]
                 k == t.key[i - 1]
             IN IF t.status[i - 1] = "OCCUPIED"
                THEN Fill(c, FindInsertSlot(c, k), k, t.val[i - 1])
                ELSE c
  IN copied[Capacity(t)]

\* The entries re-inserted in bucket order into a table of twice the size.
\* Their own load test cannot fire: the entries of a table fill less than
\* half of one twice as large.
Resize(t) ==
  LET copied[i \in 0..Capacity(t)] ==
        IF i = 0 THEN Fresh(2 * Capacity(t))
        ELSE LET c == copied[i - 1]
                 k == t.key[i - 1]
             IN IF t.status[i - 1] = "OCCUPIED"
                THEN Fill(c, FindInsertSlot(c, k), k, t.val[i - 1])
                ELSE c
  IN copied[Capacity(t)]

Prepared(t) == IF Overloaded(t) THEN Resize(t) ELSE t

Inserted(t, k, v) ==
  LET p == Prepared(t) IN Fill(p, FindInsertSlot(p, k), k, v)

ValueOf(t, k) == LET s == Lookup(t, k) IN IF s = NoSlot THEN None ELSE t.val[s]

\* The probe loop the compiler emits for integer keys carries the step i
\* and the first tombstone ft; it ends with the bucket to write and whether
\* the key was there, or exhausted, with no bucket.
MonoProbe(t, k) ==
  LET cap == Capacity(t)
      loop[i \in 0..cap] == \* the state <<ft, slot, existed>> before step i
        IF i = 0 THEN <<NoSlot, NoSlot, FALSE>>
        ELSE LET ft == loop[i - 1][1]
                 s == Probe(t, k, i - 1)
             IN CASE loop[i - 1][2] # NoSlot -> loop[i - 1]
                  [] loop[i - 1][2] = NoSlot /\ t.status[s] = "EMPTY" ->
                       <<ft, IF ft # NoSlot THEN ft ELSE s, FALSE>>
                  [] loop[i - 1][2] = NoSlot /\ t.status[s] = "TOMBSTONE" ->
                       <<IF ft # NoSlot THEN ft ELSE s, NoSlot, FALSE>>
                  [] OTHER ->
                       IF t.key[s] = k THEN <<ft, s, TRUE>> ELSE loop[i - 1]
  IN loop[cap]
-----------------------------------------------------------------------------
(* The operations.  While an entry chain or a traversal is open, the map  *)
(* is borrowed and the program does not change it.                        *)

Idle == claim = NoSlot /\ iter = NoSlot

Fits(t) == Capacity(Prepared(t)) <= MaxCapacity

Init ==
  /\ hash \in [Keys -> Hashes]
  /\ table = Fresh(InitialCapacity)
  /\ claim = NoSlot /\ iter = NoSlot /\ ret = <<"value", None>>

\* karac_map_insert_old; karac_map_insert is the same without the result.
Insert(k, v) ==
  /\ Idle /\ Fits(table)
  /\ table' = Inserted(table, k, v)
  /\ ret' = <<"value", ValueOf(Prepared(table), k)>>
  /\ UNCHANGED <<hash, claim, iter>>

MonoInsert(k, v) ==
  /\ Idle /\ Fits(table)
  /\ LET p == MonoProbe(table, k)
         slot == p[2]
     IN IF Overloaded(table) \/ slot = NoSlot
        THEN /\ table' = Inserted(table, k, v)
             /\ ret' = <<"value", ValueOf(Prepared(table), k)>>
        ELSE /\ table' =
                  IF p[3] THEN [table EXCEPT !.val[slot] = v]
                  ELSE [table EXCEPT
                          !.status[slot] = "OCCUPIED",
                          !.key[slot] = k, !.val[slot] = v,
                          !.len = @ + 1,
                          !.tombstones = IF p[1] # NoSlot THEN @ - 1 ELSE @]
             /\ ret' = <<"value", IF p[3] THEN table.val[slot] ELSE None>>
  /\ UNCHANGED <<hash, claim, iter>>

\* karac_map_get
Get(k) ==
  /\ claim = NoSlot
  /\ ret' = <<"value", ValueOf(table, k)>>
  /\ UNCHANGED <<hash, table, claim, iter>>

MonoGet(k) ==
  /\ claim = NoSlot
  /\ LET p == MonoProbe(table, k) IN
     ret' = <<"value", IF p[3] THEN table.val[p[2]] ELSE None>>
  /\ UNCHANGED <<hash, table, claim, iter>>

ContainsKey(k) ==
  /\ claim = NoSlot
  /\ ret' = <<"found", Lookup(table, k) # NoSlot>>
  /\ UNCHANGED <<hash, table, claim, iter>>

Len ==
  /\ claim = NoSlot
  /\ ret' = <<"len", table.len>>
  /\ UNCHANGED <<hash, table, claim, iter>>

\* Mutant of Remove: the bucket becomes empty.
RemoveEmpties(k) ==
  /\ Idle
  /\ LET s == Lookup(table, k) IN
     /\ ret' = <<"value", ValueOf(table, k)>>
     /\ table' = IF s = NoSlot THEN table
                 ELSE [table EXCEPT
                         !.status[s] = "EMPTY", !.key[s] = None, !.val[s] = None,
                         !.len = @ - 1]
  /\ UNCHANGED <<hash, claim, iter>>

\* karac_map_remove_old; karac_map_remove is the same without the value.
Remove(k) ==
  /\ Idle
  /\ LET s == Lookup(table, k) IN
     /\ ret' = <<"value", ValueOf(table, k)>>
     /\ table' = IF s = NoSlot THEN table
                 ELSE [table EXCEPT
                         !.status[s] = "TOMBSTONE", !.key[s] = None, !.val[s] = None,
                         !.len = @ - 1, !.tombstones = @ + 1]
  /\ UNCHANGED <<hash, claim, iter>>

\* The capacity is kept.
Clear ==
  /\ Idle
  /\ table' = Fresh(Capacity(table))
  /\ UNCHANGED <<hash, claim, iter, ret>>

\* A clone is filled by insertion, in the order of the original's buckets.
Clone ==
  /\ Idle
  /\ LET copied[i \in 0..Capacity(table)] ==
           IF i = 0 THEN Fresh(InitialCapacity)
           ELSE IF table.status[i - 1] = "OCCUPIED"
                THEN Inserted(copied[i - 1], table.key[i - 1], table.val[i - 1])
                ELSE copied[i - 1]
     IN table' = copied[Capacity(table)]
  /\ UNCHANGED <<hash, claim, iter, ret>>

\* A chain that ends in or_insert claims the bucket of an absent key, with
\* its value half unwritten; a present key's value goes through the
\* and_modify closures, which leave v (no closure: the value it has).
Entry(k, v) ==
  /\ Idle /\ Fits(table)
  /\ LET p == Prepared(table)
         s == FindInsertSlot(p, k)
     IN IF Holds(p, s, k)
        THEN /\ table' = [p EXCEPT !.val[s] = v]
             /\ ret' = <<"value", v>>
             /\ UNCHANGED claim
        ELSE /\ table' = Fill(p, s, k, None)
             /\ claim' = s
             /\ UNCHANGED ret
  /\ UNCHANGED <<hash, iter>>

\* The default of or_insert or or_insert_with was computed.  (One that is
\* left by `?` or `return` never gets here: see the README.)
StoreDefault(v) ==
  /\ claim # NoSlot
  /\ table' = [table EXCEPT !.val[claim] = v]
  /\ claim' = NoSlot
  /\ ret' = <<"value", v>>
  /\ UNCHANGED <<hash, iter>>

\* A chain that ends in and_modify.
Modify(k, v) ==
  /\ Idle
  /\ LET s == Lookup(table, k) IN
     table' = IF s = NoSlot THEN table ELSE [table EXCEPT !.val[s] = v]
  /\ UNCHANGED <<hash, claim, iter, ret>>

\* karac_map_iter_new
Traverse ==
  /\ Idle
  /\ iter' = 0
  /\ UNCHANGED <<hash, table, claim, ret>>

LiveFrom(t, i) == {s \in DOMAIN t.status : s >= i /\ t.status[s] = "OCCUPIED"}

\* karac_map_iter_next: the next occupied bucket, or the end, where the
\* loop frees the iterator.
IterNext ==
  /\ iter # NoSlot
  /\ LET left == LiveFrom(table, iter) IN
     IF left = {}
     THEN iter' = NoSlot /\ ret' = <<"value", None>>
     ELSE /\ iter' = Min(left) + 1
          /\ ret' = <<"entry", table.key[Min(left)], table.val[Min(left)]>>
  /\ UNCHANGED <<hash, table, claim>>

\* `break` reaches karac_map_iter_free too.
Break ==
  /\ iter # NoSlot
  /\ iter' = NoSlot
  /\ UNCHANGED <<hash, table, claim, ret>>

Next ==
  \/ \E k \in Keys, v \in Values :
       Insert(k, v) \/ MonoInsert(k, v) \/ Entry(k, v) \/ Modify(k, v)
  \/ \E k \in Keys : Get(k) \/ MonoGet(k) \/ ContainsKey(k) \/ Remove(k)
  \/ \E v \in Values : StoreDefault(v)
  \/ Len \/ Clear \/ Clone
  \/ Traverse \/ IterNext \/ Break

Spec == Init /\ [][Next]_vars
-----------------------------------------------------------------------------
(* Properties. *)

TypeOK ==
  /\ hash \in [Keys -> Hashes]
  /\ \E cap \in 1..MaxCapacity :
       table \in [status : [0..(cap - 1) -> Status],
                  key : [0..(cap - 1) -> Keys \cup {None}],
                  val : [0..(cap - 1) -> Values \cup {None}],
                  len : 0..cap, tombstones : 0..cap]
  /\ claim \in DOMAIN table.status \cup {NoSlot}
  /\ iter \in DOMAIN table.status \cup {NoSlot, Capacity(table)}

InStatus(st) == {s \in DOMAIN table.status : table.status[s] = st}

\* len and tombstones, which the load test adds up, are the numbers of
\* occupied and of deleted buckets after any history of insertions,
\* removals, reuses, claims, clears and resizes.
CountersExact ==
  /\ table.len = Cardinality(InStatus("OCCUPIED"))
  /\ table.tombstones = Cardinality(InStatus("TOMBSTONE"))

\* A search for an absent key, and an insertion, always meet an empty
\* bucket: the fallback `first_tombstone.unwrap_or(0)` of find_insert_slot,
\* which may overwrite bucket 0, is never reached.
ProbeMeetsEmpty == InStatus("EMPTY") # {}

\* No bucket between the start of a key's probe sequence and the bucket
\* that holds it is empty, so every stored key is found, and it is stored
\* once.
KeysReachable ==
  \A s \in InStatus("OCCUPIED") : Lookup(table, table.key[s]) = s

\* The map is a function from keys to values: each operation, whichever
\* copy of the code performs it, leaves and returns what the abstract map
\* leaves and returns; an entry chain takes effect when its default is
\* stored, and a traversal returns each entry once and all of them.
Entries == InStatus("OCCUPIED") \ {claim}

Abstract == INSTANCE AbstractMap WITH
  contents <- [k \in {table.key[s] : s \in Entries} |->
                 table.val[CHOOSE s \in Entries : table.key[s] = k]],
  todo <- IF iter = NoSlot THEN {}
          ELSE {table.key[s] : s \in LiveFrom(table, iter)}

ImplementsMap == Abstract!Spec
=============================================================================
