---------------------------- MODULE AbstractMap ----------------------------
(***************************************************************************)
(* What a Map[K, V] promises: a finite function from keys to values, whose *)
(* operations return what the function says, and whose iteration returns   *)
(* each entry once, in any order.                                          *)
(***************************************************************************)
EXTENDS FiniteSets

CONSTANTS Keys, Values, None

VARIABLES
  contents, \* the bindings of the map
  todo,     \* keys the iteration in progress has not returned yet
  ret       \* result of the last operation

vars == <<contents, todo, ret>>

Bound(k) == IF k \in DOMAIN contents THEN contents[k] ELSE None

With(k, v) ==
  [x \in DOMAIN contents \cup {k} |-> IF x = k THEN v ELSE contents[x]]

Restricted(ks) == [x \in DOMAIN contents \cap ks |-> contents[x]]

Init == contents = Restricted({}) /\ todo = {} /\ ret = <<"value", None>>

Insert(k, v) ==
  contents' = With(k, v) /\ ret' = <<"value", Bound(k)>> /\ todo' = todo

Remove(k) ==
  /\ contents' = Restricted(Keys \ {k})
  /\ ret' = <<"value", Bound(k)>>
  /\ todo' = todo

Get(k) == ret' = <<"value", Bound(k)>> /\ UNCHANGED <<contents, todo>>

ContainsKey(k) ==
  ret' = <<"found", k \in DOMAIN contents>> /\ UNCHANGED <<contents, todo>>

Len ==
  ret' = <<"len", Cardinality(DOMAIN contents)>> /\ UNCHANGED <<contents, todo>>

Clear == contents' = Restricted({}) /\ UNCHANGED <<todo, ret>>

\* m.entry(k).and_modify(|v| ..): an absent key stays absent.
Modify(k, v) ==
  /\ contents' = IF k \in DOMAIN contents THEN With(k, v) ELSE contents
  /\ UNCHANGED <<todo, ret>>

\* m.entry(k).and_modify(|v| ..).or_insert(d): the value then bound to k.
OrInsert(k, v) ==
  contents' = With(k, v) /\ ret' = <<"value", v>> /\ todo' = todo

\* The start of a traversal, its next entry, and its end (a `break` may
\* give up what is left).
Traverse == todo' = DOMAIN contents /\ UNCHANGED <<contents, ret>>

NextEntry(k) ==
  /\ k \in todo
  /\ todo' = todo \ {k}
  /\ ret' = <<"entry", k, contents[k]>>
  /\ UNCHANGED contents

Exhausted == todo = {} /\ ret' = <<"value", None>> /\ UNCHANGED <<contents, todo>>

Break == todo' = {} /\ UNCHANGED <<contents, ret>>

Next ==
  \/ \E k \in Keys, v \in Values : Insert(k, v) \/ Modify(k, v) \/ OrInsert(k, v)
  \/ \E k \in Keys : Remove(k) \/ Get(k) \/ ContainsKey(k) \/ NextEntry(k)
  \/ Len \/ Clear \/ Traverse \/ Exhausted \/ Break

Spec == Init /\ [][Next]_vars
=============================================================================
