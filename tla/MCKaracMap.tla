---------------------------- MODULE MCKaracMap ----------------------------
(***************************************************************************)
(* KaracMap on a table of a few buckets whose keys collide.                *)
(***************************************************************************)
EXTENDS KaracMap, TLC

\* Home buckets 0, 1, 1 of two, 0, 1, 3 of four and 0, 1, 7 of eight:
\* collisions, runs that wrap around the end, and runs that a resize breaks up.
CollidingHashes == {0, 1, 7}

MapSymmetry == Permutations(Keys) \cup Permutations(Values)
=============================================================================
