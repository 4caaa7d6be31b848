---------------------------- MODULE MCParPool ----------------------------
(***************************************************************************)
(* ParPool on a small instance, with the model values of the .cfg files.   *)
(***************************************************************************)
EXTENDS ParPool, TLC

\* Pool threads are interchangeable.
WorkerSymmetry == Permutations(Workers)
=============================================================================
