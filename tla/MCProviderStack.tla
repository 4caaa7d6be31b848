-------------------------- MODULE MCProviderStack --------------------------
(***************************************************************************)
(* ProviderStack on a small instance, with the model values of the .cfg    *)
(* files.                                                                  *)
(***************************************************************************)
EXTENDS ProviderStack, TLC

\* Pool threads are interchangeable.
WorkerSymmetry == Permutations(Workers)
=============================================================================
