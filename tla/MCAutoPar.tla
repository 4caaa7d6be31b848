----------------------------- MODULE MCAutoPar -----------------------------
(***************************************************************************)
(* AutoPar on statements whose writes the analysis does not record.        *)
(***************************************************************************)
EXTENDS AutoParInputs

VARIABLES prog, final, pc, running, started, returned, env, view, pending, latest, met

Auto == INSTANCE AutoPar WITH
  N <- 3, Names <- Locals, Resources <- {Database},
  Statements <- NestedWrites, FinalReads <- AnyLocals

Spec == Auto!Spec

\* The compiled body computes what the source says.
SequentialValues == Auto!SequentialValues
=============================================================================
