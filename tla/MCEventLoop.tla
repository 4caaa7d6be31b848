---------------------------- MODULE MCEventLoop ----------------------------
(***************************************************************************)
(* EventLoop on a small instance, with the model values of the .cfg files. *)
(***************************************************************************)
EXTENDS EventLoop

\* Clients are interchangeable, and so are the incarnations of the poller.
ThreadSymmetry == Permutations(Clients) \cup Permutations(Pollers)
=============================================================================
