---------------------------- MODULE MCDispatcher ----------------------------
(***************************************************************************)
(* Dispatcher on a small instance, with the model values of the .cfg file. *)
(***************************************************************************)
EXTENDS Dispatcher
=============================================================================
