---------------------------- MODULE MCDispatcher ----------------------------
(* Instances of Dispatcher for TLC. *)
EXTENDS Dispatcher, TLC

WorkerSymmetry == Permutations(Workers)
=============================================================================
