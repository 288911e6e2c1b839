------------------------------ MODULE MCBroker ------------------------------
(* Instances of Broker for TLC. *)
EXTENDS Broker, TLC

\* Handlers are interchangeable; message ids are not, recovery sorts them.
ProcSymmetry == Permutations(Procs)
=============================================================================
