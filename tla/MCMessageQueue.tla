-------------------------- MODULE MCMessageQueue --------------------------
(* Instances of MessageQueue for TLC. *)
EXTENDS MessageQueue, TLC

(* The clients are interchangeable for the safety properties. *)
ClientSymmetry == Permutations(Clients)
=============================================================================
