------------------------------ MODULE MCLogChain ------------------------------
(* Instances of LogChain for TLC. *)
EXTENDS LogChain, TLC
=============================================================================
