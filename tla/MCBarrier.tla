------------------------------ MODULE MCBarrier ------------------------------
(* An instance of Barrier for TLC. *)
EXTENDS Barrier
=============================================================================
