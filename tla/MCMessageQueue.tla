---------------------------- MODULE MCMessageQueue ----------------------------
(* Instances of MessageQueue for TLC: the blocks and the water marks. *)
EXTENDS MessageQueue

CONSTANTS b1, b2, b3

SizeOf     == (b1 :> 1) @@ (b2 :> 1) @@ (b3 :> 2)
PriorityOf == (b1 :> 1) @@ (b2 :> 2) @@ (b3 :> 1)
DeadlineOf == (b1 :> 2) @@ (b2 :> 1) @@ (b3 :> 3)
=============================================================================
