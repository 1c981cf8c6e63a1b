------------------------------- MODULE MCToken -------------------------------
(* Instances of Token for TLC: the values its configurations choose from. *)
EXTENDS Token, TLC

OnlyFIFO       == {FIFO}
AnyStrategy    == {FIFO, LIFO}
HeadOrTail     == {-1, 0}
AnyPosition    == {-1, 0, 1}

Symmetry == Permutations(Threads)
=============================================================================
