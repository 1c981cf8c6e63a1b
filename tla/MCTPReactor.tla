----------------------------- MODULE MCTPReactor -----------------------------
(* Instances of TPReactor for TLC: the values its configurations choose from. *)
EXTENDS TPReactor, TLC

OneHandle == {3}
ReadOnly  == {"READ"}
ReadWrite == {"WRITE", "READ"}

\* The calls of an application that leaves the suspension of handles to the
\* reactor, and all calls.
LeavesSuspension == {"register", "remove", "add", "notify"}
AnyCall == LeavesSuspension \cup {"suspend", "resume", "clear", "set", "ready", "deactivate"}

Symmetry == Permutations(Threads) \cup Permutations(EventHandlers)
=============================================================================
