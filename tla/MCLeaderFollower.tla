--------------------------- MODULE MCLeaderFollower ---------------------------
(* Instances of LeaderFollower for TLC. *)
EXTENDS LeaderFollower, TLC

Symmetry == Permutations(Clients \ Servers) \cup Permutations(Servers \ Clients)
=============================================================================
