-------------------------- MODULE MCLeaderElection --------------------------
(* Small instances of LeaderElection for TLC. *)
EXTENDS LeaderElection, TLC

Symmetry == Permutations(Nodes)

=============================================================================
