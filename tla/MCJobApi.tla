------------------------------ MODULE MCJobApi ------------------------------
(* Small instances of JobApi for TLC. *)
EXTENDS JobApi, TLC

Symmetry ==
    Permutations(Workers) \cup Permutations(Schedulers) \cup Permutations(Clients)

=============================================================================
