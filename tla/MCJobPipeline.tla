---------------------------- MODULE MCJobPipeline ---------------------------
(* Small instances of JobPipeline for TLC. *)
EXTENDS JobPipeline, TLC

Symmetry == Permutations(Workers) \cup Permutations(Schedulers)

=============================================================================
