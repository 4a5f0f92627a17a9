---- MODULE MCFreshness ----
(* Model values and symmetry for the runs of VVFreshness. *)
EXTENDS VVFreshness, TLC

Symmetry == Permutations(Ids) \cup Permutations(Writers) \cup Permutations(Nodes)
====
