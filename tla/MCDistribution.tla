--------------------------- MODULE MCDistribution ---------------------------
(* Model values and symmetry for the run of VVDistribution. *)
EXTENDS VVDistribution, TLC

CONSTANTS n1, n2

\* Enterprise, and Eon with a subcluster each.
OneOrTwo == {{{n1, n2}}, {{n1}, {n2}}}

Symmetry == Permutations({n1, n2})
=============================================================================
