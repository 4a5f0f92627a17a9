---------------------------- MODULE MCNodeCache -----------------------------
(* Model values and symmetry for the run of VVNodeCache. *)
EXTENDS VVNodeCache, TLC

CONSTANTS t1, t2

BothThreads == {t1, t2}
Symmetry == Permutations(BothThreads)
=============================================================================
