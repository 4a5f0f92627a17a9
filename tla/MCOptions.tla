------------------------------ MODULE MCOptions ------------------------------
(* Model values and symmetry for the runs of VVOptions. *)
EXTENDS VVOptions, TLC

CONSTANTS n1, n2, default, own, disk, builtin, set

OneCluster == {{n1, n2}}
TwoSubclusters == {{n1}, {n2}}

Symmetry == Permutations({n1, n2})
==============================================================================
