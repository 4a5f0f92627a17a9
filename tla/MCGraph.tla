------------------------------- MODULE MCGraph -------------------------------
(* Vector sets for the runs of VVGraph: each one makes something happen that  *)
(* the others do not.  Levels come from a hash of the id, so any are possible. *)
EXTENDS VVGraph

\* A vector set from sequences of points and levels; positions count from 0.
VectorSet(base, points, levels) ==
    [base |-> base, at |-> [p \in 0 .. Len(points) - 1 |-> points[p + 1]],
     level |-> [p \in 0 .. Len(points) - 1 |-> levels[p + 1]]]

Same(n) == [i \in 1 .. n |-> <<0, 0>>]
Ground(n) == [i \in 1 .. n |-> 0]

Several == {
    \* Equal vectors fill the lists of the lowest positions: the repair takes each of its three ways.
    VectorSet(6, Same(8), Ground(8)),
    \* Equal vectors on an upper level, where a greedy walk meets ties.
    VectorSet(4, Same(7), <<1, 1, 0, 0, 1, 0, 0>>),
    \* Two appended nodes are above the top level at the same time.
    VectorSet(4, << <<0, 0>>, <<3, 1>>, <<1, 2>>, <<12, 3>>, <<2, 2>>, <<13, 1>>, <<1, 1>> >>,
                 <<0, 1, 0, 1, 2, 0, 2>>),
    \* Both nodes of the base may die: new nodes find nothing but dead ones.
    VectorSet(2, << <<0, 0>>, <<3, 1>>, <<1, 2>>, <<12, 3>>, <<2, 2>> >>, <<1, 1, 1, 1, 1>>),
    \* Two clusters, of which one grows.
    VectorSet(6, << <<6, 7>>, <<40, 8>>, <<6, 2>>, <<8, 3>>, <<3, 5>>, <<9, 7>>, <<7, 7>>, <<39, 9>> >>,
                 <<0, 1, 0, 0, 0, 1, 0, 0>>)}

\* Two clusters far apart, six vectors of which two are on level 1.
TwoClusters == {
    VectorSet(6, << <<6, 7>>, <<40, 8>>, <<6, 2>>, <<8, 3>>, <<3, 5>>, <<9, 7>> >>, <<0, 1, 0, 0, 0, 1>>)}
==============================================================================
