------------------------------ MODULE MCSearch ------------------------------
(* Calls for the run of VVSearch.                                            *)
EXTENDS VVSearch

NoRow == [qid |-> None, qvec |-> None, id |-> None, vec |-> None, del |-> None, ver |-> None, sid |-> 0]
Query(id, v) == [NoRow EXCEPT !.qid = id, !.qvec = v]
Sentinel(s) == [NoRow EXCEPT !.sid = s]
Allow(id) == [NoRow EXCEPT !.id = id]
Add(id, v, ver) == [NoRow EXCEPT !.id = id, !.vec = v, !.del = FALSE, !.ver = ver, !.sid = 1]
Delete(id, ver) == [NoRow EXCEPT !.id = id, !.del = TRUE, !.ver = ver, !.sid = 1]

\* Positions are in the order of ids within a run; 3 and 7 are a second run, 4 is dead, 3 ties with 1.
Rows == <<[id |-> 1, vec |-> 0], [id |-> 4, vec |-> 3], [id |-> 8, vec |-> 6], [id |-> 3, vec |-> 4], [id |-> 7, vec |-> 9]>>
Snapshot(graph, trained) ==
    [dims |-> 2, rows |-> Rows, dead |-> {2}, reach |-> 1 .. 5, graph |-> graph, trained |-> trained,
     options |-> [freshness |-> "exact"]]
Flat == Snapshot(FALSE, 0)
Base == [Flat EXCEPT !.rows = SubSeq(Rows, 1, 3), !.reach = 1 .. 3]

Graph == Snapshot(TRUE, 0)
Coded == Snapshot(FALSE, 3)
GraphCoded == Snapshot(TRUE, 3)

\* Deletes before and after adds, a tie of a delete and an add, a version that is NULL.
Changes == {Add(4, 2, 5), Add(1, 7, 6), Delete(1, 7), Add(1, 1, 7), Add(6, 5, None)}
OneQuery == {Query(1, 5)}
Several == {Query(1, 5), Query(2, 8)}
Journal == {Add(1, 1, 7), Add(6, 5, None)}
Few == {Allow(7), Allow(1), Allow(6)}
Many == {Allow(7), Allow(1), Allow(3), Allow(8)}

CallOf(kind, snap, params, rows) ==
    [kind |-> kind, params |-> params, session |-> [precision |-> "fast", k |-> 2], given |-> <<2>>,
     filtered |-> FALSE, rows |-> rows, snaps |-> <<snap>>, misses |-> {}]

Radii == {[x \in {} |-> 0], [radius |-> 2], [radius |-> 4]}
Tunings == {[k |-> 1], [k |-> 3, precision |-> "balanced"], [k |-> 3], [k |-> 2, rescore |-> TRUE, precision |-> "best", threads |-> 1]}

\* Every way to search: by a graph or not, by codes or not, a filter of few or many, the journal beside it.
Ways ==
    {CallOf("vsearch", snap, params @@ radius, rows) :
        snap \in {Flat, Graph, Coded, GraphCoded}, params \in Tunings, radius \in Radii,
        rows \in {Several, Journal, Few, Many, Many \cup Journal}}

\* Walks that lose positions.
Lossy == {[c EXCEPT !.misses = {1, 4}] : c \in {w \in Ways : w.snaps[1].graph /\ Cardinality(w.rows) < 4}}

Others ==
    {CallOf("vsearch", Flat, [k |-> 3], Changes \cup OneQuery),
     CallOf("vsearch", Flat, [k |-> 3, freshness |-> "snapshot"], Changes),
     [CallOf("vsearch", Flat, [k |-> 2], {Sentinel(1)}) EXCEPT !.filtered = TRUE],
     CallOf("vsearch", [Flat EXCEPT !.rows[3].vec = Huge], [k |-> 4], OneQuery \cup {Add(8, Huge, 3)}),
     CallOf("vsearch", Graph, [k |-> 2, exact |-> TRUE], OneQuery),
     \* bad calls and rows
     CallOf("vsearch", Flat, [k |-> 9], OneQuery),
     [CallOf("vsearch", Flat, [k |-> 2], {Sentinel(1)}) EXCEPT !.given = <<>>],
     [CallOf("vknn", Flat, [k |-> 2], OneQuery) EXCEPT !.given = <<BadVec>>],
     [CallOf("vscan", Flat, [k |-> 2], OneQuery) EXCEPT !.given = <<>>],
     CallOf("vscan", Flat, [k |-> 2], {Add(1, BadVec, 1)}),
     CallOf("vknn", Flat, [k |-> 2], {Query(1, BadVec)})}
    \cup {CallOf("vsearch", Flat, [k |-> 2], {row}) :
            row \in {[NoRow EXCEPT !.qid = 1], [NoRow EXCEPT !.ver = 1],
                    [Allow(1) EXCEPT !.del = FALSE], Add(1, BadVec, 1)}}

\* Views of the second snapshot, with the same dimensions and with others; a view that is ahead of the node.
Moving ==
    {[CallOf("vsearch", Base, [k |-> 3, precision |-> p], rows) EXCEPT !.snaps = <<Base, next>>] :
        p \in {"fast", "best"}, next \in {Flat, Graph, [Flat EXCEPT !.dims = 3]},
        rows \in {{Sentinel(1), Query(1, 5)}, {Sentinel(2), Query(1, 5)}, {Sentinel(3)}}}

Knn == {CallOf("vknn", snap, [k |-> 2], {NoRow, Query(1, 5), Query(2, 8)}) : snap \in {Flat, Graph, GraphCoded}}
       \cup {[CallOf("vknn", Flat, [k |-> 2], {NoRow, Query(1, 5)}) EXCEPT !.given = <<>>]}
Table == {Add(5, 3, 1), Add(3, 0, 1), Add(9, 1, 1), Add(2, 3, 1), [Add(4, 2, 1) EXCEPT !.vec = None], Add(7, Huge, 1)}
TableScans == {[CallOf("vscan", Flat, params, Table) EXCEPT !.given = <<2, 4>>] :
            params \in {[k |-> 1], [k |-> 3, threads |-> 2], [k |-> 3, radius |-> 1, threads |-> 0]}}

AllCalls == Ways \cup Lossy \cup Others \cup Moving \cup Knn \cup TableScans

\* Nothing kept; a larger array about to wrap; two of a smaller index.
KeptArrays == {<<>>, <<[marks |-> <<2, 1, 2, 1, 0, 2>>, stamp |-> 2]>>,
               <<[marks |-> <<1, 1>>, stamp |-> 1], [marks |-> <<1, 0, 2, 1, 1>>, stamp |-> 2]>>}
==============================================================================
