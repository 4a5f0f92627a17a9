------------------------------- MODULE VVFlat -------------------------------
(***************************************************************************)
(* One search of a snapshot and of rows beside it (flat.cpp, search.cpp,   *)
(* the query side of hnsw.cpp and sq8.cpp), as operators.                  *)
(*                                                                         *)
(* A vector is a number and the key of a row its distance to the query; a  *)
(* Huge vector has no key (NaN).  A heap is a sequence in order of         *)
(* closer().  A snapshot is [rows, dead, reach, graph, trained, ...]:      *)
(* rows[i] = [id, vec] at position i, dead the tombstones, reach what a    *)
(* walk over its graph can visit, trained the rows its codes were trained  *)
(* on (0: it has none).  A block is [rows, skip, coded], skip a set of row *)
(* numbers and coded the range of its codes.  A search is [queries, k,     *)
(* radius, threads], queries a sequence.  turn[u] is the thread that takes *)
(* unit u of parallel_ranges, which may be any of them; the turns repeat.   *)
(***************************************************************************)
EXTENDS Integers, Sequences, FiniteSets, SequencesExt

CONSTANTS
    NaN, Huge,      \* the key that is not a number; a vector near the float limit
    None,           \* no radius, no codes
    CodeTop,        \* the highest code (255 in the code)
    SerialRows,     \* rows x queries below which one thread searches (SERIAL_WORK)
    HeapRoom,       \* neighbours that the heaps of a row split may hold (ROW_SPLIT_HEAP_BYTES)
    Tile,           \* rows of a tile
    CopyCost,       \* queries whose scoring costs as much as copying a row (8 in the code)
    FilterFloor,    \* allowed rows below which a filter is exact (10000 in the code),
    FilterScale,    \*   and the factor under the root (64 in the code)
    StampTop,       \* the last stamp before it wraps (65535 in the code)
    PoolArrays      \* visited arrays kept between searches (64 in the code)

ASSUME FlatConstants ==
    /\ {CodeTop, Tile, StampTop} \subseteq Nat \ {0} /\ SerialRows > 1
    /\ {SerialRows, HeapRoom, FilterFloor, FilterScale, CopyCost, PoolArrays} \subseteq Nat

Least(a, b) == IF a < b THEN a ELSE b
Most(a, b) == IF a < b THEN b ELSE a
Upto(seq, n) == SubSeq(seq, 1, Least(n, Len(seq)))
CeilDiv(a, b) == (a + b - 1) \div b
\* The members of a finite set, each behind those that go before it.
Sorted(S, before(_, _)) ==
    [i \in 1 .. Cardinality(S) |-> CHOOSE x \in S : Cardinality({y \in S : before(y, x)}) = i - 1]

------------------------------------------------------------------------------
(* Keys and codes.                                                         *)

Distance(u, v) == IF u < v THEN v - u ELSE u - v

\* The range of the codes: of the rows a full build trained them on; appended rows never move it.
Range8(set) == LET seen == {set.rows[i].vec : i \in 1 .. set.trained}
               IN  [lo |-> Min(seen), hi |-> Max(seen)]
Unit8(r) == IF r.hi > r.lo THEN r.hi - r.lo ELSE CodeTop
Code(r, v) == Most(0, Least(CodeTop, (2 * CodeTop * (v - r.lo) + Unit8(r)) \div (2 * Unit8(r))))

KeyOf(coded, q, v) ==
    CASE coded # None -> (Distance(Code(coded, q), Code(coded, v)) * Unit8(coded)) \div CodeTop
      [] Huge \in {q, v} -> NaN
      [] OTHER -> Distance(q, v)
Closer(a, b) ==
    NaN \notin {a.key, b.key} /\ (a.key < b.key \/ (a.key = b.key /\ a.id < b.id))
Within(s, key) == s.radius = None \/ (key # NaN /\ key <= s.radius)
\* A neighbour takes its place among those found so far: behind all but the ones it is closer than.
Placed(found, x) == InsertAt(found, Cardinality({i \in DOMAIN found : ~Closer(x, found[i])}) + 1, x)
InOrder(found) == FoldLeft(Placed, <<>>, found)

------------------------------------------------------------------------------
(* The flat search.                                                        *)

OfferTied(s, heap, x, skipped) ==               \* mutant: a tie with the farthest does not enter a full heap
    LET full == Len(heap) = s.k
    IN  IF \/ full /\ (x.key = NaN \/ x.key >= Last(heap).key)
           \/ skipped \/ x.key = NaN \/ ~Within(s, x.key)
        THEN heap
        ELSE Upto(Placed(heap, x), s.k)
\* offer_all and offer of one row: the farthest leaves a full heap.
Offer(s, heap, x, skipped) ==
    LET full == Len(heap) = s.k
    IN  IF \/ full /\ ~Closer(x, Last(heap))
           \/ skipped \/ x.key = NaN \/ ~Within(s, x.key)
        THEN heap
        ELSE Upto(Placed(heap, x), s.k)

\* Rows [block, row] of a list of blocks, one after the other; without ids a row's id is its position.
Scan(s, q, heap, blocks, rows) ==
    LET offer(h, r) ==
            LET b == blocks[r[1]]
                row == b.rows[r[2]]
            IN  Offer(s, h, [key |-> KeyOf(b.coded, q, row.vec),
                             id |-> IF b.coded = None THEN row.id ELSE r[2]], r[2] \in b.skip)
    IN  FoldLeft(offer, heap, rows)

\* The units of at most `size` rows of every block.
RowUnits(blocks, size) ==
    LET units(b) == [u \in 1 .. CeilDiv(Len(blocks[b].rows), size) |->
                        [i \in 1 .. Least(size, Len(blocks[b].rows) - (u - 1) * size) |-> <<b, (u - 1) * size + i>>]]
    IN  FlattenSeq([b \in DOMAIN blocks |-> units(b)])

\* The units a thread takes, in rising order.
Taken(units, turn, threads, t) ==
    LET taker(u) == 1 + ((turn[((u - 1) % Len(turn)) + 1] - 1) % threads)
    IN  FlattenSeq([u \in DOMAIN units |-> IF taker(u) = t THEN units[u] ELSE <<>>])

FlatThreads(s, rows) ==
    LET work == rows * Len(s.queries)
    IN  IF work < SerialRows THEN 1 ELSE Least(s.threads, work \div (SerialRows \div 2))
RowSplit(s, threads) == threads > 1 /\ threads * Len(s.queries) * s.k <= HeapRoom
UnitRows(rows, threads) == Most(Tile, Tile * CeilDiv(CeilDiv(rows, 8 * threads), Tile))

\* The heap of every thread: with the queries split, that of the thread that has the query.
Heaps(s, q, blocks, units, threads, turn) ==
    [t \in 1 .. threads |-> Scan(s, q, <<>>, blocks, Taken(units, turn, threads, t))]
SearchWith(s, blocks, threads, rows, turn) ==
    LET split == RowSplit(s, threads)
        units == RowUnits(blocks, IF split THEN UnitRows(rows, threads) ELSE rows)
    IN  [i \in DOMAIN s.queries |->
            Upto(InOrder(FlattenSeq(Heaps(s, s.queries[i], blocks, units, IF split THEN threads ELSE 1, turn))), s.k)]
\* The answers of every query: the queries are split, or the rows are and the heaps are merged.
FlatSearch(s, blocks, turn) ==
    LET rows == FoldLeft(LAMBDA n, b : n + Len(b.rows), 0, blocks)
    IN  SearchWith(s, blocks, FlatThreads(s, rows), Most(rows, 1), turn)

\* merge_block: the k closest of the answers so far and of one more block.
Merged(s, out, block, turn) ==
    LET more == FlatSearch(s, <<block>>, turn)
    IN  [i \in DOMAIN out |-> Upto(InOrder(out[i] \o more[i]), s.k)]

------------------------------------------------------------------------------
(* The walk over a graph.                                                  *)

\* Positions visited by a search carry its stamp.
Reserved(v, n) ==
    IF Len(v.marks) >= n THEN v ELSE [marks |-> [p \in 1 .. n |-> 0], stamp |-> 0]
StampUncleared(v) ==                            \* mutant: the stamp wraps over the old marks
    [v EXCEPT !.stamp = IF @ = StampTop THEN 1 ELSE @ + 1]
NextStamp(v) ==
    IF v.stamp = StampTop THEN [marks |-> [p \in DOMAIN v.marks |-> 0], stamp |-> 1]
    ELSE [v EXCEPT !.stamp = @ + 1]

Marked(now, open, top, ef, misses) ==
    LET visited == IF Len(top) < ef THEN open ELSE (open \ misses) \cup {top[i].id : i \in DOMAIN top}
    IN  [top |-> top,
         seen |-> [now EXCEPT !.marks = [p \in DOMAIN @ |-> IF p \in visited THEN now.stamp ELSE @[p]]]]
\* search_one: a beam of ef.  While it is not full it goes on to all it can reach; a full one may have
\* lost some positions, its misses.  What seems visited is passed by, what has no key never followed.
BeamFrom(set, coded, q, ef, skip, misses, now) ==
    LET as(p) == [key |-> KeyOf(coded, q, set.rows[p].vec), id |-> p]
        open == {x \in {as(p) : p \in set.reach} : now.marks[x.id] # now.stamp /\ x.key # NaN}
        first(a, b) == IF (a.id \in misses) = (b.id \in misses) THEN Closer(a, b) ELSE b.id \in misses
    IN  Marked(now, {x.id : x \in open}, Upto(Sorted({x \in open : x.id \notin skip}, first), ef), ef, misses)
Beam(set, coded, q, ef, skip, misses, v) == BeamFrom(set, coded, q, ef, skip, misses, NextStamp(v))

WideEnough(s, e, top) ==
    LET within == Cardinality({i \in DOMAIN top : Within(s, top[i].key)})
    IN  e >= s.k \/ Len(top) < e \/ 4 * within <= e
\* walk: with a radius and ef below k the beam grows fourfold, up to k, while it is full and more
\* than a quarter of it is within the radius.
Walk(s, set, coded, q, ef, skip, misses, v) ==
    LET step(w, i) ==
            LET b == Beam(set, coded, q, w.e, skip, misses, w.seen)
            IN  IF w.done THEN w
                ELSE [top |-> b.top, seen |-> b.seen, e |-> Least(4 * w.e, s.k),
                      done |-> WideEnough(s, w.e, b.top)]
    IN  IF s.radius = None \/ ef >= s.k THEN Beam(set, coded, q, Most(ef, s.k), skip, misses, v)
        ELSE FoldLeft(step, [top |-> <<>>, seen |-> v, e |-> Most(ef, 1), done |-> FALSE], [i \in 1 .. s.k |-> i])

\* The k best of a beam: by codes they stay positions, and the radius waits for the scores.
Answer(s, set, coded, top) ==
    LET named == [j \in DOMAIN top |-> [top[j] EXCEPT !.id = IF coded = None THEN set.rows[@].id ELSE @]]
    IN  Upto(SelectSeq(InOrder(named), LAMBDA x : coded # None \/ Within(s, x.key)), s.k)
Gathered(s, set, coded, workers, kept) ==
    [out |-> [i \in DOMAIN s.queries |->
                Answer(s, set, coded, FlattenSeq([t \in DOMAIN workers |-> workers[t].tops[i]]))],
     pool |-> Upto(kept \o [t \in DOMAIN workers |-> workers[t].seen], PoolArrays)]
\* hnsw_search and hnsw_search_codes: every worker takes an array of the pool and gives it back.
GraphSearch(s, set, coded, ef, skip, misses, turn, pool) ==
    LET threads == Least(s.threads, Len(s.queries))
        array(t) == IF t <= Len(pool) THEN pool[Len(pool) + 1 - t] ELSE [marks |-> <<>>, stamp |-> 0]
        next(w, i, b) == [seen |-> b.seen, tops |-> [w.tops EXCEPT ![i] = b.top]]
        query(w, i) == next(w, i, Walk(s, set, coded, s.queries[i], ef, skip, misses, w.seen))
        worker(t) == FoldLeft(query,
                              [seen |-> Reserved(array(t), Len(set.rows)),
                               tops |-> [i \in DOMAIN s.queries |-> <<>>]],
                              Taken([i \in DOMAIN s.queries |-> <<i>>], turn, threads, t))
    IN  Gathered(s, set, coded, [t \in 1 .. threads |-> worker(t)], SubSeq(pool, 1, Len(pool) - threads))

------------------------------------------------------------------------------
(* The search of a plan [graph, ef, codes, rescore, oversampling, filtered, allow].                   *)

CodeCandidates(k, plan) == IF plan.rescore THEN k * plan.oversampling ELSE k

FilterExactLimit(ef, count) ==
    LET area == FilterScale * ef * count
    IN  Most(FilterFloor, CHOOSE r \in 0 .. area : r * r <= area /\ (r + 1) * (r + 1) > area)

\* A filter that few live positions pass: they are copied and searched exactly.
FewAllowed(s, set, plan, skip) ==
    LET live == Cardinality(plan.allow \ skip)
        count == Len(set.rows)
        nq == Len(s.queries)
    IN  /\ plan.filtered
        /\ \/ live < FilterExactLimit(plan.ef, count)
           \/ ~plan.graph /\ live * (nq + CopyCost) * (IF plan.codes THEN 4 ELSE 1) < count * nq

CandidateSearch(s, set, plan) ==                \* the radius waits for the scores, but guides a range walk
    [s EXCEPT !.k = Least(CodeCandidates(s.k, plan), Most(Len(set.rows), 1)),
              !.radius = IF plan.graph THEN @ ELSE None]

\* The exact key of every candidate, then the k best within the radius.
Rescored(s, set, plan, out) ==
    LET exact(q, x) == [key |-> IF plan.rescore THEN KeyOf(None, q, set.rows[x.id].vec) ELSE x.key,
                        id |-> set.rows[x.id].id]
        good(x) == x.key # NaN /\ Within(s, x.key)
        best(q, found) == SelectSeq(InOrder([j \in DOMAIN found |-> exact(q, found[j])]), good)
    IN  [i \in DOMAIN out |-> Upto(best(s.queries[i], out[i]), s.k)]

Floats(rows, skip) == [rows |-> rows, skip |-> skip, coded |-> None]
\* Scores every row, or copies of the few that a filter allows, with the journal's rows beside them.
ExactSearch(s, set, few, live, extra, turn) ==
    LET pos == Sorted(live, <)
        rows == IF few THEN Floats([i \in DOMAIN pos |-> set.rows[pos[i]]], {})
                ELSE Floats(set.rows, DOMAIN set.rows \ live)
    IN  FlatSearch(s, IF extra = <<>> THEN <<rows>> ELSE <<rows, Floats(extra, {})>>, turn)
\* Candidates by the graph or by codes.
Candidates(s, set, plan, coded, passed, turn, misses, pool) ==
    IF plan.graph THEN GraphSearch(s, set, coded, plan.ef, passed, misses, turn, pool)
    ELSE [out |-> FlatSearch(s, <<[rows |-> set.rows, skip |-> passed, coded |-> coded]>>, turn), pool |-> pool]
\* index_search: extra are the journal's rows, searched exactly whatever the plan.
SearchLive(s, set, plan, few, live, extra, turn, misses, pool) ==
    LET beside(out) == IF extra = <<>> THEN out ELSE Merged(s, out, Floats(extra, {}), turn)
        ranked(out) == IF plan.codes THEN Rescored(s, set, plan, out) ELSE out
        answered(found) == [out |-> beside(ranked(found.out)), pool |-> found.pool]
    IN  IF few \/ (~plan.graph /\ ~plan.codes)
        THEN [out |-> ExactSearch(s, set, few, live, extra, turn), pool |-> pool]
        ELSE answered(Candidates(IF plan.codes THEN CandidateSearch(s, set, plan) ELSE s, set, plan,
                                 IF plan.codes THEN Range8(set) ELSE None, DOMAIN set.rows \ live,
                                 turn, misses, pool))
IndexSearch(s, set, plan, skip, extra, turn, misses, pool) ==
    SearchLive(s, set, plan, FewAllowed(s, set, plan, skip),
               (IF plan.filtered THEN plan.allow ELSE DOMAIN set.rows) \ skip, extra, turn, misses, pool)
==============================================================================
