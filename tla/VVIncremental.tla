---- MODULE VVIncremental ----
(* A snapshot file, the incremental build that makes the next one from it        *)
(* (src/src/engine/delta.cpp) and the patch from which the other nodes assemble   *)
(* their copy.                                                                   *)
(*                                                                               *)
(* A file is a function from offsets to cells. Cell 0 is the header; a position   *)
(* has one cell in each section, so an offset here stands for a row, an id, an    *)
(* index entry or a tombstone bit there. A cell never written is 0, as in the     *)
(* file: what a build forgets to write is id 0, position 0 or a live bit.         *)
(* Vectors are numbers compared for equality, as memcmp does. The index is flat,  *)
(* or an HNSW index of which only the room in its upper part is kept (UpperFull). *)
EXTENDS Integers, Sequences, FiniteSets, SequencesExt, FiniteSetsExt, TLC

CONSTANTS
    Ids,            \* ids: natural numbers, their order matters
    Vectors,        \* vectors: natural numbers
    Kept, Gone,     \* a batch leaves an id alone; a batch deletes it
    Growths,        \* the percentages of room to grow a build may be given
    MinGrowth,      \* the floor of that room, in positions (4096 in the code)
    Block,          \* cells of one block of the change scan (DIFF_BLOCK)
    Chunk,          \* cells of one chunk (CHUNK_BYTES), a multiple of Block
    UpperFull,      \* TRUE: the upper part of the graph may lack room
    MaxPositions    \* bound: positions of a snapshot

ASSUME LayoutAssumption ==
    /\ Ids \subseteq Nat /\ Vectors \subseteq Nat /\ Growths \subseteq Nat
    /\ MinGrowth \in Nat \ {0} /\ Block \in Nat \ {0}
    /\ Chunk \in Nat \ {0} /\ Chunk % Block = 0
    /\ IsFiniteSet(Ids) /\ MaxPositions \in Nat /\ Cardinality(Ids) <= MaxPositions
    /\ Kept # Gone /\ Kept \notin Vectors /\ Gone \notin Vectors

VARIABLES
    file,           \* the newest snapshot, as the build node wrote it
    copy,           \* the same snapshot in the cache of another node
    runs,           \* the runs of the patch that made copy; <<>>: whole chunks did
    batch           \* the changes the newest snapshot was built from

vars == <<file, copy, runs, batch>>

Batches == [Ids -> Vectors \cup {Kept, Gone}]
(* Offset and length of a range of cells. *)
CellRange(offset, cells) == [offset |-> offset, cells |-> cells]

-----------------------------------------------------------------------------
(* The layout (snapshot.h, snapshot.cpp) *)

GrowthRows(n, percent) ==
    IF percent = 0 THEN 0
    ELSE Max({MinGrowth, (n \div 100) * percent + ((n % 100) * percent) \div 100})

(* The positions the sections have room for. *)
LayoutPositions(h) == IF h.roomy THEN h.capacity ELSE h.count

OffVectors(h) == 1
OffIds(h) == 1 + LayoutPositions(h)
OffIndex(h) == 1 + 2 * LayoutPositions(h)
(* With room to grow both sections are placed, whether they hold content or not. *)
OffTombstones(h) ==
    OffIndex(h) + (IF h.roomy \/ h.indexed THEN LayoutPositions(h) ELSE 0)
TotalCells(h) ==
    OffTombstones(h) + (IF h.roomy \/ h.tombstones > 0 THEN LayoutPositions(h) ELSE 0)

(* A zero-filled file of a layout, with its header. *)
Allocated(h) == [o \in 0 .. TotalCells(h) - 1 |-> IF o = 0 THEN h ELSE 0]

(* memcpy of a sequence of cells to an offset. *)
Put(f, offset, cells) ==
    [o \in DOMAIN f |-> IF o - offset + 1 \in DOMAIN cells THEN cells[o - offset + 1] ELSE f[o]]

(* The checksum is the XOR of a value per non-zero word and its place: a set of   *)
(* pairs under symmetric difference. The header counts with an empty sum.         *)
Xor(a, b) == (a \ b) \cup (b \ a)
Words(f, offsets) ==
    {<<o, IF o = 0 THEN [f[0] EXCEPT !.sum = {}] ELSE f[o]>> :
        o \in {p \in offsets : p = 0 \/ f[p] # 0}}
Checksum(f) == Words(f, DOMAIN f)
Sealed(f) == [f EXCEPT ![0].sum = Checksum(f)]

(* A snapshot opened for reading: what snapshot_open sets its pointers to. *)
Opened(f) ==
    LET h == f[0]
        at(offset) == [p \in 0 .. h.count - 1 |-> f[offset + p]]
    IN  [count |-> h.count,
         vectors |-> at(OffVectors(h)),
         ids |-> at(OffIds(h)),
         index |-> IF h.indexed THEN at(OffIndex(h)) ELSE [p \in 0 .. h.count - 1 |-> p],
         dead |-> [p \in 0 .. h.count - 1 |-> h.tombstones > 0 /\ f[OffTombstones(h) + p] = 1]]

Dead(s) == {p \in DOMAIN s.dead : s.dead[p]}

-----------------------------------------------------------------------------
(* Looking an id up (VectorSet::find, find_sorted) *)

(* The id of the entry at place i of the id order. *)
KeyAt(s, i) == s.ids[s.index[i]]

(* The first of the places lo .. hi - 1 whose id is not below id, or hi. *)
LowerBound(s, id, from, to) ==
    LET bound[r \in (0 .. s.count) \X (0 .. s.count)] ==
            LET lo == r[1]
                hi == r[2]
                mid == lo + (hi - lo) \div 2
            IN  IF lo >= hi THEN lo
                ELSE IF KeyAt(s, mid) < id THEN bound[<<mid + 1, hi>>]
                ELSE bound[<<lo, mid>>]
    IN  bound[<<from, to>>]

(* For each place of the id order where a search for id can end: the live         *)
(* position id has there, or -1.                                                 *)
LiveAt(s, id) ==
    [lo \in 0 .. s.count |->
        IF lo < s.count /\ s.ids[s.index[lo]] = id /\ ~s.dead[s.index[lo]] THEN s.index[lo] ELSE -1]

Find(s, id) == LiveAt(s, id)[LowerBound(s, id, 0, s.count)]

GallopPast(s, id, from) ==                      \* mutant: the gallop goes past entries of id itself
    LET reach[r \in Nat \X Nat \X Nat] ==
            LET b == r[2]
                step == r[3]
            IN  IF b < s.count /\ KeyAt(s, b) <= id THEN reach[<<b + 1, b + 1 + step, 2 * step>>]
                ELSE LowerBound(s, id, r[1], Min({b, s.count}))
    IN  reach[<<from, from, 1>>]

(* The place of id, galloping from place lo in steps that double. *)
Gallop(s, id, from) ==
    LET reach[r \in Nat \X Nat \X Nat] ==
            LET b == r[2]
                step == r[3]
            IN  IF b < s.count /\ KeyAt(s, b) < id THEN reach[<<b + 1, b + 1 + step, 2 * step>>]
                ELSE LowerBound(s, id, r[1], Min({b, s.count}))
    IN  reach[<<from, from, 1>>]

(* The positions of wanted ids in ascending order, in one pass. *)
FindSorted(s, wanted) ==
    FoldLeft(LAMBDA acc, id :
                 LET lo == Gallop(s, id, acc.lo)
                 IN  [lo |-> lo, out |-> Append(acc.out, LiveAt(s, id)[lo])],
             [lo |-> 0, out |-> <<>>], wanted).out

-----------------------------------------------------------------------------
(* What the changes do to the base (IncrementalBuilder::prepare) *)

Sorted(S) ==
    [k \in 1 .. Cardinality(S) |-> CHOOSE x \in S : Cardinality({y \in S : y < x}) = k - 1]

Given(changes) == {i \in Ids : changes[i] \in Vectors}
Removed(changes) == {i \in Ids : changes[i] = Gone}

(* Adds of the live vector of their id: they change nothing. *)
Unchanged(s, changes) ==
    {i \in Given(changes) : Find(s, i) >= 0 /\ s.vectors[Find(s, i)] = changes[i]}

(* The positions that die. *)
KilledByDeletes(s, changes) == {Find(s, i) : i \in Removed(changes)} \ {-1}     \* mutant: changed ids forgotten
Killed(s, changes) ==
    {Find(s, i) : i \in Removed(changes) \cup (Given(changes) \ Unchanged(s, changes))} \ {-1}

Planned(f, changes) ==
    LET s == Opened(f)
        new == Sorted(Given(changes) \ Unchanged(s, changes))
        killed == Killed(s, changes)
    IN  [new |-> new,
         rows |-> [j \in DOMAIN new |-> changes[new[j]]],
         count |-> s.count + Len(new),
         dead |-> Dead(s) \cup killed,
         tombstones |-> f[0].tombstones + Cardinality(killed),
         indexed |-> \/ f[0].indexed
                     \/ new # <<>> /\ new[1] <= KeyAt(s, s.count - 1),
         nothing |-> new = <<>> /\ killed = {}]

MergedBaseFirst(s, new) ==                      \* mutant: on an equal id the base's position stays first
    LET base == 0 .. s.count - 1
        placed == [j \in DOMAIN new |-> j + Cardinality({i \in base : KeyAt(s, i) <= new[j]})]
        moved == [i \in base |-> i + 1 + Cardinality({j \in DOMAIN new : new[j] < KeyAt(s, i)})]
    IN  [k \in 1 .. s.count + Len(new) |->
            IF k \in Range(placed) THEN s.count + (CHOOSE j \in DOMAIN new : placed[j] = k) - 1
            ELSE s.index[CHOOSE i \in base : moved[i] = k]]

(* Positions by id; an id at several positions: the appended one first. An        *)
(* appended id goes behind the smaller ids of the base, an entry of the base      *)
(* behind the appended ids up to its own.                                         *)
MergedIndex(s, new) ==
    LET base == 0 .. s.count - 1
        placed == [j \in DOMAIN new |-> j + Cardinality({i \in base : KeyAt(s, i) < new[j]})]
        moved == [i \in base |-> i + 1 + Cardinality({j \in DOMAIN new : new[j] <= KeyAt(s, i)})]
    IN  [k \in 1 .. s.count + Len(new) |->
            IF k \in Range(placed) THEN s.count + (CHOOSE j \in DOMAIN new : placed[j] = k) - 1
            ELSE s.index[CHOOSE i \in base : moved[i] = k]]

TombstoneCells(plan, count) == [k \in 1 .. count |-> IF k - 1 \in plan.dead THEN 1 ELSE 0]

LayoutFits(f, plan, upperRoom) == f[0].roomy /\ plan.count <= f[0].capacity /\ upperRoom

-----------------------------------------------------------------------------
(* The two ways to write the next snapshot *)

(* The capacity the copying build lays out for: the base's when that has room. *)
CapacityAnew(f, plan, percent, upperRoom) ==                     \* mutant: always a new layout
    LET slack == GrowthRows(plan.count, percent)
    IN  IF slack > 0 THEN plan.count + slack ELSE 0
CopyCapacity(f, plan, percent, upperRoom) ==
    LET slack == GrowthRows(plan.count, percent)
    IN  IF LayoutFits(f, plan, upperRoom) THEN f[0].capacity
        ELSE IF slack > 0 THEN plan.count + slack ELSE 0

(* IncrementalBuilder::finish: into a new buffer, in the base's layout when that  *)
(* has room, else laid out anew.                                                 *)
Copied(f, plan, percent, upperRoom) ==
    LET s == Opened(f)
        capacity == CopyCapacity(f, plan, percent, upperRoom)
        h == [count |-> plan.count, roomy |-> capacity > 0, capacity |-> capacity,
              indexed |-> plan.indexed, tombstones |-> plan.tombstones, sum |-> {}]
        cellsOf(section) == [k \in 1 .. s.count |-> section[k - 1]]
        rows == Put(Allocated(h), OffVectors(h), cellsOf(s.vectors) \o plan.rows)
        ids == Put(rows, OffIds(h), cellsOf(s.ids) \o plan.new)
        index == IF plan.indexed THEN Put(ids, OffIndex(h), MergedIndex(s, plan.new)) ELSE ids
    IN  Sealed(IF plan.tombstones > 0
               THEN Put(index, OffTombstones(h), TombstoneCells(plan, s.count)) ELSE index)

(* IncrementalBuilder::finish_in_place: on a copy-on-write mapping of the base.   *)
InPlace(f, plan) ==
    LET s == Opened(f)
        h == [f[0] EXCEPT !.count = plan.count, !.indexed = plan.indexed,
                          !.tombstones = plan.tombstones]
        rows == Put(f, OffVectors(h) + s.count, plan.rows)
        ids == Put(rows, OffIds(h) + s.count, plan.new)
        index == IF plan.indexed THEN Put(ids, OffIndex(h), MergedIndex(s, plan.new)) ELSE ids
        dead == IF plan.tombstones > 0
                THEN Put(index, OffTombstones(h), TombstoneCells(plan, s.count)) ELSE index
    IN  [dead EXCEPT ![0] = h]

CandidatesFresh(f, plan) ==                     \* mutant: the index entries before the appended ones are taken to stay
    LET h == f[0]
        fresh == Len(plan.new)
    IN  {CellRange(0, 1),
         CellRange(OffVectors(h) + h.count, fresh),
         CellRange(OffIds(h) + h.count, fresh),
         CellRange(OffIndex(h) + h.count, IF plan.indexed THEN fresh ELSE 0),
         CellRange(OffTombstones(h), IF plan.tombstones > 0 THEN plan.count ELSE 0)}

(* The ranges finish_in_place says it may have touched. *)
Candidates(f, plan) ==
    LET h == f[0]
        fresh == Len(plan.new)
    IN  {CellRange(0, 1),
         CellRange(OffVectors(h) + h.count, fresh),
         CellRange(OffIds(h) + h.count, fresh),
         CellRange(OffIndex(h), IF plan.indexed THEN plan.count ELSE 0),
         CellRange(OffTombstones(h), IF plan.tombstones > 0 THEN plan.count ELSE 0)}

-----------------------------------------------------------------------------
(* The patch (snapshot_diff, seal_in_place, vload) *)

Span(r) == r.offset .. r.offset + r.cells - 1

JoinedAcross(differ, k) == {k - 1, k} \subseteq differ           \* mutant: a run may cross into the next chunk

(* A differing block lengthens the run of the block before it, up to the chunk's  *)
(* end (a run that ends there is never longer than the chunk).                    *)
Joined(differ, k) == {k - 1, k} \subseteq differ /\ ((k - 1) * Block) \div Chunk = (k * Block) \div Chunk

(* The blocks within the candidates where a and b differ. *)
Differing(a, b, candidates) ==
    {k \in UNION {{o \div Block : o \in Span(r) \cap DOMAIN a} : r \in candidates} :
        \E o \in DOMAIN a : o \div Block = k /\ a[o] # b[o]}

(* The run that starts with block k of a file of so many cells. *)
RunFrom(differ, k, size) ==
    LET end == Min({m \in differ : m >= k /\ ~Joined(differ, m + 1)})
    IN  CellRange(k * Block, Min({size, (end + 1) * Block}) - k * Block)

(* The differing blocks as runs. *)
Diff(a, b, candidates) ==
    LET differ == Differing(a, b, candidates)
        starts == Sorted({k \in differ : ~Joined(differ, k)})
    IN  [i \in DOMAIN starts |-> RunFrom(differ, starts[i], Cardinality(DOMAIN a))]

Covered(found) == UNION {Span(found[i]) : i \in DOMAIN found}

(* The sum of the patched file from the base's sum and the changed runs alone. *)
SealedInPlace(base, patched, found) ==
    [patched EXCEPT ![0].sum =
        Xor(base[0].sum, Xor(Words(base, Covered(found)), Words(patched, Covered(found))))]

(* vload on another node: its base with the runs written over it. *)
Patched(base, from, found) ==
    [o \in DOMAIN base |-> IF o \in Covered(found) THEN from[o] ELSE base[o]]

(* vload of a whole copy: the file is sized from the header, chunks that are all  *)
(* zero were not sent, the first chunk always is.                                *)
Assembled(from) ==
    [o \in 0 .. TotalCells(from[0]) - 1 |->
        IF o < Chunk \/ \E p \in DOMAIN from : p \div Chunk = o \div Chunk /\ from[p] # 0
        THEN from[o] ELSE 0]

-----------------------------------------------------------------------------
(* The builds *)

(* SnapshotBuilder::finish: the rows sorted by id, laid out with room to grow. *)
FullFile(changes, percent) ==
    LET ids == Sorted(Given(changes))
        n == Len(ids)
        slack == GrowthRows(n, percent)
        h == [count |-> n, roomy |-> slack > 0,
              capacity |-> IF slack > 0 THEN n + slack ELSE 0,
              indexed |-> FALSE, tombstones |-> 0, sum |-> {}]
        rows == Put(Allocated(h), OffVectors(h), [k \in 1 .. n |-> changes[ids[k]]])
    IN  Sealed(Put(rows, OffIds(h), ids))

(* finish_in_place, then vload of the runs, or of the whole chunks when the       *)
(* refresh finds that the patches outweigh the whole copy (send = whole).        *)
BuildInPlace(plan) ==
    LET written == InPlace(file, plan)
        found == Diff(file, written, Candidates(file, plan))
    IN  /\ file' = SealedInPlace(file, written, found)
        /\ \/ /\ copy' = Patched(copy, file', found)
              /\ runs' = found
           \/ /\ copy' = Assembled(file')
              /\ runs' = <<>>

(* NoRoom: finish, then vload of the whole chunks. *)
BuildCopy(plan, upperRoom) ==
    \E percent \in Growths :
        /\ file' = Copied(file, plan, percent, upperRoom)
        /\ copy' = Assembled(file')
        /\ runs' = <<>>

(* An incremental build of the snapshot. *)
Refresh ==
    \E changes \in Batches :
        LET plan == Planned(file, changes)
        IN  /\ plan.count <= MaxPositions
            /\ batch' = changes
            /\ IF plan.nothing THEN UNCHANGED <<file, copy, runs>>
               ELSE \E upperRoom \in {TRUE, ~UpperFull} :
                       IF LayoutFits(file, plan, upperRoom) THEN BuildInPlace(plan)
                       ELSE BuildCopy(plan, upperRoom)

(* A full build, whole chunks sent. The next one starts afresh, as this one does: *)
(* a behaviour is one chain of incremental builds. No vector, no snapshot.       *)
Init ==
    \E changes \in Batches, percent \in Growths :
        /\ Given(changes) # {}
        /\ file = FullFile(changes, percent)
        /\ copy = Assembled(file)
        /\ runs = <<>>
        /\ batch = changes

Spec == Init /\ [][Refresh]_vars

-----------------------------------------------------------------------------
(* What must hold *)

(* The vector a snapshot answers for each id. *)
ContentsOf(f) ==
    LET s == Opened(f)
        answer(p) == IF p >= 0 THEN s.vectors[p] ELSE Gone
    IN  [i \in Ids |-> answer(Find(s, i))]

(* Every variable stays in its type, and the newest file passes the checks of a   *)
(* load (snapshot_open with verify): the checksum, the number of tombstones, and  *)
(* the id order, in which an id stands at several places with its highest         *)
(* position first, the only one that may be live. find() relies on that order.    *)
TypeOK ==
    LET h == file[0]
        s == Opened(file)
        places == 1 .. s.count - 1
        at(i) == s.index[i]
    IN  /\ batch \in Batches
        /\ h.count \in 1 .. MaxPositions
        /\ DOMAIN file = 0 .. TotalCells(h) - 1
        /\ h.roomy => h.capacity >= h.count
        /\ h.sum = Checksum(file)
        /\ Cardinality(Dead(s)) = h.tombstones
        /\ {at(i) : i \in 0 .. s.count - 1} = 0 .. s.count - 1
        /\ \A i \in places :
              \/ KeyAt(s, i - 1) < KeyAt(s, i)
              \/ /\ h.indexed /\ KeyAt(s, i - 1) = KeyAt(s, i)
                 /\ at(i - 1) > at(i) /\ s.dead[at(i)]

(* A node that has the base and gets the runs alone has the build node's file,    *)
(* byte for byte, under the checksum put together from those runs: no cell an     *)
(* incremental build changes lies outside the ranges it names.                    *)
NodesAssembleIt == copy = file /\ file[0].sum = Checksum(file)

(* The pieces of a patch are ones write_at takes: none is longer than a chunk or  *)
(* crosses into the next, the first holds the header (seal_in_place), and no cell *)
(* is sent twice (the checksum would count it twice).                             *)
RunsAreSound ==
    /\ runs # <<>> => runs[1].offset = 0
    /\ \A i \in DOMAIN runs :
          /\ runs[i].cells \in 1 .. Chunk
          /\ runs[i].offset \div Chunk = (runs[i].offset + runs[i].cells - 1) \div Chunk
          /\ \A j \in 1 .. i - 1 : Span(runs[i]) \cap Span(runs[j]) = {}

(* delta.h:19-20: where the base's layout has room, the build in place and the    *)
(* copying build write the same bytes, whatever the changes and the growth.       *)
BothWaysAgree ==
    [][(runs' # <<>> /\ file' # file) =>
          \A percent \in Growths :
              file' = Copied(file, Planned(file, batch'), percent, TRUE)]_vars

(* The one-pass lookup of a filtered search finds every id where find() does.     *)
LookupsAgree ==
    LET s == Opened(file)
    IN  \A S \in SUBSET Ids :
            LET wanted == Sorted(S)
            IN  FindSorted(s, wanted) = [j \in DOMAIN wanted |-> Find(s, wanted[j])]

(* The snapshot answers what the journal's changes say, build after build: a      *)
(* changed id answers its new vector, a deleted one nothing, and one deleted and  *)
(* added again its last vector, wherever the positions lie.                       *)
Promised == INSTANCE VVContents WITH contents <- ContentsOf(file)
AnswersChanges == Promised!Spec
====
