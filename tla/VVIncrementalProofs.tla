---- MODULE VVIncrementalProofs ----
(* What holds of snapshot files, incremental builds and patches for every value of *)
(* the constants: every node assembles the build node's file from the runs of a    *)
(* patch, and the runs are pieces that write_at takes.                             *)
EXTENDS VVIncremental, FiniteSetTheorems, SequenceTheorems, WellFoundedInduction, TLAPS

-----------------------------------------------------------------------------
\* Arithmetic of blocks and chunks.

\* A number lies in the block that division names.
LEMMA InBlock ==
    ASSUME NEW o \in Nat, NEW B \in Nat \ {0}
    PROVE  o \div B \in Nat /\ (o \div B) * B <= o /\ o < (o \div B) * B + B
OBVIOUS

\* And the block a number lies in is the one that division names.
LEMMA BlockOf ==
    ASSUME NEW k \in Nat, NEW B \in Nat \ {0}, NEW o \in Nat, k * B <= o, o < k * B + B
    PROVE  o \div B = k
OBVIOUS

\* A later block starts where an earlier one has ended.
LEMMA BlocksInOrder ==
    ASSUME NEW a \in Nat, NEW b \in Nat, NEW B \in Nat \ {0}, a < b
    PROVE  a * B + B <= b * B
OBVIOUS

\* The block of a number of blocks, and the one behind it.
LEMMA BlockStarts == ASSUME NEW a \in Nat, NEW B \in Nat PROVE a * B \in Nat /\ (a + 1) * B = a * B + B
OBVIOUS

\* More blocks end no earlier.
LEMMA NotAfter ==
    ASSUME NEW a \in Nat, NEW b \in Nat, NEW B \in Nat \ {0}, a <= b
    PROVE  a * B <= b * B
OBVIOUS

\* Blocks of a sum.
LEMMA Distributes == ASSUME NEW a \in Nat, NEW b \in Nat, NEW B \in Nat PROVE (a + b) * B = a * B + b * B
OBVIOUS

\* A whole number of blocks makes a chunk, so a block ends in the chunk it starts in.
LEMMA BlockEndsInChunk ==
    ASSUME NEW k \in Nat
    PROVE  /\ (k * Block) \div Chunk \in Nat
           /\ ((k * Block) \div Chunk) * Chunk <= k * Block
           /\ k * Block + Block <= ((k * Block) \div Chunk) * Chunk + Chunk
<1> DEFINE q == Chunk \div Block
           c == (k * Block) \div Chunk
<1>1. Block \in Nat \ {0} /\ Chunk \in Nat \ {0} /\ Chunk % Block = 0
  BY LayoutAssumption
<1>2. q \in Nat /\ Chunk = q * Block
  BY <1>1
<1>3. k * Block \in Nat
  BY <1>1, BlockStarts
<1>4. c \in Nat /\ c * Chunk <= k * Block /\ k * Block < c * Chunk + Chunk
  BY <1>1, <1>3, InBlock
<1> HIDE DEF q, c
<1>5. PICK d \in Nat : d = c * q /\ c * Chunk = d * Block
  BY <1>1, <1>2, <1>4
<1>6. PICK e \in Nat : e = d + q
  BY <1>2
<1>7. e * Block = c * Chunk + Chunk
  BY <1>1, <1>2, <1>5, <1>6, Distributes
<1>8. k < e
  BY <1>1, <1>3, <1>4, <1>6, <1>7, NotAfter
<1>9. k * Block + Block <= e * Block
  BY <1>1, <1>6, <1>8, BlocksInOrder
<1> QED
  BY <1>4, <1>7, <1>9 DEF c

-----------------------------------------------------------------------------
\* Least and greatest members.

\* A set of numbers has a least one.
LEMMA LeastNat == ASSUME NEW T \in SUBSET Nat, T # {} PROVE \E x \in T : \A y \in T : x <= y
<1> DEFINE Less == {ss \in Nat \X Nat : ss[1] < ss[2]}
<1>1. IsWellFoundedOn(Less, Nat)
  BY NatLessThanWellFounded DEF OpToRel
<1>2. PICK x \in T : \A y \in T : ~(<<y, x>> \in Less)
  <2> HIDE DEF Less
  <2> QED
    BY <1>1, WFMin
<1>3. \A y \in T : ~(y < x)
  BY <1>2
<1> QED
  BY <1>3

\* The minimum of a set of numbers is its least member.
LEMMA MinOfNats ==
    ASSUME NEW T \in SUBSET Nat, T # {}
    PROVE  Min(T) \in T /\ \A y \in T : Min(T) <= y
BY LeastNat DEF Min

\* The minimum of two numbers.
LEMMA MinOfPair == ASSUME NEW a \in Int, NEW b \in Int PROVE Min({a, b}) = IF a <= b THEN a ELSE b
<1>1. CASE a <= b
  <2>1. \A x \in {a, b} : (\A y \in {a, b} : x <= y) => x = a
    BY <1>1
  <2> QED
    BY <1>1, <2>1 DEF Min
<1>2. CASE ~(a <= b)
  <2>1. \A x \in {a, b} : (\A y \in {a, b} : x <= y) => x = b
    BY <1>2
  <2>2. b \in {a, b} /\ \A y \in {a, b} : b <= y
    BY <1>2
  <2> QED
    BY <1>2, <2>1, <2>2 DEF Min
<1> QED
  BY <1>1, <1>2

\* The maximum of two numbers is one of them, and not below the first.
LEMMA MaxOfPair == ASSUME NEW a \in Int, NEW b \in Int PROVE Max({a, b}) \in {a, b} /\ Max({a, b}) >= a
<1>1. \E x \in {a, b} : \A y \in {a, b} : x >= y
  <2>1. CASE a >= b
    BY <2>1
  <2>2. CASE ~(a >= b)
    BY <2>2
  <2> QED
    BY <2>1, <2>2
<1> QED
  BY <1>1 DEF Max

-----------------------------------------------------------------------------
\* Sorted

Below(S, x) == {y \in S : y < x}
RankIn(S, x) == Cardinality(Below(S, x))

\* In a finite set of numbers every rank belongs to one member.
LEMMA Ranks ==
    ASSUME NEW S \in SUBSET Nat, IsFiniteSet(S)
    PROVE  /\ Cardinality(S) \in Nat
           /\ \A x \in S : RankIn(S, x) \in 0 .. Cardinality(S) - 1
           /\ \A x, y \in S : x < y => RankIn(S, x) < RankIn(S, y)
           /\ \A k \in 0 .. Cardinality(S) - 1 : \E x \in S : RankIn(S, x) = k
<1> DEFINE n == Cardinality(S)
           T == 0 .. n - 1
           rank == [x \in S |-> RankIn(S, x)]
<1>1. n \in Nat
  BY FS_CardinalityType
<1>2. ASSUME NEW A \in SUBSET S, NEW B \in SUBSET A, NEW x \in A, x \notin B
      PROVE  Cardinality(B) \in Nat /\ Cardinality(A) \in Nat /\ Cardinality(B) < Cardinality(A)
  <2>1. IsFiniteSet(A) /\ IsFiniteSet(B)
    BY FS_Subset
  <2>2. Cardinality(B) <= Cardinality(A) /\ (Cardinality(A) = Cardinality(B) => A = B)
    BY <2>1, FS_Subset
  <2>3. Cardinality(B) \in Nat /\ Cardinality(A) \in Nat
    BY <2>1, FS_CardinalityType
  <2> QED
    BY <1>2, <2>2, <2>3
<1>3. \A x \in S : Below(S, x) \in SUBSET S /\ x \notin Below(S, x)
  BY DEF Below
<1>4. \A x, y \in S : x < y => Below(S, x) \in SUBSET Below(S, y) /\ x \in Below(S, y)
  <2> TAKE x, y \in S
  <2> HAVE x < y
  <2>1. \A z \in S : z < x => z < y
    OBVIOUS
  <2> QED
    BY <2>1 DEF Below
<1>5. \A x \in S : rank[x] \in T
  <2> TAKE x \in S
  <2>1. RankIn(S, x) \in Nat /\ RankIn(S, x) < n
    BY <1>2, <1>3 DEF RankIn
  <2> QED
    BY <1>1, <2>1
<1>6. \A x, y \in S : x < y => rank[x] < rank[y]
  <2> TAKE x, y \in S
  <2> HAVE x < y
  <2>1. RankIn(S, x) < RankIn(S, y)
    BY <1>2, <1>3, <1>4 DEF RankIn
  <2> QED
    BY <2>1
<1>7. \A x, y \in S : rank[x] = rank[y] => x = y
  <2> TAKE x, y \in S
  <2>1. x \in Nat /\ y \in Nat /\ rank[x] \in Int /\ rank[y] \in Int
    BY <1>1, <1>5
  <2> HIDE DEF rank
  <2> QED
    BY <1>6, <2>1
<1>8. rank \in Injection(S, T)
  <2>1. rank \in [S -> T]
    BY <1>5
  <2> HIDE DEF rank
  <2> QED
    BY <1>7, <2>1 DEF Injection, IsInjective
<1>9. IsFiniteSet(T) /\ Cardinality(T) = n
  <2>1. n - 1 \in Int /\ (0 > n - 1 => n = 0)
    BY <1>1
  <2> HIDE DEF n
  <2> QED
    BY <1>1, <2>1, FS_Interval
<1>10. rank \in Surjection(S, T)
  BY <1>8, <1>9, FS_Injection
<1>11. \A k \in T : \E x \in S : rank[x] = k
  BY <1>10 DEF Surjection
<1>12. \A x \in S : rank[x] = RankIn(S, x)
  OBVIOUS
<1> HIDE DEF rank
<1> QED
  BY <1>1, <1>5, <1>6, <1>11, <1>12

\* Sorted puts the members of a finite set of numbers in ascending order, each once.
LEMMA SortedIs ==
    ASSUME NEW S \in SUBSET Nat, IsFiniteSet(S)
    PROVE  /\ Cardinality(S) \in Nat
           /\ Sorted(S) \in Seq(S)
           /\ Len(Sorted(S)) = Cardinality(S)
           /\ DOMAIN Sorted(S) = 1 .. Cardinality(S)
           /\ \A i, j \in DOMAIN Sorted(S) : i < j => Sorted(S)[i] < Sorted(S)[j]
           /\ \A x \in S : \E i \in DOMAIN Sorted(S) : Sorted(S)[i] = x
<1> DEFINE n == Cardinality(S)
           list == Sorted(S)
<1>1. n \in Nat
  BY Ranks
<1>2. list = [k \in 1 .. n |-> CHOOSE x \in S : RankIn(S, x) = k - 1]
  BY DEF Sorted, RankIn, Below
<1>3. \A i \in 1 .. n : list[i] \in S /\ RankIn(S, list[i]) = i - 1
  <2> TAKE i \in 1 .. n
  <2>1. i - 1 \in 0 .. n - 1
    BY <1>1
  <2>2. \E x \in S : RankIn(S, x) = i - 1
    BY <2>1, Ranks
  <2> QED
    BY <1>2, <2>2
<1> HIDE DEF list
<1>4. list \in Seq(S) /\ Len(list) = n /\ DOMAIN list = 1 .. n
  BY <1>1, <1>2, <1>3
<1>5. \A i, j \in 1 .. n : i < j => list[i] < list[j]
  <2> TAKE i, j \in 1 .. n
  <2> HAVE i < j
  <2>1. list[i] \in Nat /\ list[j] \in Nat /\ RankIn(S, list[i]) = i - 1 /\ RankIn(S, list[j]) = j - 1
    BY <1>3
  <2>2. list[j] < list[i] => RankIn(S, list[j]) < RankIn(S, list[i])
    BY <1>3, Ranks
  <2>3. list[i] # list[j] /\ ~(list[j] < list[i])
    BY <1>1, <2>1, <2>2
  <2> QED
    BY <2>1, <2>3
<1>6. \A x \in S : \E i \in 1 .. n : list[i] = x
  <2> TAKE x \in S
  <2>1. RankIn(S, x) \in 0 .. n - 1
    BY Ranks
  <2>2. PICK i \in 1 .. n : RankIn(S, x) = i - 1
    BY <1>1, <2>1
  <2>3. RankIn(S, list[i]) = RankIn(S, x) /\ list[i] \in S
    BY <1>3, <2>2
  <2>4. list[i] \in Nat /\ x \in Nat /\ RankIn(S, x) \in Int
    <3>1. RankIn(S, x) \in Int
      BY <1>1, <2>1
    <3> QED
      BY <2>3, <3>1
  <2>5. ~(list[i] < x) /\ ~(x < list[i])
    BY <2>3, <2>4, Ranks
  <2> QED
    BY <2>4, <2>5
<1> QED
  BY <1>1, <1>4, <1>5, <1>6 DEF list

-----------------------------------------------------------------------------
\* The runs of a patch

\* The differing blocks are finitely many, they start within the file, and a cell of a candidate that changed
\* lies in one of them.
LEMMA DifferingIs ==
    ASSUME NEW size \in Nat, NEW a, NEW b, DOMAIN a = 0 .. size - 1, NEW candidates
    PROVE  /\ IsFiniteSet(Differing(a, b, candidates))
           /\ Differing(a, b, candidates) \in SUBSET Nat
           /\ \A k \in Differing(a, b, candidates) : k * Block < size /\ k <= size
           /\ \A r \in candidates : \A o \in Span(r) \cap DOMAIN a :
                 a[o] # b[o] => o \div Block \in Differing(a, b, candidates)
<1> DEFINE differ == Differing(a, b, candidates)
<1>1. Block \in Nat \ {0}
  BY LayoutAssumption
<1>2. ASSUME NEW k \in differ PROVE k \in Nat /\ k * Block < size /\ k \in 0 .. size
  <2>1. PICK o \in DOMAIN a : o \div Block = k
    BY DEF Differing
  <2>2. o \in Nat /\ o < size
    BY <2>1
  <2>3. k \in Nat /\ k * Block <= o
    BY <1>1, <2>1, <2>2, InBlock
  <2>4. k <= k * Block /\ k * Block \in Nat
    BY <1>1, <2>3
  <2> QED
    BY <2>2, <2>3, <2>4
<1>3. IsFiniteSet(differ)
  <2>1. differ \in SUBSET (0 .. size)
    BY <1>2
  <2>2. IsFiniteSet(0 .. size)
    BY FS_Interval
  <2> QED
    BY <2>1, <2>2, FS_Subset
<1>4. ASSUME NEW r \in candidates, NEW o \in Span(r) \cap DOMAIN a, a[o] # b[o]
      PROVE  o \div Block \in differ
  BY <1>4 DEF Differing
<1> QED
  BY <1>2, <1>3, <1>4

\* The blocks from k to end make one run.
IsRun(differ, k, end) ==
    /\ end \in differ /\ k <= end /\ ~Joined(differ, end + 1)
    /\ \A m \in k .. end : m \in differ /\ (m # k => Joined(differ, m))

\* From every differing block a run goes on to a last block.
LEMMA RunEnds ==
    ASSUME NEW differ \in SUBSET Nat, NEW n \in Nat, \A x \in differ : x <= n, NEW k \in differ
    PROVE  /\ Min({m \in differ : m >= k /\ ~Joined(differ, m + 1)}) \in differ
           /\ IsRun(differ, k, Min({m \in differ : m >= k /\ ~Joined(differ, m + 1)}))
<1> DEFINE T == {m \in differ : m >= k /\ ~Joined(differ, m + 1)}
           end == Min(T)
<1>1. T # {}
  <2> DEFINE U == {d \in Nat : \A x \in differ : x <= d}
  <2>2. PICK d \in U : \A y \in U : d <= y
    <3>1. U \in SUBSET Nat /\ n \in U
      OBVIOUS
    <3> HIDE DEF U
    <3> QED
      BY <3>1, LeastNat
  <2>3. d \in Nat /\ \A x \in differ : x <= d
    BY <2>2
  <2>4. d \in differ
    <3> SUFFICES ASSUME d \notin differ PROVE FALSE
      OBVIOUS
    <3>1. \A x \in differ : x < d
      BY <2>3
    <3>2. d - 1 \in Nat
      BY <2>3, <3>1
    <3>3. d - 1 \in U
      BY <3>1, <3>2
    <3> QED
      BY <2>2, <2>3, <3>3
  <2>5. d + 1 \notin differ
    BY <2>3
  <2>6. ~Joined(differ, d + 1)
    BY <2>5 DEF Joined
  <2> QED
    BY <2>3, <2>4, <2>6
<1>2. T \in SUBSET Nat
  OBVIOUS
<1>3. end \in T /\ \A y \in T : end <= y
  <2> HIDE DEF T
  <2> QED
    BY <1>1, <1>2, MinOfNats
<1>4. end \in differ /\ end \in Nat /\ k <= end /\ ~Joined(differ, end + 1)
  BY <1>3
<1>5. \A m \in differ : m >= k /\ m < end => Joined(differ, m + 1)
  <2> TAKE m \in differ
  <2> HAVE m >= k /\ m < end
  <2>1. m \notin T
    BY <1>3, <1>4
  <2> QED
    BY <2>1
<1> HIDE DEF end, T
<1> DEFINE Off == {m \in k .. end : ~(m \in differ /\ (m # k => Joined(differ, m)))}
<1>6. Off = {}
  <2> SUFFICES ASSUME Off # {} PROVE FALSE
    OBVIOUS
  <2>1. Off \in SUBSET Nat
    BY <1>4
  <2>2. PICK m \in Off : \A y \in Off : m <= y
    <3> HIDE DEF Off
    <3> QED
      BY <2>1, LeastNat
  <2>3. m \in k .. end /\ m # k
    BY <2>2
  <2>4. m - 1 \in k .. end /\ m - 1 < end /\ m - 1 \notin Off
    BY <1>4, <2>2, <2>3
  <2>5. m - 1 \in differ
    BY <2>4
  <2>6. Joined(differ, (m - 1) + 1) /\ (m - 1) + 1 = m
    BY <1>5, <2>3, <2>4, <2>5
  <2>7. Joined(differ, m)
    BY <2>6
  <2>8. m \in differ
    BY <2>7 DEF Joined
  <2> QED
    BY <2>2, <2>7, <2>8
<1> QED
  BY <1>4, <1>6 DEF IsRun, end, T

\* All blocks of a run lie in one chunk.
LEMMA RunInChunk ==
    ASSUME NEW differ \in SUBSET Nat, NEW k \in differ, NEW end, IsRun(differ, k, end)
    PROVE  \A m \in k .. end : (m * Block) \div Chunk = (k * Block) \div Chunk
<1> DEFINE Off == {m \in k .. end : (m * Block) \div Chunk # (k * Block) \div Chunk}
<1>1. Off = {}
  <2> SUFFICES ASSUME Off # {} PROVE FALSE
    OBVIOUS
  <2>1. k \in Nat /\ end \in Nat /\ Off \in SUBSET Nat
    BY DEF IsRun
  <2>2. PICK m \in Off : \A y \in Off : m <= y
    <3> HIDE DEF Off
    <3> QED
      BY <2>1, LeastNat
  <2>3. m \in k .. end /\ m # k
    BY <2>2
  <2>4. m - 1 \in k .. end /\ m - 1 \notin Off
    BY <2>1, <2>2, <2>3
  <2>5. ((m - 1) * Block) \div Chunk = (k * Block) \div Chunk
    BY <2>4
  <2>6. Joined(differ, m)
    BY <2>3 DEF IsRun
  <2>7. ((m - 1) * Block) \div Chunk = (m * Block) \div Chunk
    BY <2>6 DEF Joined
  <2> QED
    BY <2>2, <2>5, <2>7
<1> QED
  BY <1>1

RunOf(k, end, size) == CellRange(k * Block, Min({size, (end + 1) * Block}) - k * Block)

RunCells(k, end, size) == {o \in 0 .. size - 1 : k * Block <= o /\ o < end * Block + Block}

\* The cells of a run: those of its blocks, up to the end of the file; they are of one chunk.
LEMMA RunIs ==
    ASSUME NEW differ \in SUBSET Nat, NEW k \in differ, NEW end, IsRun(differ, k, end),
           NEW size \in Nat, \A m \in differ : m * Block < size,
           NEW r, r = RunOf(k, end, size)
    PROVE  /\ r.offset = k * Block
           /\ r.cells \in 1 .. Chunk
           /\ r.offset \div Chunk = (r.offset + r.cells - 1) \div Chunk
           /\ Span(r) = RunCells(k, end, size)
<1>1. Block \in Nat \ {0} /\ Chunk \in Nat \ {0} /\ k \in Nat /\ end \in Nat /\ end \in differ /\ k <= end
  BY LayoutAssumption DEF IsRun
<1>2. PICK from \in Nat : from = k * Block
  BY <1>1, BlockStarts
<1>3. PICK last \in Nat : last = end * Block
  BY <1>1, BlockStarts
<1>4. from <= last /\ last < size /\ (end + 1) * Block = last + Block
  BY <1>1, <1>2, <1>3, NotAfter, BlockStarts
<1>5. PICK to : to = Min({size, (end + 1) * Block})
  OBVIOUS
<1>6. to \in Nat /\ to <= size /\ to <= last + Block /\ (to = size \/ to = last + Block) /\ from < to
  <2>1. last + Block \in Int /\ size \in Int
    BY <1>1
  <2>2. to = IF size <= last + Block THEN size ELSE last + Block
    BY <1>4, <1>5, <2>1, MinOfPair
  <2> QED
    BY <1>1, <1>4, <2>2
<1>7. r.offset = from /\ r.cells = to - from
  BY <1>2, <1>5 DEF CellRange, RunOf
<1>8. PICK c \in Nat : c = from \div Chunk
  BY <1>1, InBlock
<1>9. c * Chunk \in Nat /\ c * Chunk <= from /\ last + Block <= c * Chunk + Chunk
  <2>1. c * Chunk \in Nat /\ c * Chunk <= from
    BY <1>1, <1>8, InBlock, BlockStarts
  <2>2. (end * Block) \div Chunk = (k * Block) \div Chunk
    <3>1. \A m \in k .. end : (m * Block) \div Chunk = (k * Block) \div Chunk
      BY RunInChunk
    <3>2. end \in k .. end
      BY <1>1
    <3> QED
      BY <3>1, <3>2, Zenon
  <2>3. end * Block + Block <= ((end * Block) \div Chunk) * Chunk + Chunk
    BY <1>1, BlockEndsInChunk
  <2> QED
    BY <1>2, <1>3, <1>8, <2>1, <2>2, <2>3
<1>10. to - from \in 1 .. Chunk
  BY <1>1, <1>6, <1>9
<1>11. (from + (to - from) - 1) \div Chunk = c
  <2>1. PICK z \in Nat : z = from + (to - from) - 1 /\ z = to - 1
    BY <1>6
  <2>2. c * Chunk <= z /\ z < c * Chunk + Chunk
    BY <1>1, <1>6, <1>9, <2>1
  <2> QED
    BY <1>1, <2>1, <2>2, BlockOf
<1>12. Span(r) = from .. to - 1
  <2>1. from + (to - from) - 1 = to - 1
    BY <1>6
  <2> QED
    BY <1>7, <2>1 DEF Span
<1>13. from .. to - 1 = {o \in 0 .. size - 1 : from <= o /\ o < last + Block}
  BY <1>1, <1>6
<1> QED
  BY <1>2, <1>3, <1>7, <1>8, <1>10, <1>11, <1>12, <1>13 DEF RunCells

\* Of two runs one ends before the other starts.
LEMMA RunsApart ==
    ASSUME NEW differ \in SUBSET Nat, NEW k \in differ, NEW end, IsRun(differ, k, end),
           NEW l \in differ, ~Joined(differ, l), k < l
    PROVE  end * Block + Block <= l * Block
<1>1. end \in Nat /\ k \in Nat /\ l \in Nat /\ \A m \in k .. end : m # k => Joined(differ, m)
  BY DEF IsRun
<1>2. l \notin k .. end
  BY <1>1
<1>3. end < l
  BY <1>1, <1>2
<1> QED
  BY <1>1, <1>3, BlocksInOrder, LayoutAssumption

\* Every differing block belongs to the run of some first block.
LEMMA RunFound ==
    ASSUME NEW differ \in SUBSET Nat, NEW n \in Nat, \A x \in differ : x <= n, NEW m \in differ
    PROVE  \E k \in differ : /\ ~Joined(differ, k) /\ k <= m
                             /\ \A end : IsRun(differ, k, end) => m <= end
<1> DEFINE T == {j \in 0 .. m : \A i \in j .. m : i \in differ /\ (i # j => Joined(differ, i))}
<1>1. PICK k \in T : \A y \in T : k <= y
  <2>1. T \in SUBSET Nat /\ m \in T
    OBVIOUS
  <2> HIDE DEF T
  <2> QED
    BY <2>1, LeastNat
<1>2. k \in 0 .. m /\ \A i \in k .. m : i \in differ /\ (i # k => Joined(differ, i))
  BY <1>1
<1>3. k \in differ /\ k \in Nat /\ k <= m
  BY <1>2
<1>4. ~Joined(differ, k)
  <2> SUFFICES ASSUME Joined(differ, k) PROVE FALSE
    OBVIOUS
  <2>1. k - 1 \in differ /\ k - 1 \in Nat
    BY DEF Joined
  <2>2. \A i \in k - 1 .. m : i # k - 1 => i \in k .. m
    BY <1>3, <2>1
  <2>3. k - 1 \in 0 .. m /\ \A i \in k - 1 .. m : i \in differ /\ (i # k - 1 => Joined(differ, i))
    BY <1>2, <1>3, <2>1, <2>2
  <2>4. k - 1 \in T
    BY <2>3
  <2> QED
    BY <1>1, <1>3, <2>1, <2>4
<1>5. ASSUME NEW end, IsRun(differ, k, end) PROVE m <= end
  <2>1. end \in Nat /\ k <= end /\ ~Joined(differ, end + 1)
    BY <1>5 DEF IsRun
  <2>2. end + 1 \notin k .. m \/ end + 1 = k
    BY <1>2, <2>1
  <2> QED
    BY <1>3, <2>1, <2>2
<1> QED
  BY <1>3, <1>4, <1>5

\* What a patch needs of its runs, and what it is for: they are pieces of one chunk each, no cell is in two of
\* them, the first holds the header when that changed, and outside of them nothing changed.
RunsServe(a, b, found) ==
    /\ Covered(found) \subseteq DOMAIN a
    /\ \A i \in DOMAIN found :
          /\ found[i].cells \in 1 .. Chunk
          /\ found[i].offset \div Chunk = (found[i].offset + found[i].cells - 1) \div Chunk
          /\ \A j \in 1 .. i - 1 : Span(found[i]) \cap Span(found[j]) = {}
    /\ a[0] # b[0] => found[1].offset = 0 /\ 0 \in Covered(found)
    /\ \A o \in DOMAIN a : a[o] # b[o] => o \in Covered(found)

\* The runs of a diff serve, when the candidates name every cell that changed.
LEMMA DiffServes ==
    ASSUME NEW size \in Nat, NEW a, NEW b, DOMAIN a = 0 .. size - 1, NEW candidates,
           \A o \in DOMAIN a : a[o] # b[o] => \E r \in candidates : o \in Span(r),
           0 \in DOMAIN a
    PROVE  RunsServe(a, b, Diff(a, b, candidates))
<1> DEFINE differ == Differing(a, b, candidates)
           heads == {k \in differ : ~Joined(differ, k)}
           starts == Sorted(heads)
           found == Diff(a, b, candidates)
           end(k) == Min({m \in differ : m >= k /\ ~Joined(differ, m + 1)})
           cells(k) == RunCells(k, end(k), size)
<1>1. Block \in Nat \ {0}
  BY LayoutAssumption
<1>2. /\ IsFiniteSet(differ) /\ differ \in SUBSET Nat
      /\ \A k \in differ : k * Block < size /\ k <= size
      /\ \A r \in candidates : \A o \in Span(r) \cap DOMAIN a : a[o] # b[o] => o \div Block \in differ
  BY DifferingIs
<1>3. Cardinality(DOMAIN a) = size
  <2>1. size - 1 \in Int /\ (0 > size - 1 => size = 0) /\ (size - 1) - 0 + 1 = size
    OBVIOUS
  <2> QED
    BY <2>1, FS_Interval
<1>4. /\ DOMAIN starts = 1 .. Cardinality(heads) /\ Cardinality(heads) \in Nat
      /\ \A i \in DOMAIN starts : starts[i] \in heads
      /\ \A i, j \in DOMAIN starts : i < j => starts[i] < starts[j]
      /\ \A k \in heads : \E i \in DOMAIN starts : starts[i] = k
  <2>1. heads \in SUBSET Nat /\ IsFiniteSet(heads)
    <3>1. heads \subseteq differ
      OBVIOUS
    <3> HIDE DEF heads, differ
    <3> QED
      BY <1>2, <3>1, FS_Subset
  <2> HIDE DEF heads
  <2> QED
    BY <2>1, SortedIs, ElementOfSeq
<1>5. found = [i \in DOMAIN starts |-> RunFrom(differ, starts[i], size)]
  BY <1>3 DEF Diff
<1>6. ASSUME NEW k \in differ
      PROVE  /\ IsRun(differ, k, end(k))
             /\ RunFrom(differ, k, size).offset = k * Block
             /\ RunFrom(differ, k, size).cells \in 1 .. Chunk
             /\ RunFrom(differ, k, size).offset \div Chunk
                  = (RunFrom(differ, k, size).offset + RunFrom(differ, k, size).cells - 1) \div Chunk
             /\ Span(RunFrom(differ, k, size)) = cells(k)
  <2>1. PICK e : e = end(k)
    OBVIOUS
  <2>2. IsRun(differ, k, e)
    BY <1>2, <2>1, RunEnds
  <2>3. PICK r : r = RunFrom(differ, k, size)
    OBVIOUS
  <2>4. r = RunOf(k, e, size)
    BY <2>1, <2>3 DEF RunFrom, RunOf
  <2> HIDE DEF differ, end
  <2>5. /\ r.offset = k * Block /\ r.cells \in 1 .. Chunk
        /\ r.offset \div Chunk = (r.offset + r.cells - 1) \div Chunk
        /\ Span(r) = RunCells(k, e, size)
    <3>1. differ \in SUBSET Nat /\ \A m \in differ : m * Block < size
      BY <1>2
    <3> QED
      BY <2>2, <2>4, <3>1, RunIs
  <2> QED
    BY <2>1, <2>2, <2>3, <2>5
<1> HIDE DEF differ, found, end
<1>7. ASSUME NEW k \in heads, NEW l \in heads, k < l PROVE cells(k) \cap cells(l) = {}
  <2>1. end(k) * Block + Block <= l * Block
    BY <1>2, <1>6, <1>7, RunsApart
  <2>2. end(k) \in Nat /\ l \in Nat
    BY <1>2, <1>6 DEF IsRun
  <2>3. PICK x \in Int : x = end(k) * Block + Block
    BY <1>1, <2>2, BlockStarts
  <2>4. PICK y \in Int : y = l * Block
    BY <1>1, <2>2, BlockStarts
  <2>5. \A o \in 0 .. size - 1 : ~(o < x /\ y <= o)
    BY <2>1, <2>3, <2>4
  <2> QED
    BY <2>3, <2>4, <2>5 DEF RunCells
<1>8. ASSUME NEW i \in DOMAIN found
      PROVE  /\ starts[i] \in heads /\ starts[i] \in differ /\ i \in DOMAIN starts
             /\ found[i] = RunFrom(differ, starts[i], size)
  BY <1>4, <1>5
<1>9. ASSUME NEW i \in DOMAIN found, NEW j \in 1 .. i - 1 PROVE Span(found[i]) \cap Span(found[j]) = {}
  <2>1. i \in DOMAIN starts /\ j \in DOMAIN starts /\ j < i /\ j \in DOMAIN found
    BY <1>4, <1>5
  <2>2. starts[j] < starts[i]
    BY <1>4, <2>1
  <2>3. Span(found[i]) = cells(starts[i]) /\ Span(found[j]) = cells(starts[j])
    BY <1>6, <1>8, <2>1
  <2>4. cells(starts[j]) \cap cells(starts[i]) = {}
    BY <1>7, <1>8, <2>1, <2>2
  <2> QED
    BY <2>3, <2>4
<1>10. ASSUME NEW o \in DOMAIN a, o \div Block \in differ PROVE o \in Covered(found)
  <2>1. PICK m \in Nat : m = o \div Block /\ m \in differ
    BY <1>2, <1>10
  <2>2. PICK k \in differ : ~Joined(differ, k) /\ k <= m /\ \A e : IsRun(differ, k, e) => m <= e
    BY <1>2, <2>1, RunFound
  <2>3. m <= end(k) /\ end(k) \in Nat /\ k \in Nat
    BY <1>2, <1>6, <2>2 DEF IsRun
  <2>4. o \in Nat /\ o <= size - 1 /\ m * Block <= o /\ o < m * Block + Block
    <3>1. o \in Nat /\ o <= size - 1 /\ Block \in Nat \ {0}
      BY <1>1
    <3> HIDE DEF differ
    <3>2. (o \div Block) * Block <= o /\ o < (o \div Block) * Block + Block
      BY <3>1, InBlock
    <3> QED
      BY <2>1, <3>1, <3>2
  <2>5. k * Block <= m * Block /\ m * Block <= end(k) * Block
    BY <1>1, <2>1, <2>2, <2>3, NotAfter
  <2>6. PICK x \in Nat, y \in Nat, z \in Nat : x = k * Block /\ y = m * Block /\ z = end(k) * Block
    BY <1>1, <2>1, <2>3, BlockStarts
  <2>7. k * Block <= o /\ o < end(k) * Block + Block
    BY <1>1, <2>4, <2>5, <2>6
  <2>8. o \in cells(k)
    BY <2>4, <2>7 DEF RunCells
  <2>9. PICK i \in DOMAIN starts : starts[i] = k
    BY <1>4, <2>2
  <2>10. i \in DOMAIN found /\ Span(found[i]) = cells(k)
    BY <1>5, <1>6, <1>8, <2>9
  <2> QED
    BY <2>8, <2>10 DEF Covered
<1>11. ASSUME NEW o \in DOMAIN a, a[o] # b[o] PROVE o \div Block \in differ
  <2>1. PICK r \in candidates : o \in Span(r)
    BY <1>11
  <2> QED
    BY <1>2, <1>11, <2>1
<1>12. ASSUME a[0] # b[0] PROVE found[1].offset = 0 /\ 0 \in Covered(found)
  <2>1. 0 \div Block \in differ /\ 0 \div Block = 0
    BY <1>1, <1>11, <1>12
  <2>2. 0 \in Covered(found)
    BY <1>10, <2>1
  <2>3. 0 \in heads
    BY <1>2, <2>1 DEF Joined
  <2>4. PICK i \in DOMAIN starts : starts[i] = 0
    BY <1>4, <2>3
  <2>5. i = 1 /\ 1 \in DOMAIN starts
    <3>1. i \in Nat /\ 1 <= i /\ 1 \in DOMAIN starts
      BY <1>4
    <3>2. starts[1] \in Nat
      BY <1>2, <1>4, <3>1
    <3>3. ~(1 < i)
      BY <1>4, <2>4, <3>1, <3>2
    <3> QED
      BY <3>1, <3>3
  <2>6. 1 \in DOMAIN found /\ starts[1] = 0
    BY <1>5, <2>4, <2>5
  <2>7. found[1].offset = 0 * Block
    BY <1>6, <1>8, <2>6
  <2> QED
    BY <1>1, <2>2, <2>7
<1>13. Covered(found) \subseteq DOMAIN a
  <2>1. \A i \in DOMAIN found : Span(found[i]) \subseteq 0 .. size - 1
    BY <1>6, <1>8 DEF RunCells
  <2> QED
    BY <2>1 DEF Covered
<1>14. \A i \in DOMAIN found :
          /\ found[i].cells \in 1 .. Chunk
          /\ found[i].offset \div Chunk = (found[i].offset + found[i].cells - 1) \div Chunk
          /\ \A j \in 1 .. i - 1 : Span(found[i]) \cap Span(found[j]) = {}
  BY <1>6, <1>8, <1>9
<1> QED
  BY <1>10, <1>11, <1>12, <1>13, <1>14 DEF RunsServe, found

-----------------------------------------------------------------------------
\* Files

IsHeader(h) ==
    h \in [count : Nat, roomy : {h.roomy}, capacity : Nat, indexed : {h.indexed}, tombstones : Nat, sum : {h.sum}]

\* A header and the cells its layout has.
IsFile(f) == IsHeader(f[0]) /\ f = [o \in 0 .. TotalCells(f[0]) - 1 |-> f[o]]

\* The sections are where numbers say, behind the header.
LEMMA LayoutIs ==
    ASSUME NEW h, IsHeader(h)
    PROVE  /\ LayoutPositions(h) \in Nat
           /\ OffVectors(h) \in Nat \ {0} /\ OffIds(h) \in Nat \ {0} /\ OffIndex(h) \in Nat \ {0}
           /\ OffTombstones(h) \in Nat \ {0} /\ TotalCells(h) \in Nat \ {0}
<1>1. LayoutPositions(h) \in Nat
  BY DEF IsHeader, LayoutPositions
<1>2. OffIndex(h) \in Nat \ {0} /\ OffIds(h) \in Nat \ {0} /\ OffVectors(h) \in Nat \ {0}
  BY <1>1 DEF OffIndex, OffIds, OffVectors
<1>3. OffTombstones(h) \in Nat \ {0}
  BY <1>1, <1>2 DEF OffTombstones
<1>4. TotalCells(h) \in Nat \ {0}
  BY <1>1, <1>3 DEF TotalCells
<1> QED
  BY <1>1, <1>2, <1>3, <1>4

\* Writing cells to an offset touches those cells only.
LEMMA PutIs ==
    ASSUME NEW f, DOMAIN f \subseteq Int, NEW offset \in Nat, NEW cells, NEW n \in Nat, DOMAIN cells = 1 .. n
    PROVE  /\ DOMAIN Put(f, offset, cells) = DOMAIN f
           /\ \A o \in DOMAIN f : o \notin offset .. offset + n - 1 => Put(f, offset, cells)[o] = f[o]
<1>1. \A o \in DOMAIN f : o - offset + 1 \in 1 .. n => o \in offset .. offset + n - 1
  OBVIOUS
<1> QED
  BY <1>1 DEF Put

Word(f, o) == IF o = 0 THEN [f[0] EXCEPT !.sum = {}] ELSE f[o]
Counts(f, o) == o = 0 \/ f[o] # 0

\* The words of a range of a file, one per cell that counts.
LEMMA WordsAre ==
    ASSUME NEW f, NEW S
    PROVE  \A w : w \in Words(f, S) <=> \E o \in S : Counts(f, o) /\ w = <<o, Word(f, o)>>
BY DEF Words, Word, Counts

\* The words of two parts of a file, and of files that agree on a part.
LEMMA WordsSplit ==
    ASSUME NEW f, NEW C, NEW E
    PROVE  Words(f, C \cup E) = Words(f, C) \cup Words(f, E)
<1>1. ASSUME NEW w PROVE w \in Words(f, C \cup E) <=> w \in Words(f, C) \/ w \in Words(f, E)
  BY WordsAre
<1> QED
  BY <1>1

\* Words of different cells differ.
LEMMA WordsApart ==
    ASSUME NEW f, NEW g, NEW C, NEW D
    PROVE  Words(f, C) \cap Words(g, D \ C) = {}
<1>1. ASSUME NEW w, w \in Words(f, C), w \in Words(g, D \ C) PROVE FALSE
  <2>1. PICK o \in C : w = <<o, Word(f, o)>>
    BY <1>1, WordsAre
  <2>2. PICK p \in D \ C : w = <<p, Word(g, p)>>
    BY <1>1, WordsAre
  <2>3. o = p
    BY <2>1, <2>2
  <2> QED
    BY <2>2, <2>3
<1> QED
  BY <1>1

\* Files alike in a range have the same words there.
LEMMA WordsSame ==
    ASSUME NEW f, NEW g, NEW S, \A o \in S : Counts(f, o) <=> Counts(g, o), \A o \in S : Word(f, o) = Word(g, o)
    PROVE  Words(f, S) = Words(g, S)
<1>1. ASSUME NEW w PROVE w \in Words(f, S) <=> w \in Words(g, S)
  BY WordsAre
<1> QED
  BY <1>1

\* A checksum over two parts, one of which is replaced.
LEMMA XorOfParts ==
    ASSUME NEW P, NEW Q, NEW R, P \cap R = {}, Q \cap R = {}
    PROVE  Xor(P \cup R, Xor(P, Q)) = Q \cup R
BY DEF Xor

WithSum(f, x) == [f EXCEPT ![0].sum = x]

\* A sum in the header changes nothing that is summed.
LEMMA SumIsNotSummed ==
    ASSUME NEW f, 0 \in DOMAIN f, IsHeader(f[0]), NEW x, NEW g, g = WithSum(f, x)
    PROVE  /\ DOMAIN g = DOMAIN f /\ g[0].sum = x /\ IsHeader(g[0])
           /\ TotalCells(g[0]) = TotalCells(f[0])
           /\ \A o \in DOMAIN f : o # 0 => g[o] = f[o]
           /\ Words(g, DOMAIN f) = Words(f, DOMAIN f)
<1>1. DOMAIN g = DOMAIN f /\ g[0] = [f[0] EXCEPT !.sum = x] /\ \A o \in DOMAIN f : o # 0 => g[o] = f[o]
  BY DEF WithSum
<1>2. /\ g[0].sum = x /\ g[0].count = f[0].count /\ g[0].roomy = f[0].roomy /\ g[0].capacity = f[0].capacity
      /\ g[0].indexed = f[0].indexed /\ g[0].tombstones = f[0].tombstones /\ IsHeader(g[0])
  BY <1>1 DEF IsHeader
<1>3. TotalCells(g[0]) = TotalCells(f[0])
  BY <1>2 DEF TotalCells, OffTombstones, OffIndex, LayoutPositions
<1>4. [g[0] EXCEPT !.sum = {}] = [f[0] EXCEPT !.sum = {}]
  BY <1>1 DEF IsHeader
<1>5. \A o \in DOMAIN f : (Counts(f, o) <=> Counts(g, o)) /\ Word(f, o) = Word(g, o)
  BY <1>1, <1>4 DEF Counts, Word
<1>6. Words(g, DOMAIN f) = Words(f, DOMAIN f)
  BY <1>5, WordsSame
<1> QED
  BY <1>1, <1>2, <1>3, <1>6

\* The sum put together from the changed runs is the sum of the patched file.
LEMMA SealIsChecksum ==
    ASSUME NEW base, NEW patched, NEW found, 0 \in DOMAIN base, DOMAIN patched = DOMAIN base,
           IsHeader(patched[0]), base[0].sum = Checksum(base), RunsServe(base, patched, found),
           NEW sealed, sealed = SealedInPlace(base, patched, found)
    PROVE  sealed[0].sum = Checksum(sealed)
<1> DEFINE D == DOMAIN base
           C == Covered(found)
           P == Words(base, C)
           Q == Words(patched, C)
           R == Words(base, D \ C)
<1>1. C \subseteq D /\ \A o \in D \ C : base[o] = patched[o]
  BY DEF RunsServe
<1>2. \A o \in D \ C : (Counts(base, o) <=> Counts(patched, o)) /\ Word(base, o) = Word(patched, o)
  BY <1>1 DEF Counts, Word
<1>3. Words(patched, D \ C) = R
  BY <1>2, WordsSame
<1>4. D = C \cup (D \ C)
  BY <1>1
<1>5. Words(base, D) = P \cup R /\ Words(patched, D) = Q \cup R
  BY <1>3, <1>4, WordsSplit
<1>6. P \cap R = {} /\ Q \cap R = {}
  BY WordsApart
<1>7. PICK x : x = Xor(P \cup R, Xor(P, Q))
  OBVIOUS
<1>8. base[0].sum = P \cup R
  BY <1>5 DEF Checksum
<1>9. sealed = WithSum(patched, x)
  BY <1>7, <1>8 DEF SealedInPlace, WithSum
<1> HIDE DEF P, Q, R, C
<1>10. x = Q \cup R
  BY <1>6, <1>7, XorOfParts
<1>11. 0 \in DOMAIN patched
  OBVIOUS
<1>12. sealed[0].sum = x /\ DOMAIN sealed = D /\ Words(sealed, D) = Words(patched, D)
  BY <1>9, <1>11, SumIsNotSummed
<1> QED
  BY <1>5, <1>10, <1>12 DEF Checksum

-----------------------------------------------------------------------------
\* What the other nodes make of it

\* A node that has the base and gets the runs has the sealed file.
LEMMA PatchedIsSealed ==
    ASSUME NEW base, NEW patched, NEW found, DOMAIN patched = DOMAIN base, 0 \in DOMAIN base,
           RunsServe(base, patched, found), base[0] # patched[0],
           NEW sealed, sealed = SealedInPlace(base, patched, found)
    PROVE  Patched(base, sealed, found) = sealed
<1>1. sealed = [o \in DOMAIN base |-> sealed[o]] /\ \A o \in DOMAIN base : o # 0 => sealed[o] = patched[o]
  BY DEF SealedInPlace
<1>2. \A o \in DOMAIN base : o \notin Covered(found) => base[o] = sealed[o]
  BY <1>1 DEF RunsServe
<1> QED
  BY <1>1, <1>2 DEF Patched

\* A node that gets every chunk with content has the whole file.
LEMMA AssembledIsFile ==
    ASSUME NEW f, f = [o \in 0 .. TotalCells(f[0]) - 1 |-> f[o]]
    PROVE  Assembled(f) = f
<1>1. \A o \in DOMAIN f :
         (IF o < Chunk \/ \E p \in DOMAIN f : p \div Chunk = o \div Chunk /\ f[p] # 0 THEN f[o] ELSE 0) = f[o]
  OBVIOUS
<1> QED
  BY <1>1 DEF Assembled

\* Sealing a file gives it the sum of its words.
LEMMA SealedIs ==
    ASSUME NEW f, IsFile(f)
    PROVE  IsFile(Sealed(f)) /\ Sealed(f)[0].sum = Checksum(Sealed(f))
<1>1. 0 \in DOMAIN f /\ IsHeader(f[0]) /\ DOMAIN f = 0 .. TotalCells(f[0]) - 1
  BY LayoutIs DEF IsFile
<1>2. PICK x : x = Checksum(f)
  OBVIOUS
<1>3. PICK g : g = Sealed(f)
  OBVIOUS
<1>4. g = WithSum(f, x)
  BY <1>2, <1>3 DEF Sealed, WithSum
<1>5. /\ DOMAIN g = DOMAIN f /\ g[0].sum = x /\ IsHeader(g[0]) /\ TotalCells(g[0]) = TotalCells(f[0])
      /\ Words(g, DOMAIN f) = Words(f, DOMAIN f)
  <2>1. 0 \in DOMAIN f /\ IsHeader(f[0])
    BY <1>1
  <2> QED
    BY <2>1, <1>4, SumIsNotSummed
<1>6. g = [o \in DOMAIN f |-> g[o]]
  BY <1>4 DEF WithSum
<1> QED
  BY <1>1, <1>2, <1>3, <1>5, <1>6 DEF IsFile, Checksum

-----------------------------------------------------------------------------
\* Plans

\* What a plan says of the next file.
IsPlan(f, plan) ==
    /\ Len(plan.new) \in Nat
    /\ plan.new = [j \in 1 .. Len(plan.new) |-> plan.new[j]]
    /\ plan.rows = [j \in 1 .. Len(plan.new) |-> plan.rows[j]]
    /\ plan.count = f[0].count + Len(plan.new)
    /\ plan.tombstones \in Nat
    /\ ~plan.nothing => plan.count # f[0].count \/ plan.tombstones # f[0].tombstones

\* A set of ids in order is a sequence of its members.
LEMMA SortedIds ==
    ASSUME NEW S \in SUBSET Ids
    PROVE  /\ Len(Sorted(S)) \in Nat
           /\ Sorted(S) = [j \in 1 .. Len(Sorted(S)) |-> Sorted(S)[j]]
           /\ S # {} => Len(Sorted(S)) # 0
           /\ S = {} => Sorted(S) = <<>>
<1>1. S \in SUBSET Nat /\ IsFiniteSet(S)
  BY LayoutAssumption, FS_Subset
<1>2. /\ Cardinality(S) \in Nat /\ Sorted(S) \in Seq(S) /\ Len(Sorted(S)) = Cardinality(S)
      /\ DOMAIN Sorted(S) = 1 .. Cardinality(S)
  BY <1>1, SortedIs
<1>3. Sorted(S) = [j \in DOMAIN Sorted(S) |-> Sorted(S)[j]]
  BY DEF Sorted
<1>4. S = {} <=> Cardinality(S) = 0
  BY <1>1, FS_EmptySet
<1>5. Len(Sorted(S)) = 0 => Sorted(S) = <<>>
  BY <1>2
<1> QED
  BY <1>2, <1>3, <1>4, <1>5

\* A build kills finitely many positions.
LEMMA KilledAreFinite ==
    ASSUME NEW s, NEW changes
    PROVE  IsFiniteSet(Killed(s, changes))
<1> DEFINE A == Removed(changes) \cup (Given(changes) \ Unchanged(s, changes))
           found == [i \in A |-> Find(s, i)]
           T == {Find(s, i) : i \in A}
<1>1. IsFiniteSet(A)
  <2>1. A \subseteq Ids
    BY DEF Removed, Given
  <2> HIDE DEF A
  <2> QED
    BY <2>1, LayoutAssumption, FS_Subset
<1>2. found \in Surjection(A, T)
  BY DEF Surjection
<1>3. IsFiniteSet(T)
  <2> HIDE DEF A, T, found
  <2> QED
    BY <1>1, <1>2, FS_Surjection
<1>4. Killed(s, changes) = T \ {-1}
  BY DEF Killed
<1> HIDE DEF T
<1> QED
  BY <1>3, <1>4, FS_Subset

\* A planned build is a plan.
LEMMA PlannedIsPlan ==
    ASSUME NEW f, IsHeader(f[0]), NEW changes
    PROVE  IsPlan(f, Planned(f, changes))
<1> DEFINE s == Opened(f)
           S == Given(changes) \ Unchanged(s, changes)
           killed == Killed(s, changes)
           plan == Planned(f, changes)
<1>1. S \in SUBSET Ids
  BY DEF Given
<1>2. s.count = f[0].count
  BY DEF Opened
<1>3. /\ plan.new = Sorted(S) /\ plan.rows = [j \in DOMAIN Sorted(S) |-> changes[Sorted(S)[j]]]
      /\ plan.count = s.count + Len(Sorted(S))
      /\ plan.tombstones = f[0].tombstones + Cardinality(killed)
      /\ plan.nothing <=> (Sorted(S) = <<>> /\ killed = {})
  BY DEF Planned
<1>4. Cardinality(killed) \in Nat /\ (killed # {} => Cardinality(killed) # 0)
  BY KilledAreFinite, FS_CardinalityType, FS_EmptySet
<1>5. f[0].tombstones \in Nat /\ f[0].count \in Nat
  BY DEF IsHeader
<1> HIDE DEF plan, s, S, killed
<1>6. PICK new : new = Sorted(S)
  OBVIOUS
<1>7. /\ Len(new) \in Nat /\ new = [j \in 1 .. Len(new) |-> new[j]] /\ DOMAIN new = 1 .. Len(new)
      /\ Len(new) = 0 => new = <<>>
  BY <1>1, <1>6, SortedIds
<1>8. plan.rows = [j \in 1 .. Len(new) |-> plan.rows[j]]
  BY <1>3, <1>6, <1>7
<1>9. ~plan.nothing => plan.count # f[0].count \/ plan.tombstones # f[0].tombstones
  BY <1>2, <1>3, <1>4, <1>5, <1>6, <1>7
<1>10. IsPlan(f, plan)
  BY <1>2, <1>3, <1>4, <1>5, <1>6, <1>7, <1>8, <1>9 DEF IsPlan
<1> QED
  BY <1>10 DEF plan

-----------------------------------------------------------------------------
\* The build in place

\* It keeps the layout, touches only cells of the candidates, and changes the header when it changes anything.
LEMMA InPlaceIs ==
    ASSUME NEW f, IsFile(f), f[0].roomy, NEW plan, IsPlan(f, plan),
           NEW written, written = InPlace(f, plan)
    PROVE  /\ DOMAIN written = DOMAIN f
           /\ IsHeader(written[0]) /\ TotalCells(written[0]) = TotalCells(f[0])
           /\ ~plan.nothing => f[0] # written[0]
           /\ \A o \in DOMAIN f : f[o] # written[o] => \E r \in Candidates(f, plan) : o \in Span(r)
<1> DEFINE s == Opened(f)
           n == f[0].count
           m == Len(plan.new)
           h == [f[0] EXCEPT !.count = plan.count, !.indexed = plan.indexed, !.tombstones = plan.tombstones]
           rows == Put(f, OffVectors(h) + s.count, plan.rows)
           ids == Put(rows, OffIds(h) + s.count, plan.new)
           index == IF plan.indexed THEN Put(ids, OffIndex(h), MergedIndex(s, plan.new)) ELSE ids
           dead == IF plan.tombstones > 0
                   THEN Put(index, OffTombstones(h), TombstoneCells(plan, s.count)) ELSE index
           D == DOMAIN f
<1>1. IsHeader(f[0]) /\ 0 \in D /\ D \subseteq Int /\ D = 0 .. TotalCells(f[0]) - 1
  BY LayoutIs DEF IsFile
<1>2. s.count = n /\ n \in Nat /\ m \in Nat /\ plan.count = n + m /\ plan.tombstones \in Nat
  BY <1>1 DEF Opened, IsHeader, IsPlan
<1>3. /\ h.count = plan.count /\ h.indexed = plan.indexed /\ h.tombstones = plan.tombstones
      /\ h.roomy = f[0].roomy /\ h.capacity = f[0].capacity /\ IsHeader(h)
  <2>1. PICK g : g = f[0]
    OBVIOUS
  <2>2. h = [g EXCEPT !.count = plan.count, !.indexed = plan.indexed, !.tombstones = plan.tombstones]
    BY <2>1
  <2>3. g \in [count : Nat, roomy : {g.roomy}, capacity : Nat, indexed : {g.indexed},
               tombstones : Nat, sum : {g.sum}]
    BY <1>1, <2>1 DEF IsHeader
  <2> HIDE DEF h
  <2>4. h = [count |-> plan.count, roomy |-> g.roomy, capacity |-> g.capacity, indexed |-> plan.indexed,
             tombstones |-> plan.tombstones, sum |-> g.sum]
    BY <2>2, <2>3
  <2>5. plan.count \in Nat /\ g.capacity \in Nat
    BY <1>2, <2>3
  <2>6. IsHeader(h)
    BY <1>2, <2>4, <2>5 DEF IsHeader
  <2> QED
    BY <2>1, <2>4, <2>6
<1> HIDE DEF h
<1>4. /\ LayoutPositions(h) = LayoutPositions(f[0]) /\ OffVectors(h) = OffVectors(f[0])
      /\ OffIds(h) = OffIds(f[0]) /\ OffIndex(h) = OffIndex(f[0]) /\ OffTombstones(h) = OffTombstones(f[0])
      /\ TotalCells(h) = TotalCells(f[0])
  BY <1>3 DEF LayoutPositions, OffVectors, OffIds, OffIndex, OffTombstones, TotalCells
<1>5. PICK v \in Nat \ {0} : v = OffVectors(f[0])
  BY <1>1, LayoutIs
<1>6. PICK i \in Nat \ {0} : i = OffIds(f[0])
  BY <1>1, LayoutIs
<1>7. PICK x \in Nat \ {0} : x = OffIndex(f[0])
  BY <1>1, LayoutIs
<1>8. PICK t \in Nat \ {0} : t = OffTombstones(f[0])
  BY <1>1, LayoutIs
<1>9. DOMAIN rows = D /\ \A o \in D : o \notin v + n .. v + n + m - 1 => rows[o] = f[o]
  <2>1. DOMAIN plan.rows = 1 .. m
    BY DEF IsPlan
  <2>2. PICK offset \in Nat : offset = v + n
    BY <1>2
  <2>3. rows = Put(f, offset, plan.rows)
    BY <1>2, <1>4, <1>5, <2>2
  <2> HIDE DEF rows, m
  <2>4. DOMAIN rows = D /\ \A o \in D : o \notin offset .. offset + m - 1 => rows[o] = f[o]
    <3>1. DOMAIN f \subseteq Int /\ m \in Nat
      BY <1>1, <1>2
    <3>2. PICK new : new = plan.rows
      OBVIOUS
    <3>3. /\ DOMAIN Put(f, offset, new) = DOMAIN f
          /\ \A o \in DOMAIN f : o \notin offset .. offset + m - 1 => Put(f, offset, new)[o] = f[o]
      BY <2>1, <3>1, <3>2, PutIs
    <3>4. rows = Put(f, offset, new)
      BY <2>3, <3>2
    <3> QED
      BY <3>3, <3>4
  <2> QED
    BY <2>2, <2>4
<1>10. DOMAIN ids = D /\ \A o \in D : o \notin i + n .. i + n + m - 1 => ids[o] = rows[o]
  <2>1. DOMAIN plan.new = 1 .. m
    BY DEF IsPlan
  <2>2. PICK offset \in Nat : offset = i + n
    BY <1>2
  <2>3. ids = Put(rows, offset, plan.new)
    BY <1>2, <1>4, <1>6, <2>2
  <2>4. DOMAIN rows \subseteq Int
    BY <1>1, <1>9
  <2> HIDE DEF rows, ids, m
  <2>5. DOMAIN ids = D /\ \A o \in D : o \notin offset .. offset + m - 1 => ids[o] = rows[o]
    BY <1>2, <1>9, <2>1, <2>3, <2>4, PutIs
  <2> QED
    BY <2>2, <2>5
<1>11. /\ DOMAIN index = D
       /\ \A o \in D : ~(plan.indexed /\ o \in x .. x + (n + m) - 1) => index[o] = ids[o]
  <2>1. CASE plan.indexed
    <3>1. PICK cells : cells = MergedIndex(s, plan.new)
      OBVIOUS
    <3>2. DOMAIN cells = 1 .. n + m /\ n + m \in Nat
      BY <1>2, <3>1 DEF MergedIndex
    <3>3. index = Put(ids, x, cells)
      BY <1>4, <1>7, <2>1, <3>1
    <3>4. DOMAIN ids \subseteq Int
      BY <1>1, <1>10
    <3> HIDE DEF index, ids, n, m
    <3> QED
      BY <1>10, <2>1, <3>2, <3>3, <3>4, PutIs
  <2>2. CASE ~plan.indexed
    <3> HIDE DEF ids
    <3> QED
      BY <1>10, <2>2
  <2> QED
    BY <2>1, <2>2
<1>12. /\ DOMAIN dead = D
       /\ \A o \in D : ~(plan.tombstones > 0 /\ o \in t .. t + n - 1) => dead[o] = index[o]
  <2>1. CASE plan.tombstones > 0
    <3>1. PICK cells : cells = TombstoneCells(plan, s.count)
      OBVIOUS
    <3>2. DOMAIN cells = 1 .. n
      BY <1>2, <3>1 DEF TombstoneCells
    <3>3. dead = Put(index, t, cells)
      BY <1>4, <1>8, <2>1, <3>1
    <3>4. DOMAIN index \subseteq Int
      BY <1>1, <1>11
    <3> HIDE DEF dead, index, n
    <3> QED
      BY <1>2, <1>11, <2>1, <3>2, <3>3, <3>4, PutIs
  <2>2. CASE ~(plan.tombstones > 0)
    <3> HIDE DEF index
    <3> QED
      BY <1>11, <2>2
  <2> QED
    BY <2>1, <2>2
<1>13. written = [dead EXCEPT ![0] = h]
  BY DEF InPlace, h
<1> HIDE DEF dead, index, ids, rows
<1>14. DOMAIN written = D /\ written[0] = h /\ \A o \in D : o # 0 => written[o] = dead[o]
  BY <1>1, <1>12, <1>13
<1>15. ~plan.nothing => f[0] # h
  BY <1>3 DEF IsPlan
<1>16. ASSUME NEW o \in D, f[o] # written[o] PROVE \E r \in Candidates(f, plan) : o \in Span(r)
  <2>1. \/ o = 0
        \/ o \in v + n .. v + n + m - 1
        \/ o \in i + n .. i + n + m - 1
        \/ plan.indexed /\ o \in x .. x + (n + m) - 1
        \/ plan.tombstones > 0 /\ o \in t .. t + (n + m) - 1
    <3>1. o \in t .. t + n - 1 => o \in t .. t + (n + m) - 1
      BY <1>2
    <3> QED
      BY <1>9, <1>10, <1>11, <1>12, <1>14, <1>16, <3>1
  <2>2. \A a, c : Span(CellRange(a, c)) = a .. a + c - 1
    BY DEF Span, CellRange
  <2>3. /\ CellRange(0, 1) \in Candidates(f, plan)
        /\ CellRange(v + n, m) \in Candidates(f, plan)
        /\ CellRange(i + n, m) \in Candidates(f, plan)
        /\ plan.indexed => CellRange(x, n + m) \in Candidates(f, plan)
        /\ plan.tombstones > 0 => CellRange(t, n + m) \in Candidates(f, plan)
    BY <1>2, <1>5, <1>6, <1>7, <1>8 DEF Candidates
  <2>4. CASE o = 0
    BY <2>2, <2>3, <2>4
  <2>5. CASE o \in v + n .. v + n + m - 1
    BY <2>2, <2>3, <2>5
  <2>6. CASE o \in i + n .. i + n + m - 1
    BY <2>2, <2>3, <2>6
  <2>7. CASE plan.indexed /\ o \in x .. x + (n + m) - 1
    BY <2>2, <2>3, <2>7
  <2>8. CASE plan.tombstones > 0 /\ o \in t .. t + (n + m) - 1
    BY <2>2, <2>3, <2>8
  <2> QED
    BY <2>1, <2>4, <2>5, <2>6, <2>7, <2>8
<1> QED
  BY <1>3, <1>4, <1>14, <1>15, <1>16

-----------------------------------------------------------------------------
\* A new file

\* The room for growth is a number.
LEMMA GrowthIs == ASSUME NEW n \in Nat, NEW percent \in Growths PROVE GrowthRows(n, percent) \in Nat
<1>1. percent \in Nat /\ MinGrowth \in Nat \ {0}
  BY LayoutAssumption
<1>2. PICK x \in Int : x = (n \div 100) * percent + ((n % 100) * percent) \div 100
  <2>1. n \div 100 \in Nat /\ n % 100 \in Nat
    OBVIOUS
  <2>2. (n \div 100) * percent \in Nat /\ (n % 100) * percent \in Nat
    BY <1>1, <2>1, BlockStarts
  <2>3. ((n % 100) * percent) \div 100 \in Int
    BY <2>2
  <2> QED
    BY <2>2, <2>3
<1>3. Max({MinGrowth, x}) \in {MinGrowth, x} /\ Max({MinGrowth, x}) >= MinGrowth
  BY <1>1, <1>2, MaxOfPair
<1>4. GrowthRows(n, percent) = IF percent = 0 THEN 0 ELSE Max({MinGrowth, x})
  BY <1>2 DEF GrowthRows
<1> QED
  BY <1>1, <1>2, <1>3, <1>4

\* A file with one header and no content yet.
LEMMA AllocatedIs == ASSUME NEW h, IsHeader(h) PROVE IsFile(Allocated(h)) /\ Allocated(h)[0] = h
<1>1. 0 \in 0 .. TotalCells(h) - 1
  BY LayoutIs
<1> QED
  BY <1>1 DEF Allocated, IsFile

\* Sections are written behind the header.
LEMMA PutKeepsFile ==
    ASSUME NEW f, IsFile(f), NEW offset \in Nat \ {0}, NEW cells, NEW n \in Nat, DOMAIN cells = 1 .. n
    PROVE  IsFile(Put(f, offset, cells)) /\ Put(f, offset, cells)[0] = f[0]
<1>1. PICK g : g = Put(f, offset, cells)
  OBVIOUS
<1>2. DOMAIN f = 0 .. TotalCells(f[0]) - 1 /\ 0 \in DOMAIN f /\ DOMAIN f \subseteq Int
  BY LayoutIs DEF IsFile
<1>3. DOMAIN g = DOMAIN f /\ \A o \in DOMAIN f : o \notin offset .. offset + n - 1 => g[o] = f[o]
  <2>1. DOMAIN f \subseteq Int /\ offset \in Nat
    BY <1>2
  <2> QED
    BY <1>1, <2>1, PutIs
<1>4. g[0] = f[0]
  <2>1. 0 \notin offset .. offset + n - 1
    OBVIOUS
  <2> QED
    BY <1>2, <1>3, <2>1
<1>5. g = [o \in DOMAIN f |-> g[o]]
  BY <1>1 DEF Put
<1> QED
  BY <1>1, <1>2, <1>4, <1>5 DEF IsFile

\* Two runs of cells, one behind the other.
LEMMA JoinedCells ==
    ASSUME NEW n \in Nat, NEW m \in Nat, NEW c, c = [k \in 1 .. n |-> c[k]], NEW d, d = [k \in 1 .. m |-> d[k]]
    PROVE  DOMAIN (c \o d) = 1 .. n + m
<1> DEFINE S == {c[k] : k \in 1 .. n} \cup {d[k] : k \in 1 .. m}
<1>1. c \in [1 .. n -> S] /\ d \in [1 .. m -> S]
  BY Zenon
<1> HIDE DEF S
<1>2. c \in Seq(S) /\ Len(c) = n /\ d \in Seq(S) /\ Len(d) = m
  BY <1>1
<1>3. c \o d \in Seq(S) /\ Len(c \o d) = n + m
  BY <1>2, ConcatProperties
<1> QED
  BY <1>3, LenProperties

\* The copying build makes a file, whatever layout it chooses.
LEMMA CopiedIs ==
    ASSUME NEW f, IsFile(f), NEW plan, IsPlan(f, plan), NEW percent \in Growths, NEW upperRoom,
           NEW g, g = Copied(f, plan, percent, upperRoom)
    PROVE  IsFile(g) /\ g[0].sum = Checksum(g)
<1> DEFINE s == Opened(f)
           n == f[0].count
           m == Len(plan.new)
           capacity == CopyCapacity(f, plan, percent, upperRoom)
           h == [count |-> plan.count, roomy |-> capacity > 0, capacity |-> capacity,
                 indexed |-> plan.indexed, tombstones |-> plan.tombstones, sum |-> {}]
           cellsOf(section) == [k \in 1 .. s.count |-> section[k - 1]]
           rows == Put(Allocated(h), OffVectors(h), cellsOf(s.vectors) \o plan.rows)
           ids == Put(rows, OffIds(h), cellsOf(s.ids) \o plan.new)
           index == IF plan.indexed THEN Put(ids, OffIndex(h), MergedIndex(s, plan.new)) ELSE ids
           dead == IF plan.tombstones > 0
                   THEN Put(index, OffTombstones(h), TombstoneCells(plan, s.count)) ELSE index
<1>1. IsHeader(f[0]) /\ n \in Nat /\ m \in Nat /\ plan.count = n + m /\ plan.tombstones \in Nat /\ s.count = n
  BY DEF IsFile, IsHeader, IsPlan, Opened
<1>2. capacity \in Nat
  <2>1. GrowthRows(plan.count, percent) \in Nat /\ plan.count \in Nat
    <3>1. PICK c \in Nat : c = plan.count
      BY <1>1
    <3>2. GrowthRows(c, percent) \in Nat
      BY GrowthIs
    <3> QED
      BY <3>1, <3>2
  <2>2. f[0].capacity \in Nat
    BY <1>1 DEF IsHeader
  <2> QED
    BY <2>1, <2>2 DEF CopyCapacity
<1>3. IsHeader(h)
  <2>1. plan.count \in Nat
    BY <1>1
  <2> HIDE DEF capacity
  <2> QED
    BY <1>1, <1>2, <2>1 DEF IsHeader
<1> HIDE DEF h
<1>4. /\ OffVectors(h) \in Nat \ {0} /\ OffIds(h) \in Nat \ {0} /\ OffIndex(h) \in Nat \ {0}
      /\ OffTombstones(h) \in Nat \ {0}
  BY <1>3, LayoutIs
<1>5. n + m \in Nat
  BY <1>1
<1>6. IsFile(rows)
  <2>1. PICK c : c = cellsOf(s.vectors)
    OBVIOUS
  <2>2. c = [k \in 1 .. n |-> c[k]] /\ plan.rows = [k \in 1 .. m |-> plan.rows[k]]
    BY <1>1, <2>1 DEF IsPlan
  <2>3. PICK cells : cells = c \o plan.rows
    OBVIOUS
  <2>4. DOMAIN cells = 1 .. n + m
    BY <1>1, <2>2, <2>3, JoinedCells
  <2>5. rows = Put(Allocated(h), OffVectors(h), cells)
    BY <2>1, <2>3
  <2> HIDE DEF rows, n, m
  <2> QED
    BY <1>3, <1>4, <1>5, <2>4, <2>5, AllocatedIs, PutKeepsFile
<1>7. IsFile(ids)
  <2>1. PICK c : c = cellsOf(s.ids)
    OBVIOUS
  <2>2. c = [k \in 1 .. n |-> c[k]] /\ plan.new = [k \in 1 .. m |-> plan.new[k]]
    BY <1>1, <2>1 DEF IsPlan
  <2>3. PICK cells : cells = c \o plan.new
    OBVIOUS
  <2>4. DOMAIN cells = 1 .. n + m
    BY <1>1, <2>2, <2>3, JoinedCells
  <2>5. ids = Put(rows, OffIds(h), cells)
    BY <2>1, <2>3
  <2> HIDE DEF ids, rows, n, m
  <2> QED
    BY <1>4, <1>5, <1>6, <2>4, <2>5, PutKeepsFile
<1>8. IsFile(index)
  <2>1. CASE plan.indexed
    <3>1. PICK cells : cells = MergedIndex(s, plan.new)
      OBVIOUS
    <3>2. DOMAIN cells = 1 .. n + m
      BY <1>1, <3>1 DEF MergedIndex
    <3>3. index = Put(ids, OffIndex(h), cells)
      BY <2>1, <3>1
    <3> HIDE DEF index, ids, n, m
    <3> QED
      BY <1>4, <1>5, <1>7, <3>2, <3>3, PutKeepsFile
  <2>2. CASE ~plan.indexed
    <3> HIDE DEF ids
    <3> QED
      BY <1>7, <2>2
  <2> QED
    BY <2>1, <2>2
<1>9. IsFile(dead)
  <2>1. CASE plan.tombstones > 0
    <3>1. PICK cells : cells = TombstoneCells(plan, s.count)
      OBVIOUS
    <3>2. DOMAIN cells = 1 .. n
      BY <1>1, <3>1 DEF TombstoneCells
    <3>3. dead = Put(index, OffTombstones(h), cells)
      BY <2>1, <3>1
    <3> HIDE DEF dead, index, n
    <3> QED
      BY <1>1, <1>4, <1>8, <3>2, <3>3, PutKeepsFile
  <2>2. CASE ~(plan.tombstones > 0)
    <3> HIDE DEF index
    <3> QED
      BY <1>8, <2>2
  <2> QED
    BY <2>1, <2>2
<1>10. g = Sealed(dead)
  BY DEF Copied, h
<1> HIDE DEF dead
<1> QED
  BY <1>9, <1>10, SealedIs

\* So does a full build.
LEMMA FullFileIs ==
    ASSUME NEW changes, NEW percent \in Growths, NEW g, g = FullFile(changes, percent)
    PROVE  IsFile(g) /\ g[0].sum = Checksum(g)
<1> DEFINE ids == Sorted(Given(changes))
           n == Len(ids)
           slack == GrowthRows(n, percent)
           capacity == IF slack > 0 THEN n + slack ELSE 0
           h == [count |-> n, roomy |-> slack > 0, capacity |-> capacity,
                 indexed |-> FALSE, tombstones |-> 0, sum |-> {}]
           rows == Put(Allocated(h), OffVectors(h), [k \in 1 .. n |-> changes[ids[k]]])
<1>1. Given(changes) \in SUBSET Ids
  BY DEF Given
<1>2. n \in Nat /\ DOMAIN ids = 1 .. n
  <2>1. PICK new : new = ids
    OBVIOUS
  <2>2. Len(new) \in Nat /\ new = [j \in 1 .. Len(new) |-> new[j]]
    BY <1>1, <2>1, SortedIds
  <2> QED
    BY <2>1, <2>2
<1> HIDE DEF ids, n
<1>3. capacity \in Nat
  BY <1>2, GrowthIs
<1>4. IsHeader(h)
  <2> HIDE DEF capacity
  <2> QED
    BY <1>2, <1>3 DEF IsHeader
<1> HIDE DEF h
<1>5. OffVectors(h) \in Nat \ {0} /\ OffIds(h) \in Nat \ {0}
  BY <1>4, LayoutIs
<1>6. IsFile(rows)
  <2>1. PICK cells : cells = [k \in 1 .. n |-> changes[ids[k]]]
    OBVIOUS
  <2>2. DOMAIN cells = 1 .. n /\ rows = Put(Allocated(h), OffVectors(h), cells)
    BY <2>1
  <2> HIDE DEF rows
  <2> QED
    BY <1>2, <1>4, <1>5, <2>2, AllocatedIs, PutKeepsFile
<1> HIDE DEF rows
<1>7. IsFile(Put(rows, OffIds(h), ids))
  BY <1>2, <1>5, <1>6, PutKeepsFile
<1>8. g = Sealed(Put(rows, OffIds(h), ids))
  BY DEF FullFile, rows, h, ids, n
<1> QED
  BY <1>7, <1>8, SealedIs

-----------------------------------------------------------------------------
\* The invariant

Inv ==
    /\ IsFile(file)
    /\ NodesAssembleIt
    /\ RunsAreSound

\* The first file has the invariant.
LEMMA InitInv == Init => Inv
<1> SUFFICES ASSUME NEW changes \in Batches, NEW percent \in Growths,
                    file = FullFile(changes, percent), copy = Assembled(file), runs = <<>>
             PROVE  Inv
  BY DEF Init
<1>1. IsFile(file) /\ file[0].sum = Checksum(file)
  BY FullFileIs
<1>2. copy = file
  BY <1>1, AssembledIsFile DEF IsFile
<1> QED
  BY <1>1, <1>2 DEF Inv, NodesAssembleIt, RunsAreSound

\* A build in place keeps it, whichever of its two loads follows.
LEMMA InPlaceKeepsInv ==
    ASSUME Inv, NEW plan, IsPlan(file, plan), file[0].roomy, ~plan.nothing, BuildInPlace(plan)
    PROVE  Inv'
<1>1. PICK base : base = file
  OBVIOUS
<1>2. PICK written : written = InPlace(base, plan)
  OBVIOUS
<1>3. PICK candidates : candidates = Candidates(base, plan)
  OBVIOUS
<1>4. PICK found : found = Diff(base, written, candidates)
  OBVIOUS
<1>5. PICK sealed : sealed = SealedInPlace(base, written, found)
  OBVIOUS
<1>6. /\ file' = sealed
      /\ \/ copy' = Patched(copy, sealed, found) /\ runs' = found
         \/ copy' = Assembled(sealed) /\ runs' = <<>>
  BY <1>1, <1>2, <1>3, <1>4, <1>5 DEF BuildInPlace
<1>7. IsFile(base) /\ base[0].sum = Checksum(base) /\ copy = base /\ IsPlan(base, plan) /\ base[0].roomy
  BY <1>1 DEF Inv, NodesAssembleIt
<1>8. PICK size \in Nat : size # 0 /\ DOMAIN base = 0 .. size - 1
  BY <1>7, LayoutIs DEF IsFile
<1>9. /\ DOMAIN written = DOMAIN base /\ IsHeader(written[0]) /\ TotalCells(written[0]) = TotalCells(base[0])
      /\ base[0] # written[0]
      /\ \A o \in DOMAIN base : base[o] # written[o] => \E r \in candidates : o \in Span(r)
  BY <1>2, <1>3, <1>7, InPlaceIs
<1>10. 0 \in DOMAIN base
  BY <1>8
<1>11. RunsServe(base, written, found)
  BY <1>4, <1>8, <1>9, <1>10, DiffServes
<1>12. sealed[0].sum = Checksum(sealed)
  BY <1>5, <1>7, <1>9, <1>10, <1>11, SealIsChecksum
<1>13. IsFile(sealed)
  <2>1. PICK x : x = Xor(base[0].sum, Xor(Words(base, Covered(found)), Words(written, Covered(found))))
    OBVIOUS
  <2>2. sealed = WithSum(written, x)
    BY <1>5, <2>1 DEF SealedInPlace, WithSum
  <2>3. 0 \in DOMAIN written /\ IsHeader(written[0])
    BY <1>9, <1>10
  <2>4. DOMAIN sealed = DOMAIN written /\ IsHeader(sealed[0]) /\ TotalCells(sealed[0]) = TotalCells(written[0])
    BY <2>2, <2>3, SumIsNotSummed
  <2>5. sealed = [o \in DOMAIN written |-> sealed[o]]
    BY <2>2 DEF WithSum
  <2>6. DOMAIN base = 0 .. TotalCells(base[0]) - 1
    BY <1>7 DEF IsFile
  <2> QED
    BY <1>9, <2>4, <2>5, <2>6 DEF IsFile
<1>14. copy' = sealed
  <2>1. Patched(base, sealed, found) = sealed
    BY <1>5, <1>9, <1>10, <1>11, PatchedIsSealed
  <2>2. Assembled(sealed) = sealed
    BY <1>13, AssembledIsFile DEF IsFile
  <2> QED
    BY <1>6, <1>7, <2>1, <2>2
<1>15. RunsAreSound'
  <2>1. CASE runs' = <<>>
    BY <2>1 DEF RunsAreSound
  <2>2. CASE runs' = found
    BY <1>9, <1>11, <2>2 DEF RunsAreSound, RunsServe
  <2> QED
    BY <1>6, <2>1, <2>2
<1>16. NodesAssembleIt'
  BY <1>6, <1>12, <1>14 DEF NodesAssembleIt
<1> QED
  BY <1>6, <1>13, <1>15, <1>16 DEF Inv

\* So does a copying build.
LEMMA CopyKeepsInv ==
    ASSUME Inv, NEW plan, IsPlan(file, plan), NEW upperRoom, BuildCopy(plan, upperRoom)
    PROVE  Inv'
<1>1. PICK percent \in Growths :
         file' = Copied(file, plan, percent, upperRoom) /\ copy' = Assembled(file') /\ runs' = <<>>
  BY DEF BuildCopy
<1>2. PICK g : g = Copied(file, plan, percent, upperRoom)
  OBVIOUS
<1>3. IsFile(g) /\ g[0].sum = Checksum(g)
  BY <1>2, CopiedIs DEF Inv
<1>4. Assembled(g) = g
  BY <1>3, AssembledIsFile DEF IsFile
<1> QED
  BY <1>1, <1>2, <1>3, <1>4 DEF Inv, NodesAssembleIt, RunsAreSound

\* So does every step.
LEMMA StepKeepsInv == Inv /\ [Refresh]_vars => Inv'
<1> SUFFICES ASSUME Inv, [Refresh]_vars PROVE Inv'
  OBVIOUS
<1>1. CASE UNCHANGED <<file, copy, runs>>
  BY <1>1 DEF Inv, NodesAssembleIt, RunsAreSound
<1>2. CASE Refresh
  <2>0. PICK changes \in Batches :
           LET plan == Planned(file, changes)
           IN  IF plan.nothing THEN UNCHANGED <<file, copy, runs>>
               ELSE \E upperRoom \in {TRUE, ~UpperFull} :
                       IF LayoutFits(file, plan, upperRoom) THEN BuildInPlace(plan)
                       ELSE BuildCopy(plan, upperRoom)
    BY <1>2 DEF Refresh
  <2> DEFINE plan == Planned(file, changes)
  <2>1. IF plan.nothing THEN UNCHANGED <<file, copy, runs>>
           ELSE \E upperRoom \in {TRUE, ~UpperFull} :
                   IF LayoutFits(file, plan, upperRoom) THEN BuildInPlace(plan)
                   ELSE BuildCopy(plan, upperRoom)
    BY <2>0
  <2>2. IsPlan(file, plan)
    BY PlannedIsPlan DEF Inv, IsFile
  <2> HIDE DEF plan
  <2>3. CASE plan.nothing
    BY <1>1, <2>1, <2>3
  <2>4. CASE ~plan.nothing
    <3>1. PICK upperRoom \in {TRUE, ~UpperFull} :
             IF LayoutFits(file, plan, upperRoom) THEN BuildInPlace(plan) ELSE BuildCopy(plan, upperRoom)
      BY <2>1, <2>4
    <3>2. CASE LayoutFits(file, plan, upperRoom)
      BY <2>2, <2>4, <3>1, <3>2, InPlaceKeepsInv DEF LayoutFits
    <3>3. CASE ~LayoutFits(file, plan, upperRoom)
      BY <2>2, <3>1, <3>3, CopyKeepsInv
    <3> QED
      BY <3>2, <3>3
  <2> QED
    BY <2>3, <2>4
<1> QED
  BY <1>1, <1>2 DEF vars

\* The invariant, for all ids, vectors, block and chunk sizes.
THEOREM IncrementalInvariant == Spec => []Inv
<1>1. Init => Inv
  BY InitInv
<1>2. Inv /\ [Refresh]_vars => Inv'
  BY StepKeepsInv
<1> HIDE DEF Inv
<1> QED
  BY <1>1, <1>2, PTL DEF Spec

\* However long the chain of builds, a node that gets whole chunks or only the runs of a patch ends with the
\* build node's file, and the sum put together from the runs is the sum of that file (delta.cpp, vload.cpp).
THEOREM NodesAssemble == Spec => []NodesAssembleIt
<1>1. Inv => NodesAssembleIt
  BY DEF Inv
<1> QED
  BY <1>1, IncrementalInvariant, PTL

\* The runs of every patch are pieces that write_at takes, and no cell is in two of them (snapshot_diff).
THEOREM PatchRunsAreSound == Spec => []RunsAreSound
<1>1. Inv => RunsAreSound
  BY DEF Inv
<1> QED
  BY <1>1, IncrementalInvariant, PTL

------------------------------------------------------------------------------
(* The search in the id order *)

\* The places of the id order before which the ids are below id, and from which they are not.
Splits(s, id, at) ==
    /\ at \in 0 .. s.count
    /\ \A i \in 0 .. s.count - 1 : KeyAt(s, i) < id <=> i < at

\* Where a search for the split of the places lo .. hi - 1 ends.
Clamped(at, lo, hi) == IF lo >= hi THEN lo ELSE IF at < lo THEN lo ELSE IF at > hi THEN hi ELSE at

\* A sequence of places in ascending order has a split for every id.
LEMMA SplitFound ==
    ASSUME NEW s, s.count \in Nat, NEW id \in Nat, \A i \in 0 .. s.count - 1 : KeyAt(s, i) \in Nat,
           \A i, j \in 0 .. s.count - 1 : i < j => KeyAt(s, i) <= KeyAt(s, j)
    PROVE  \E at : Splits(s, id, at)
<1> DEFINE n == s.count
           T == {i \in 0 .. n : i = n \/ ~(KeyAt(s, i) < id)}
<1>1. T \in SUBSET Nat /\ n \in T
  OBVIOUS
<1> HIDE DEF T
<1>2. PICK at \in T : \A i \in T : at <= i
  BY <1>1, LeastNat
<1> USE DEF T
<1>3. at \in 0 .. n
  OBVIOUS
<1>4. ASSUME NEW i \in 0 .. n - 1, i < at PROVE KeyAt(s, i) < id
  <2>1. i \notin T
    BY <1>2, <1>3, <1>4
  <2> QED
    BY <2>1
<1>5. ASSUME NEW i \in 0 .. n - 1, ~(i < at) PROVE ~(KeyAt(s, i) < id)
  <2>1. at \in 0 .. n - 1 /\ at <= i /\ ~(KeyAt(s, at) < id)
    BY <1>3, <1>5
  <2>2. KeyAt(s, at) <= KeyAt(s, i)
    BY <2>1
  <2> QED
    BY <2>1, <2>2
<1> QED
  BY <1>3, <1>4, <1>5 DEF Splits

\* The binary search finds the split.
LEMMA LowerBoundIs ==
    ASSUME NEW s, s.count \in Nat, NEW id, NEW at, Splits(s, id, at), NEW from \in 0 .. s.count, NEW to \in 0 .. s.count
    PROVE  LowerBound(s, id, from, to) = Clamped(at, from, to)
<1> DEFINE n == s.count
           N == 0 .. n
           mid(lo, hi) == lo + (hi - lo) \div 2
           body(f, lo, hi) == IF lo >= hi THEN lo
                              ELSE IF KeyAt(s, mid(lo, hi)) < id THEN f[<<mid(lo, hi) + 1, hi>>]
                              ELSE f[<<lo, mid(lo, hi)>>]
           IsBound(f) == f = [r \in N \X N |-> body(f, r[1], r[2])]
           G == [r \in N \X N |-> Clamped(at, r[1], r[2])]
<1>1. at \in N /\ \A i \in 0 .. n - 1 : KeyAt(s, i) < id <=> i < at
  BY DEF Splits
<1>2. ASSUME NEW lo \in N, NEW hi \in N, lo < hi
      PROVE  /\ mid(lo, hi) \in 0 .. n - 1 /\ lo <= mid(lo, hi) /\ mid(lo, hi) < hi /\ mid(lo, hi) + 1 \in N
             /\ KeyAt(s, mid(lo, hi)) < id => Clamped(at, lo, hi) = Clamped(at, mid(lo, hi) + 1, hi)
             /\ ~(KeyAt(s, mid(lo, hi)) < id) => Clamped(at, lo, hi) = Clamped(at, lo, mid(lo, hi))
  <2>1. PICK m \in Int : m = mid(lo, hi) /\ lo <= m /\ m < hi
    BY <1>2
  <2>2. m \in 0 .. n - 1 /\ m + 1 \in N
    BY <1>2, <2>1
  <2>3. KeyAt(s, m) < id <=> m < at
    BY <1>1, <2>2
  <2>4. /\ m < at => Clamped(at, lo, hi) = Clamped(at, m + 1, hi)
        /\ ~(m < at) => Clamped(at, lo, hi) = Clamped(at, lo, m)
    BY <1>1, <1>2, <2>1, <2>2 DEF Clamped
  <2> HIDE DEF mid
  <2> QED
    BY <2>1, <2>2, <2>3, <2>4
<1> HIDE DEF mid
<1>3. IsBound(G)
  <2>1. ASSUME NEW lo \in N, NEW hi \in N PROVE Clamped(at, lo, hi) = body(G, lo, hi)
    <3>1. CASE lo >= hi
      BY <3>1 DEF Clamped
    <3>2. CASE ~(lo >= hi)
      <4>1. PICK m : m = mid(lo, hi)
        OBVIOUS
      <4>2. /\ m \in N /\ m + 1 \in N
            /\ KeyAt(s, m) < id => Clamped(at, lo, hi) = Clamped(at, m + 1, hi)
            /\ ~(KeyAt(s, m) < id) => Clamped(at, lo, hi) = Clamped(at, lo, m)
        BY <1>2, <3>2, <4>1
      <4>3. G[<<m + 1, hi>>] = Clamped(at, m + 1, hi) /\ G[<<lo, m>>] = Clamped(at, lo, m)
        BY <4>2
      <4> HIDE DEF G
      <4> QED
        BY <3>2, <4>1, <4>2, <4>3
    <3> QED
      BY <3>1, <3>2
  <2>2. \A r \in N \X N : Clamped(at, r[1], r[2]) = body(G, r[1], r[2])
    BY <2>1
  <2> QED
    BY <2>2
<1>4. LowerBound(s, id, from, to) = (CHOOSE f : IsBound(f))[<<from, to>>]
  BY DEF LowerBound, mid
<1>5. PICK f : f = (CHOOSE g : IsBound(g)) /\ IsBound(f)
  <2> HIDE DEF IsBound, G
  <2> QED
    BY <1>3
<1>6. \A lo, hi \in N : f[<<lo, hi>>] = body(f, lo, hi)
  BY <1>5
<1> DEFINE T == {d \in Nat : \E lo, hi \in N : d = hi - lo /\ f[<<lo, hi>>] # Clamped(at, lo, hi)}
<1>7. T = {}
  <2> SUFFICES ASSUME T # {} PROVE FALSE
    OBVIOUS
  <2>1. PICK d \in T : \A e \in T : d <= e
    <3>1. T \in SUBSET Nat
      OBVIOUS
    <3> HIDE DEF T
    <3> QED
      BY <3>1, LeastNat
  <2>2. PICK lo \in N, hi \in N : d = hi - lo /\ f[<<lo, hi>>] # Clamped(at, lo, hi)
    OBVIOUS
  <2>3. lo < hi
    <3>1. lo >= hi => f[<<lo, hi>>] = lo
      BY <1>6
    <3> QED
      BY <2>2, <3>1 DEF Clamped
  <2>4. PICK m \in Int : m = mid(lo, hi)
    BY DEF mid
  <2>5. /\ m \in 0 .. n - 1 /\ lo <= m /\ m < hi /\ m + 1 \in N
        /\ KeyAt(s, m) < id => Clamped(at, lo, hi) = Clamped(at, m + 1, hi)
        /\ ~(KeyAt(s, m) < id) => Clamped(at, lo, hi) = Clamped(at, lo, m)
    BY <1>2, <2>3, <2>4
  <2>6. f[<<lo, hi>>] = IF KeyAt(s, m) < id THEN f[<<m + 1, hi>>] ELSE f[<<lo, m>>]
    BY <1>6, <2>3, <2>4
  <2>7. ASSUME NEW a \in N, NEW b \in N, a <= b, b - a < d PROVE f[<<a, b>>] = Clamped(at, a, b)
    <3>1. PICK e \in Int : e = b - a
      OBVIOUS
    <3>2. e \in Nat /\ ~(d <= e)
      BY <2>2, <2>7, <3>1
    <3>3. e \notin T
      <4> HIDE DEF T
      <4> QED
        BY <2>1, <3>2
    <3> QED
      BY <3>1, <3>2, <3>3
  <2> HIDE DEF T
  <2>8. CASE KeyAt(s, m) < id
    BY <2>2, <2>3, <2>5, <2>6, <2>7, <2>8
  <2>9. CASE ~(KeyAt(s, m) < id)
    BY <2>2, <2>3, <2>5, <2>6, <2>7, <2>9
  <2> QED
    BY <2>8, <2>9
<1>8. f[<<from, to>>] = Clamped(at, from, to)
  <2>1. CASE from >= to
    BY <1>6, <2>1 DEF Clamped
  <2>2. CASE ~(from >= to)
    <3>1. PICK e \in Nat : e = to - from
      BY <2>2
    <3>2. e \notin T
      BY <1>7
    <3> QED
      BY <3>1, <3>2
  <2> QED
    BY <2>1, <2>2
<1> QED
  BY <1>4, <1>5, <1>8

\* The positions of a snapshot, which are also the places of its id order.
Places(s) == 0 .. s.count - 1

\* An open snapshot, and its id order: every position has a place in it, and behind the first place of an id
\* there are lower positions only, all of them dead.
IsSnapshot(s) ==
    /\ s.count \in Nat \ {0}
    /\ s.vectors \in [Places(s) -> Vectors] /\ s.ids \in [Places(s) -> Ids]
    /\ s.index \in [Places(s) -> Places(s)] /\ s.dead \in [Places(s) -> BOOLEAN]
Follows(s, i, j) ==
    \/ KeyAt(s, i) < KeyAt(s, j)
    \/ KeyAt(s, i) = KeyAt(s, j) /\ s.index[i] > s.index[j] /\ s.dead[s.index[j]]
InOrder(s) ==
    /\ \A p \in Places(s) : \E i \in Places(s) : s.index[i] = p
    /\ \A i, j \in Places(s) : i < j => Follows(s, i, j)

\* A place of the id order leads to a position, and its key is that position's id.
LEMMA KeysAre ==
    ASSUME NEW s, IsSnapshot(s), NEW i \in Places(s)
    PROVE  s.index[i] \in Places(s) /\ KeyAt(s, i) = s.ids[s.index[i]] /\ KeyAt(s, i) \in Nat
<1>1. s.index[i] \in Places(s)
  BY DEF IsSnapshot
<1>2. s.ids[s.index[i]] \in Ids
  BY <1>1 DEF IsSnapshot
<1> QED
  BY <1>1, <1>2, LayoutAssumption DEF KeyAt

\* find() returns the one live position of an id, if there is one.
LEMMA FindIs ==
    ASSUME NEW s, IsSnapshot(s), InOrder(s), NEW id \in Nat
    PROVE  /\ Find(s, id) \in Places(s) \cup {-1}
           /\ Find(s, id) # -1 => s.ids[Find(s, id)] = id /\ ~s.dead[Find(s, id)]
           /\ \A p \in Places(s) : s.ids[p] = id /\ ~s.dead[p] => Find(s, id) = p
<1> DEFINE n == s.count
           live(i) == s.ids[s.index[i]] = id /\ ~s.dead[s.index[i]]
<1>1. n \in Nat \ {0} /\ Places(s) = 0 .. n - 1
  BY DEF IsSnapshot, Places
<1>2. \A i \in 0 .. n - 1 : KeyAt(s, i) \in Nat /\ KeyAt(s, i) = s.ids[s.index[i]] /\ s.index[i] \in 0 .. n - 1
  BY <1>1, KeysAre
<1>3. \A i, j \in 0 .. n - 1 : i < j => KeyAt(s, i) <= KeyAt(s, j)
  <2> TAKE i, j \in 0 .. n - 1
  <2> HAVE i < j
  <2>1. KeyAt(s, i) < KeyAt(s, j) \/ KeyAt(s, i) = KeyAt(s, j)
    BY <1>1 DEF InOrder, Follows
  <2> QED
    BY <1>2, <2>1
<1>4. PICK at : Splits(s, id, at)
  BY <1>1, <1>2, <1>3, SplitFound
<1>5. at \in 0 .. n /\ \A i \in 0 .. n - 1 : KeyAt(s, i) < id <=> i < at
  BY <1>4 DEF Splits
<1>6. LowerBound(s, id, 0, n) = at
  <2>1. 0 \in 0 .. n /\ n \in 0 .. n
    BY <1>1
  <2>2. LowerBound(s, id, 0, n) = Clamped(at, 0, n)
    BY <1>1, <1>4, <2>1, LowerBoundIs
  <2> QED
    BY <1>1, <1>5, <2>2 DEF Clamped
<1>7. Find(s, id) = IF at < n /\ live(at) THEN s.index[at] ELSE -1
  BY <1>5, <1>6 DEF Find, LiveAt
<1>8. at < n => at \in 0 .. n - 1
  BY <1>1, <1>5
<1>9. ASSUME NEW p \in Places(s), s.ids[p] = id, ~s.dead[p] PROVE Find(s, id) = p
  <2>1. PICK i \in 0 .. n - 1 : s.index[i] = p
    BY <1>1 DEF InOrder
  <2>2. KeyAt(s, i) = id
    BY <1>2, <1>9, <2>1
  <2>3. at <= i
    <3>1. ~(KeyAt(s, i) < id)
      BY <1>2, <2>2
    <3>2. ~(i < at)
      BY <1>5, <3>1
    <3> QED
      BY <1>1, <1>5, <3>2
  <2>4. at \in 0 .. n - 1 /\ ~(KeyAt(s, at) < id)
    <3>1. at \in 0 .. n - 1
      BY <1>1, <1>5, <2>3
    <3> QED
      BY <1>5, <3>1
  <2>5. ~(at < i)
    <3> SUFFICES ASSUME at < i PROVE FALSE
      OBVIOUS
    <3>1. Follows(s, at, i)
      BY <1>1, <2>4 DEF InOrder
    <3>2. ~s.dead[s.index[i]]
      BY <1>9, <2>1
    <3>3. KeyAt(s, at) < KeyAt(s, i)
      BY <3>1, <3>2 DEF Follows
    <3> QED
      BY <2>2, <2>4, <3>3
  <2>6. at = i
    BY <2>3, <2>4, <2>5
  <2>7. live(at) /\ at < n
    <3>1. s.index[at] = p /\ at < n
      BY <1>1, <2>1, <2>4, <2>6
    <3> QED
      BY <1>9, <3>1
  <2> HIDE DEF live
  <2> QED
    BY <1>7, <2>1, <2>6, <2>7
<1>10. Find(s, id) \in Places(s) \cup {-1}
  BY <1>1, <1>2, <1>7, <1>8
<1>11. Find(s, id) # -1 => s.ids[Find(s, id)] = id /\ ~s.dead[Find(s, id)]
  BY <1>7
<1> QED
  BY <1>9, <1>10, <1>11

------------------------------------------------------------------------------
(* The order of the ids after a merge *)

\* An interval, by a name.
Between(a, b) == a .. b

\* How many numbers a part of an interval holds.
LEMMA PartOfInterval ==
    ASSUME NEW a \in Int, NEW b \in Int, a <= b + 1, NEW A \in SUBSET Between(a, b)
    PROVE  /\ IsFiniteSet(A) /\ Cardinality(A) \in 0 .. b - a + 1
           /\ \A c \in Int : a <= c + 1 /\ A \subseteq a .. c => Cardinality(A) <= c - a + 1
           /\ \A c \in Int : a <= c + 1 /\ a .. c \subseteq A => c - a + 1 <= Cardinality(A)
<1>1. ASSUME NEW c \in Int, a <= c + 1 PROVE IsFiniteSet(a .. c) /\ Cardinality(a .. c) = c - a + 1
  <2>1. (a > c => c - a + 1 = 0)
    BY <1>1
  <2> QED
    BY <2>1, FS_Interval
<1>2. IsFiniteSet(A) /\ Cardinality(A) \in Nat
  BY <1>1, FS_Subset, FS_CardinalityType DEF Between
<1>3. ASSUME NEW c \in Int, a <= c + 1, A \subseteq a .. c PROVE Cardinality(A) <= c - a + 1
  <2>1. IsFiniteSet(a .. c) /\ Cardinality(a .. c) = c - a + 1
    BY <1>1, <1>3
  <2>2. Cardinality(A) <= Cardinality(a .. c)
    BY <1>3, <2>1, FS_Subset
  <2> QED
    BY <2>1, <2>2
<1>4. ASSUME NEW c \in Int, a <= c + 1, a .. c \subseteq A PROVE c - a + 1 <= Cardinality(A)
  <2>1. Cardinality(a .. c) = c - a + 1
    BY <1>1, <1>4
  <2>2. Cardinality(a .. c) <= Cardinality(A)
    BY <1>2, <1>4, FS_Subset
  <2> QED
    BY <2>1, <2>2
<1>5. Cardinality(A) <= b - a + 1
  BY <1>3 DEF Between
<1>6. Cardinality(A) \in 0 .. b - a + 1
  BY <1>2, <1>5
<1> QED
  BY <1>2, <1>3, <1>4, <1>6

\* The places of the base's entries and of the appended ids in the merged order.
Smaller(key, n, x) == {i \in 0 .. n - 1 : key[i] < x}
UpTo(new, m, x) == {j \in 1 .. m : new[j] <= x}
Placed(key, n, new, m) == [j \in 1 .. m |-> j + Cardinality(Smaller(key, n, new[j]))]
Moved(key, n, new, m) == [i \in 0 .. n - 1 |-> i + 1 + Cardinality(UpTo(new, m, key[i]))]

\* Keys in order, appended ids in order, and the places of both together.
Rises(key, n) ==
    /\ \A i \in 0 .. n - 1 : key[i] \in Nat
    /\ \A i, j \in 0 .. n - 1 : i < j => key[i] <= key[j]
Climbs(new, m) ==
    /\ \A j \in 1 .. m : new[j] \in Nat
    /\ \A i, j \in 1 .. m : i < j => new[i] < new[j]
Merges(key, n, new, m, placed, moved) ==
    /\ \A j \in 1 .. m : placed[j] \in 1 .. n + m
    /\ \A i \in 0 .. n - 1 : moved[i] \in 1 .. n + m
    /\ \A i, j \in 0 .. n - 1 : i < j => moved[i] < moved[j]
    /\ \A i, j \in 1 .. m : i < j => placed[i] < placed[j]
    /\ \A i \in 0 .. n - 1 : \A j \in 1 .. m : new[j] <= key[i] => placed[j] < moved[i]
    /\ \A i \in 0 .. n - 1 : \A j \in 1 .. m : ~(new[j] <= key[i]) => moved[i] < placed[j]
    /\ \A k \in 1 .. n + m : (\E j \in 1 .. m : placed[j] = k) \/ (\E i \in 0 .. n - 1 : moved[i] = k)

\* They are all the places, each taken once, in the order of the ids.
LEMMA PlacesMerge ==
    ASSUME NEW n \in Nat, NEW m \in Nat, NEW key, NEW new, Rises(key, n), Climbs(new, m)
    PROVE  Merges(key, n, new, m, Placed(key, n, new, m), Moved(key, n, new, m))
<1> DEFINE placed == Placed(key, n, new, m)
           moved == Moved(key, n, new, m)
<1>0. /\ \A i \in 0 .. n - 1 : key[i] \in Nat
      /\ \A j \in 1 .. m : new[j] \in Nat
      /\ \A i, j \in 0 .. n - 1 : i < j => key[i] <= key[j]
      /\ \A i, j \in 1 .. m : i < j => new[i] < new[j]
  BY DEF Rises, Climbs
<1> USE <1>0
<1> DEFINE below(j) == Cardinality(Smaller(key, n, new[j]))
           upTo(i) == Cardinality(UpTo(new, m, key[i]))
<1>1. ASSUME NEW j \in 1 .. m
      PROVE  /\ placed[j] = j + below(j) /\ below(j) \in 0 .. n
             /\ \A i \in 0 .. n - 1 : new[j] <= key[i] => below(j) <= i
             /\ \A i \in 0 .. n - 1 : ~(new[j] <= key[i]) => i + 1 <= below(j)
  <2>1. PICK A \in SUBSET (0 .. n - 1) : A = Smaller(key, n, new[j])
    BY DEF Smaller
  <2>2. /\ Cardinality(A) \in 0 .. n
        /\ \A c \in Int : 0 <= c + 1 /\ A \subseteq 0 .. c => Cardinality(A) <= c + 1
        /\ \A c \in Int : 0 <= c + 1 /\ 0 .. c \subseteq A => c + 1 <= Cardinality(A)
    <3>1. PICK last \in Int : last = n - 1
      OBVIOUS
    <3>2. A \in SUBSET Between(0, last) /\ 0 <= last + 1 /\ last - 0 + 1 = n
      BY <3>1 DEF Between
    <3>3. Cardinality(A) \in 0 .. last - 0 + 1
      BY <3>2, PartOfInterval
    <3>4. ASSUME NEW c \in Int, 0 <= c + 1, A \subseteq 0 .. c PROVE Cardinality(A) <= c + 1
      <4>1. Cardinality(A) <= c - 0 + 1
        BY <3>2, <3>4, PartOfInterval
      <4> QED
        BY <4>1
    <3>5. ASSUME NEW c \in Int, 0 <= c + 1, 0 .. c \subseteq A PROVE c + 1 <= Cardinality(A)
      <4>1. c - 0 + 1 <= Cardinality(A)
        BY <3>2, <3>5, PartOfInterval
      <4> QED
        BY <4>1
    <3> QED
      BY <3>2, <3>3, <3>4, <3>5
  <2>3. ASSUME NEW i \in 0 .. n - 1, new[j] <= key[i] PROVE Cardinality(A) <= i
    <3>1. A \subseteq 0 .. i - 1
      <4> SUFFICES ASSUME NEW x \in A, ~(x < i) PROVE FALSE
        OBVIOUS
      <4>1. x \in 0 .. n - 1 /\ key[x] < new[j]
        BY <2>1 DEF Smaller
      <4>2. key[i] <= key[x]
        BY <4>1
      <4>3. key[i] \in Nat /\ key[x] \in Nat /\ new[j] \in Nat
        BY <4>1
      <4> QED
        BY <2>3, <4>1, <4>2, <4>3
    <3>2. i - 1 \in Int /\ 0 <= i - 1 + 1 /\ i - 1 + 1 = i
      OBVIOUS
    <3> QED
      BY <2>2, <3>1, <3>2
  <2>4. ASSUME NEW i \in 0 .. n - 1, ~(new[j] <= key[i]) PROVE i + 1 <= Cardinality(A)
    <3>1. 0 .. i \subseteq A
      <4> SUFFICES ASSUME NEW x \in 0 .. i PROVE x \in A
        OBVIOUS
      <4>1. x \in 0 .. n - 1 /\ key[x] <= key[i]
        OBVIOUS
      <4>2. key[i] \in Nat /\ key[x] \in Nat /\ new[j] \in Nat
        BY <4>1
      <4>3. key[x] < new[j]
        BY <2>4, <4>1, <4>2
      <4> QED
        BY <2>1, <4>1, <4>3 DEF Smaller
    <3>2. i \in Int /\ 0 <= i + 1
      OBVIOUS
    <3> QED
      BY <2>2, <3>1, <3>2
  <2> QED
    BY <2>1, <2>2, <2>3, <2>4 DEF Placed
<1>2. ASSUME NEW i \in 0 .. n - 1
      PROVE  /\ moved[i] = i + 1 + upTo(i) /\ upTo(i) \in 0 .. m
             /\ \A j \in 1 .. m : new[j] <= key[i] => j <= upTo(i)
             /\ \A j \in 1 .. m : ~(new[j] <= key[i]) => upTo(i) <= j - 1
  <2>1. PICK A \in SUBSET (1 .. m) : A = UpTo(new, m, key[i])
    BY DEF UpTo
  <2>2. /\ Cardinality(A) \in 0 .. m
        /\ \A c \in Int : 1 <= c + 1 /\ A \subseteq 1 .. c => Cardinality(A) <= c
        /\ \A c \in Int : 1 <= c + 1 /\ 1 .. c \subseteq A => c <= Cardinality(A)
    <3>1. 1 <= m + 1 /\ m - 1 + 1 = m /\ A \in SUBSET Between(1, m)
      BY DEF Between
    <3>2. Cardinality(A) \in 0 .. m - 1 + 1
      BY <3>1, PartOfInterval
    <3>3. ASSUME NEW c \in Int, 1 <= c + 1, A \subseteq 1 .. c PROVE Cardinality(A) <= c
      <4>1. PICK one \in Int : one = 1
        OBVIOUS
      <4>2. A \in SUBSET Between(one, m) /\ one <= m + 1 /\ one <= c + 1 /\ A \subseteq one .. c
        BY <3>1, <3>3, <4>1
      <4>3. Cardinality(A) <= c - one + 1
        BY <4>2, PartOfInterval
      <4> QED
        BY <4>1, <4>3
    <3>4. ASSUME NEW c \in Int, 1 <= c + 1, 1 .. c \subseteq A PROVE c <= Cardinality(A)
      <4>1. PICK one \in Int : one = 1
        OBVIOUS
      <4>2. A \in SUBSET Between(one, m) /\ one <= m + 1 /\ one <= c + 1 /\ one .. c \subseteq A
        BY <3>1, <3>4, <4>1
      <4>3. c - one + 1 <= Cardinality(A)
        BY <4>2, PartOfInterval
      <4> QED
        BY <4>1, <4>3
    <3> QED
      BY <3>1, <3>2, <3>3, <3>4
  <2>3. ASSUME NEW j \in 1 .. m, new[j] <= key[i] PROVE j <= Cardinality(A)
    <3>1. 1 .. j \subseteq A
      <4> SUFFICES ASSUME NEW x \in 1 .. j PROVE x \in A
        OBVIOUS
      <4>1. x \in 1 .. m /\ (x < j => new[x] < new[j])
        OBVIOUS
      <4>2. key[i] \in Nat /\ new[x] \in Nat /\ new[j] \in Nat
        BY <4>1
      <4>3. new[x] <= key[i]
        BY <2>3, <4>1, <4>2
      <4> QED
        BY <2>1, <4>1, <4>3 DEF UpTo
    <3>2. j \in Int /\ 1 <= j + 1
      OBVIOUS
    <3> QED
      BY <2>2, <3>1, <3>2
  <2>4. ASSUME NEW j \in 1 .. m, ~(new[j] <= key[i]) PROVE Cardinality(A) <= j - 1
    <3>1. A \subseteq 1 .. j - 1
      <4> SUFFICES ASSUME NEW x \in A, ~(x < j) PROVE FALSE
        OBVIOUS
      <4>1. x \in 1 .. m /\ new[x] <= key[i]
        BY <2>1 DEF UpTo
      <4>2. j < x => new[j] < new[x]
        BY <4>1
      <4>3. key[i] \in Nat /\ new[x] \in Nat /\ new[j] \in Nat
        BY <4>1
      <4> QED
        BY <2>4, <4>1, <4>2, <4>3
    <3>2. j - 1 \in Int /\ 1 <= j - 1 + 1
      OBVIOUS
    <3> QED
      BY <2>2, <3>1, <3>2
  <2> QED
    BY <2>1, <2>2, <2>3, <2>4 DEF Moved
<1> HIDE DEF below, upTo, placed, moved
<1>3. \A j \in 1 .. m : placed[j] \in 1 .. n + m
  BY <1>1
<1>4. \A i \in 0 .. n - 1 : moved[i] \in 1 .. n + m
  BY <1>2
<1>5. ASSUME NEW i \in 0 .. n - 1, NEW j \in 1 .. m, new[j] <= key[i] PROVE placed[j] < moved[i]
  BY <1>1, <1>2, <1>5
<1>6. ASSUME NEW i \in 0 .. n - 1, NEW j \in 1 .. m, ~(new[j] <= key[i]) PROVE moved[i] < placed[j]
  BY <1>1, <1>2, <1>6
<1>7. ASSUME NEW i \in 0 .. n - 1, NEW j \in 0 .. n - 1, i < j PROVE moved[i] < moved[j]
  <2>1. PICK A \in SUBSET (1 .. m), B \in SUBSET (1 .. m) : A = UpTo(new, m, key[i]) /\ B = UpTo(new, m, key[j])
    BY DEF UpTo
  <2>2. A \subseteq B
    <3> SUFFICES ASSUME NEW x \in A PROVE x \in B
      OBVIOUS
    <3>1. x \in 1 .. m /\ new[x] <= key[i] /\ key[i] <= key[j]
      BY <1>7, <2>1 DEF UpTo
    <3>2. key[i] \in Nat /\ key[j] \in Nat /\ new[x] \in Nat
      BY <3>1
    <3>3. new[x] <= key[j]
      BY <3>1, <3>2
    <3> QED
      BY <2>1, <3>1, <3>3 DEF UpTo
  <2>3. IsFiniteSet(B)
    <3>1. 1 <= m + 1 /\ B \in SUBSET Between(1, m)
      BY DEF Between
    <3> QED
      BY <3>1, PartOfInterval
  <2>4. Cardinality(A) <= Cardinality(B)
    BY <2>2, <2>3, FS_Subset
  <2>5. upTo(i) <= upTo(j)
    BY <2>1, <2>4 DEF upTo
  <2> QED
    BY <1>2, <1>7, <2>5
<1>8. ASSUME NEW i \in 1 .. m, NEW j \in 1 .. m, i < j PROVE placed[i] < placed[j]
  <2>1. PICK A \in SUBSET (0 .. n - 1), B \in SUBSET (0 .. n - 1) :
           A = Smaller(key, n, new[i]) /\ B = Smaller(key, n, new[j])
    BY DEF Smaller
  <2>2. A \subseteq B
    <3> SUFFICES ASSUME NEW x \in A PROVE x \in B
      OBVIOUS
    <3>1. x \in 0 .. n - 1 /\ key[x] < new[i] /\ new[i] < new[j]
      BY <1>8, <2>1 DEF Smaller
    <3>2. key[x] \in Nat /\ new[i] \in Nat /\ new[j] \in Nat
      BY <3>1
    <3>3. key[x] < new[j]
      BY <3>1, <3>2
    <3> QED
      BY <2>1, <3>1, <3>3 DEF Smaller
  <2>3. IsFiniteSet(B)
    <3>1. PICK last \in Int : last = n - 1 /\ 0 <= last + 1
      OBVIOUS
    <3>2. B \in SUBSET Between(0, last)
      BY <3>1 DEF Between
    <3> QED
      BY <3>1, <3>2, PartOfInterval
  <2>4. Cardinality(A) <= Cardinality(B)
    BY <2>2, <2>3, FS_Subset
  <2>5. below(i) <= below(j)
    BY <2>1, <2>4 DEF below
  <2> QED
    BY <1>1, <1>8, <2>5
<1>9. ASSUME NEW k \in 1 .. n + m
      PROVE  (\E j \in 1 .. m : placed[j] = k) \/ (\E i \in 0 .. n - 1 : moved[i] = k)
  <2> DEFINE E == 1 .. n + m
             rank == [e \in E |-> IF e <= n THEN moved[e - 1] ELSE placed[e - n]]
  <2>1. ASSUME NEW e \in E
        PROVE  /\ rank[e] \in E
               /\ e <= n => e - 1 \in 0 .. n - 1 /\ rank[e] = moved[e - 1]
               /\ ~(e <= n) => e - n \in 1 .. m /\ rank[e] = placed[e - n]
    <3>1. CASE e <= n
      <4>1. e - 1 \in 0 .. n - 1
        BY <3>1
      <4> QED
        BY <1>4, <3>1, <4>1
    <3>2. CASE ~(e <= n)
      <4>1. e - n \in 1 .. m
        BY <3>2
      <4> QED
        BY <1>3, <3>2, <4>1
    <3> QED
      BY <3>1, <3>2
  <2>2. rank \in [E -> E]
    BY <2>1
  <2> HIDE DEF rank
  <2>3. ASSUME NEW d \in E, NEW e \in E, d < e PROVE rank[d] # rank[e]
    <3>1. CASE e <= n
      <4>1. PICK a \in 0 .. n - 1, b \in 0 .. n - 1 : a = d - 1 /\ b = e - 1 /\ a < b
        BY <2>3, <3>1
      <4> QED
        BY <1>4, <1>7, <2>1, <2>3, <3>1, <4>1
    <3>2. CASE ~(d <= n)
      <4>1. PICK a \in 1 .. m, b \in 1 .. m : a = d - n /\ b = e - n /\ a < b
        BY <2>3, <3>2
      <4> QED
        BY <1>3, <1>8, <2>1, <2>3, <3>2, <4>1
    <3>3. CASE d <= n /\ ~(e <= n)
      <4>1. PICK a \in 0 .. n - 1, b \in 1 .. m : a = d - 1 /\ b = e - n
        BY <3>3
      <4>2. rank[d] = moved[a] /\ rank[e] = placed[b]
        BY <2>1, <3>3, <4>1
      <4>3. moved[a] \in Int /\ placed[b] \in Int /\ (moved[a] < placed[b] \/ placed[b] < moved[a])
        BY <1>3, <1>4, <1>5, <1>6
      <4> QED
        BY <4>2, <4>3
    <3> QED
      BY <2>3, <3>1, <3>2, <3>3
  <2>4. \A d, e \in E : rank[d] = rank[e] => d = e
    <3> TAKE d, e \in E
    <3>1. d < e \/ e < d \/ d = e
      OBVIOUS
    <3> QED
      BY <2>3, <3>1
  <2>5. rank \in Injection(E, E)
    BY <2>2, <2>4 DEF Injection, IsInjective
  <2>6. IsFiniteSet(E)
    <3>1. n + m \in Int
      OBVIOUS
    <3> QED
      BY <3>1, FS_Interval
  <2>7. rank \in Surjection(E, E)
    BY <2>5, <2>6, FS_Injection
  <2>8. PICK e \in E : rank[e] = k
    BY <2>7 DEF Surjection
  <2> QED
    BY <2>1, <2>8
<1>10. Merges(key, n, new, m, placed, moved)
  BY <1>3, <1>4, <1>5, <1>6, <1>7, <1>8, <1>9 DEF Merges
<1> QED
  BY <1>10 DEF placed, moved

\* The appended ids, in ascending order.
Ascends(new, m) ==
    /\ new = [j \in 1 .. m |-> new[j]] /\ \A j \in 1 .. m : new[j] \in Nat
    /\ \A i, j \in 1 .. m : i < j => new[i] < new[j]

\* Where the entries of the base and the appended ids stand in the merged order.
MergedAt(s, new, m, merged, placed, moved) ==
    /\ DOMAIN merged = 1 .. s.count + m
    /\ \A j \in 1 .. m : placed[j] \in 1 .. s.count + m /\ merged[placed[j]] = s.count + j - 1
    /\ \A i \in Places(s) : moved[i] \in 1 .. s.count + m /\ merged[moved[i]] = s.index[i]
    /\ \A i, j \in Places(s) : i < j => moved[i] < moved[j]
    /\ \A i, j \in 1 .. m : i < j => placed[i] < placed[j]
    /\ \A i \in Places(s) : \A j \in 1 .. m : new[j] <= KeyAt(s, i) => placed[j] < moved[i]
    /\ \A i \in Places(s) : \A j \in 1 .. m : ~(new[j] <= KeyAt(s, i)) => moved[i] < placed[j]
    /\ \A k \in 1 .. s.count + m : \/ \E j \in 1 .. m : placed[j] = k
                                   \/ \E i \in Places(s) : moved[i] = k

\* The merged index is such an order.
LEMMA MergedIs ==
    ASSUME NEW s, IsSnapshot(s), InOrder(s), NEW m \in Nat, NEW new, Len(new) = m, Ascends(new, m),
           NEW merged, merged = MergedIndex(s, new)
    PROVE  \E placed, moved : MergedAt(s, new, m, merged, placed, moved)
<1>1. PICK n \in Nat : n = s.count /\ Places(s) = 0 .. n - 1
  BY DEF IsSnapshot, Places
<1>2. PICK key : key = [i \in 0 .. n - 1 |-> KeyAt(s, i)]
  OBVIOUS
<1>3. \A i \in 0 .. n - 1 : key[i] = KeyAt(s, i) /\ key[i] \in Nat
  BY <1>1, <1>2, KeysAre
<1>4. \A i, j \in 0 .. n - 1 : i < j => key[i] <= key[j]
  <2> TAKE i, j \in 0 .. n - 1
  <2> HAVE i < j
  <2>1. KeyAt(s, i) < KeyAt(s, j) \/ KeyAt(s, i) = KeyAt(s, j)
    BY <1>1 DEF InOrder, Follows
  <2> QED
    BY <1>3, <2>1
<1>5. PICK placed, moved : placed = Placed(key, n, new, m) /\ moved = Moved(key, n, new, m)
  OBVIOUS
<1>6. /\ \A j \in 1 .. m : placed[j] \in 1 .. n + m
      /\ \A i \in 0 .. n - 1 : moved[i] \in 1 .. n + m
      /\ \A i, j \in 0 .. n - 1 : i < j => moved[i] < moved[j]
      /\ \A i, j \in 1 .. m : i < j => placed[i] < placed[j]
      /\ \A i \in 0 .. n - 1 : \A j \in 1 .. m : new[j] <= key[i] => placed[j] < moved[i]
      /\ \A i \in 0 .. n - 1 : \A j \in 1 .. m : ~(new[j] <= key[i]) => moved[i] < placed[j]
      /\ \A k \in 1 .. n + m : (\E j \in 1 .. m : placed[j] = k) \/ (\E i \in 0 .. n - 1 : moved[i] = k)
  <2>1. Climbs(new, m)
    BY DEF Ascends, Climbs
  <2>2. Rises(key, n)
    BY <1>3, <1>4 DEF Rises
  <2>3. Merges(key, n, new, m, placed, moved)
    BY <1>5, <2>1, <2>2, PlacesMerge
  <2> QED
    BY <2>3 DEF Merges
<1>7. DOMAIN placed = 1 .. m /\ DOMAIN moved = 0 .. n - 1 /\ DOMAIN new = 1 .. m
  BY <1>5 DEF Placed, Moved, Ascends
<1>8. placed = [j \in 1 .. m |-> j + Cardinality({i \in 0 .. n - 1 : KeyAt(s, i) < new[j]})]
  <2>1. \A j \in 1 .. m : Smaller(key, n, new[j]) = {i \in 0 .. n - 1 : KeyAt(s, i) < new[j]}
    BY <1>3 DEF Smaller
  <2> QED
    BY <1>5, <2>1 DEF Placed
<1>9. moved = [i \in 0 .. n - 1 |-> i + 1 + Cardinality({j \in 1 .. m : new[j] <= KeyAt(s, i)})]
  BY <1>3, <1>5 DEF Moved, UpTo
<1>10. merged = [k \in 1 .. n + m |->
                   IF k \in Range(placed) THEN n + (CHOOSE j \in 1 .. m : placed[j] = k) - 1
                   ELSE s.index[CHOOSE i \in 0 .. n - 1 : moved[i] = k]]
  BY <1>1, <1>7, <1>8, <1>9 DEF MergedIndex
<1>11. ASSUME NEW j \in 1 .. m PROVE merged[placed[j]] = n + j - 1
  <2>1. PICK k \in 1 .. n + m : k = placed[j]
    BY <1>6
  <2>2. k \in Range(placed)
    BY <1>7, <2>1 DEF Range
  <2>3. (CHOOSE i \in 1 .. m : placed[i] = k) = j
    <3>1. ASSUME NEW i \in 1 .. m, placed[i] = k PROVE i = j
      <4>1. (i < j => placed[i] < placed[j]) /\ (j < i => placed[j] < placed[i])
        BY <1>6
      <4>2. ~(i < j) /\ ~(j < i)
        BY <2>1, <3>1, <4>1
      <4> QED
        BY <4>2
    <3> QED
      BY <2>1, <3>1
  <2> QED
    BY <1>10, <2>1, <2>2, <2>3
<1>12. ASSUME NEW i \in 0 .. n - 1 PROVE merged[moved[i]] = s.index[i]
  <2>1. PICK k \in 1 .. n + m : k = moved[i]
    BY <1>6
  <2>2. k \notin Range(placed)
    <3> SUFFICES ASSUME NEW j \in 1 .. m, placed[j] = k PROVE FALSE
      BY <1>7 DEF Range
    <3>1. placed[j] < moved[i] \/ moved[i] < placed[j]
      BY <1>6
    <3> QED
      BY <2>1, <3>1
  <2>3. (CHOOSE j \in 0 .. n - 1 : moved[j] = k) = i
    <3>1. ASSUME NEW j \in 0 .. n - 1, moved[j] = k PROVE i = j
      <4>1. (i < j => moved[i] < moved[j]) /\ (j < i => moved[j] < moved[i])
        BY <1>6
      <4>2. ~(i < j) /\ ~(j < i)
        BY <2>1, <3>1, <4>1
      <4> QED
        BY <4>2
    <3> QED
      BY <2>1, <3>1
  <2> QED
    BY <1>10, <2>1, <2>2, <2>3
<1>13. DOMAIN merged = 1 .. n + m
  BY <1>10
<1>14. MergedAt(s, new, m, merged, placed, moved)
  <2>1. \A j \in 1 .. m : placed[j] \in 1 .. s.count + m /\ merged[placed[j]] = s.count + j - 1
    BY <1>1, <1>6, <1>11
  <2>2. \A i \in Places(s) : moved[i] \in 1 .. s.count + m /\ merged[moved[i]] = s.index[i]
    BY <1>1, <1>6, <1>12
  <2>3. \A i, j \in Places(s) : i < j => moved[i] < moved[j]
    BY <1>1, <1>6
  <2>4. \A i \in Places(s) : \A j \in 1 .. m : /\ new[j] <= KeyAt(s, i) => placed[j] < moved[i]
                                               /\ ~(new[j] <= KeyAt(s, i)) => moved[i] < placed[j]
    BY <1>1, <1>3, <1>6
  <2>5. \A k \in 1 .. s.count + m : (\E j \in 1 .. m : placed[j] = k) \/ (\E i \in Places(s) : moved[i] = k)
    BY <1>1, <1>6
  <2> QED
    BY <1>1, <1>6, <1>13, <2>1, <2>2, <2>3, <2>4, <2>5 DEF MergedAt
<1> QED
  BY <1>14

\* The ids whose new vectors a build appends, and what a plan says of a snapshot.
Fresh(s, changes) == Given(changes) \ Unchanged(s, changes)
Plans(s, changes, plan) ==
    /\ Len(plan.new) \in Nat /\ Ascends(plan.new, Len(plan.new))
    /\ \A j \in 1 .. Len(plan.new) : plan.new[j] \in Fresh(s, changes) /\ plan.rows[j] = changes[plan.new[j]]
    /\ \A i \in Fresh(s, changes) : \E j \in 1 .. Len(plan.new) : plan.new[j] = i
    /\ plan.dead = Dead(s) \cup Killed(s, changes)
    /\ plan.indexed \/ \A p \in Places(s) : s.index[p] = p
    /\ plan.indexed \/ Len(plan.new) = 0 \/ KeyAt(s, s.count - 1) < plan.new[1]

\* The snapshot a build writes.
Grown(s, plan, t) ==
    /\ t.count = s.count + Len(plan.new)
    /\ t.vectors = [p \in Places(t) |-> IF p < s.count THEN s.vectors[p] ELSE plan.rows[p - s.count + 1]]
    /\ t.ids = [p \in Places(t) |-> IF p < s.count THEN s.ids[p] ELSE plan.new[p - s.count + 1]]
    /\ t.index = [p \in Places(t) |-> IF plan.indexed THEN MergedIndex(s, plan.new)[p + 1] ELSE p]
    /\ t.dead = [p \in Places(t) |-> p \in plan.dead]

\* What dies: the live positions of the ids that are deleted or get a new vector.
LEMMA KilledIs ==
    ASSUME NEW s, IsSnapshot(s), InOrder(s), NEW changes
    PROVE  /\ Killed(s, changes) \subseteq Places(s) /\ Dead(s) \subseteq Places(s)
           /\ \A p \in Killed(s, changes) : ~s.dead[p] /\ s.ids[p] \in Removed(changes) \cup Fresh(s, changes)
           /\ \A p \in Places(s) : s.ids[p] \in Removed(changes) \cup Fresh(s, changes) /\ ~s.dead[p]
                                      => p \in Killed(s, changes)
           /\ \A p \in Places(s) : p \in Dead(s) <=> s.dead[p]
<1> DEFINE A == Removed(changes) \cup Fresh(s, changes)
<1>1. A \subseteq Ids /\ Ids \subseteq Nat
  BY LayoutAssumption DEF Removed, Fresh, Given
<1>2. Killed(s, changes) = {Find(s, i) : i \in A} \ {-1}
  BY DEF Killed, Fresh
<1> HIDE DEF A
<1>3. ASSUME NEW p \in Killed(s, changes) PROVE p \in Places(s) /\ ~s.dead[p] /\ s.ids[p] \in A
  <2>1. PICK i \in A : p = Find(s, i) /\ p # -1
    BY <1>2
  <2>2. i \in Nat
    BY <1>1
  <2> QED
    BY <2>1, <2>2, FindIs
<1>4. ASSUME NEW p \in Places(s), s.ids[p] \in A, ~s.dead[p] PROVE p \in Killed(s, changes)
  <2>1. PICK i \in A : i = s.ids[p]
    BY <1>4
  <2>2. i \in Nat
    BY <1>1
  <2>3. Find(s, i) = p
    BY <1>4, <2>1, <2>2, FindIs
  <2>4. p # -1
    BY DEF Places, IsSnapshot
  <2> QED
    BY <1>2, <2>1, <2>3, <2>4
<1>5. DOMAIN s.dead = Places(s)
  BY DEF IsSnapshot
<1> QED
  BY <1>3, <1>4, <1>5 DEF A, Dead

\* Its positions are those of the base, with what the base has there, and the appended ones, all alive.
LEMMA GrownAt ==
    ASSUME NEW s, IsSnapshot(s), InOrder(s), NEW changes \in Batches, NEW plan, Plans(s, changes, plan),
           NEW t, Grown(s, plan, t)
    PROVE  /\ t.count \in Nat \ {0} /\ s.count \in Nat \ {0} /\ Len(plan.new) \in Nat
           /\ t.count = s.count + Len(plan.new)
           /\ \A p \in Places(s) : /\ p \in Places(t) /\ t.ids[p] = s.ids[p] /\ t.vectors[p] = s.vectors[p]
                                   /\ t.dead[p] = (p \in plan.dead) /\ (s.dead[p] => t.dead[p])
           /\ \A j \in 1 .. Len(plan.new) :
                 /\ s.count + j - 1 \in Places(t) /\ s.count + j - 1 \notin Places(s)
                 /\ t.ids[s.count + j - 1] = plan.new[j] /\ t.vectors[s.count + j - 1] = changes[plan.new[j]]
                 /\ ~t.dead[s.count + j - 1]
           /\ \A p \in Places(t) : p \in Places(s) \/ \E j \in 1 .. Len(plan.new) : p = s.count + j - 1
<1> DEFINE n == s.count
           m == Len(plan.new)
<1>1. n \in Nat \ {0} /\ m \in Nat /\ t.count = n + m /\ Places(s) = 0 .. n - 1 /\ Places(t) = 0 .. n + m - 1
  <2>1. n \in Nat \ {0} /\ m \in Nat /\ t.count = n + m
    BY DEF IsSnapshot, Plans, Grown
  <2>2. Places(s) = 0 .. n - 1 /\ Places(t) = 0 .. t.count - 1
    BY DEF Places
  <2> QED
    BY <2>1, <2>2
<1>2. plan.dead \subseteq Places(s) /\ \A p \in Places(s) : s.dead[p] => p \in plan.dead
  BY KilledIs DEF Plans
<1>3. ASSUME NEW p \in Places(s)
      PROVE  /\ p \in Places(t) /\ t.ids[p] = s.ids[p] /\ t.vectors[p] = s.vectors[p]
             /\ t.dead[p] = (p \in plan.dead) /\ (s.dead[p] => t.dead[p])
  <2>1. p \in Places(t) /\ p < n
    BY <1>1
  <2> QED
    BY <1>2, <2>1 DEF Grown
<1>4. ASSUME NEW j \in 1 .. m
      PROVE  /\ n + j - 1 \in Places(t) /\ n + j - 1 \notin Places(s)
             /\ t.ids[n + j - 1] = plan.new[j] /\ t.vectors[n + j - 1] = changes[plan.new[j]]
             /\ ~t.dead[n + j - 1]
  <2>1. PICK p \in Int : p = n + j - 1 /\ p \in Places(t) /\ p \notin Places(s) /\ ~(p < n) /\ p - n + 1 = j
    <3>1. n + j - 1 \in 0 .. n + m - 1 /\ ~(n + j - 1 < n) /\ n + j - 1 - n + 1 = j
      BY <1>1
    <3>2. n + j - 1 \notin 0 .. n - 1
      BY <1>1, <3>1
    <3> HIDE DEF n, m
    <3> QED
      BY <1>1, <3>1, <3>2
  <2>2. t.ids[p] = plan.new[j] /\ t.vectors[p] = plan.rows[j] /\ t.dead[p] = (p \in plan.dead)
    BY <2>1 DEF Grown
  <2>3. plan.rows[j] = changes[plan.new[j]]
    BY DEF Plans
  <2> QED
    BY <1>2, <2>1, <2>2, <2>3
<1>5. ASSUME NEW p \in Places(t), p \notin Places(s) PROVE \E j \in 1 .. m : p = n + j - 1
  <2>1. PICK j \in Int : j = p - n + 1
    BY <1>1
  <2>2. j \in 1 .. m /\ p = n + j - 1
    BY <1>1, <1>5, <2>1
  <2> QED
    BY <2>2
<1>6. t.count \in Nat \ {0}
  BY <1>1
<1> QED
  BY <1>1, <1>3, <1>4, <1>5, <1>6

------------------------------------------------------------------------------
(* What the next snapshot answers *)

\* Where the entries stand in the id order of the snapshot a build writes.
StandAt(s, new, m, t, placed, moved) ==
    /\ \A j \in 1 .. m : placed[j] \in Places(t) /\ t.index[placed[j]] = s.count + j - 1
    /\ \A i \in Places(s) : moved[i] \in Places(t) /\ t.index[moved[i]] = s.index[i]
    /\ \A i, j \in Places(s) : i < j => moved[i] < moved[j]
    /\ \A i, j \in 1 .. m : i < j => placed[i] < placed[j]
    /\ \A i \in Places(s) : \A j \in 1 .. m : new[j] <= KeyAt(s, i) => placed[j] < moved[i]
    /\ \A i \in Places(s) : \A j \in 1 .. m : ~(new[j] <= KeyAt(s, i)) => moved[i] < placed[j]
    /\ \A k \in Places(t) : (\E j \in 1 .. m : placed[j] = k) \/ (\E i \in Places(s) : moved[i] = k)

\* They stand so in a snapshot that is written with an index.
LEMMA GrownIndexed ==
    ASSUME NEW s, IsSnapshot(s), InOrder(s), NEW changes \in Batches, NEW plan, Plans(s, changes, plan),
           NEW t, Grown(s, plan, t), plan.indexed
    PROVE  \E placed, moved : StandAt(s, plan.new, Len(plan.new), t, placed, moved)
<1>1. PICK n \in Nat : n = s.count
  BY DEF IsSnapshot
<1>0. PICK new : new = plan.new
  OBVIOUS
<1>2. PICK m \in Nat : m = Len(new) /\ m = Len(plan.new) /\ Ascends(new, m)
  BY <1>0 DEF Plans
<1>3. PICK merged : merged = MergedIndex(s, new)
  OBVIOUS
<1>4. PICK placed, moved : MergedAt(s, new, m, merged, placed, moved)
  BY <1>2, <1>3, MergedIs
<1>5. /\ \A j \in 1 .. m : placed[j] \in 1 .. n + m /\ merged[placed[j]] = n + j - 1
      /\ \A i \in Places(s) : moved[i] \in 1 .. n + m /\ merged[moved[i]] = s.index[i]
      /\ \A i, j \in Places(s) : i < j => moved[i] < moved[j]
      /\ \A i, j \in 1 .. m : i < j => placed[i] < placed[j]
      /\ \A i \in Places(s) : \A j \in 1 .. m : new[j] <= KeyAt(s, i) => placed[j] < moved[i]
      /\ \A i \in Places(s) : \A j \in 1 .. m : ~(new[j] <= KeyAt(s, i)) => moved[i] < placed[j]
      /\ \A k \in 1 .. n + m : (\E j \in 1 .. m : placed[j] = k) \/ (\E i \in Places(s) : moved[i] = k)
  BY <1>1, <1>4 DEF MergedAt
<1>6. Places(t) = 0 .. n + m - 1 /\ \A p \in Places(t) : t.index[p] = merged[p + 1]
  <2>1. t.count = n + m /\ \A p \in Places(t) : t.index[p] = MergedIndex(s, new)[p + 1]
    BY <1>0, <1>1, <1>2 DEF Grown
  <2> QED
    BY <1>3, <2>1 DEF Places
<1>7. PICK at : at = [j \in 1 .. m |-> placed[j] - 1]
  OBVIOUS
<1>8. PICK to : to = [i \in Places(s) |-> moved[i] - 1]
  OBVIOUS
<1>9. ASSUME NEW j \in 1 .. m
      PROVE  at[j] \in Places(t) /\ t.index[at[j]] = n + j - 1 /\ at[j] + 1 = placed[j] /\ placed[j] \in Int
  <2>1. PICK k \in 1 .. n + m : k = placed[j]
    BY <1>5
  <2>2. at[j] = k - 1 /\ k - 1 \in 0 .. n + m - 1 /\ k - 1 + 1 = k
    BY <1>7, <2>1
  <2>3. t.index[k - 1] = merged[k]
    BY <1>6, <2>2
  <2> QED
    BY <1>5, <1>6, <2>1, <2>2, <2>3
<1>10. ASSUME NEW i \in Places(s)
       PROVE  to[i] \in Places(t) /\ t.index[to[i]] = s.index[i] /\ to[i] + 1 = moved[i] /\ moved[i] \in Int
  <2>1. PICK k \in 1 .. n + m : k = moved[i]
    BY <1>5
  <2>2. to[i] = k - 1 /\ k - 1 \in 0 .. n + m - 1 /\ k - 1 + 1 = k
    BY <1>8, <2>1
  <2>3. t.index[k - 1] = merged[k]
    BY <1>6, <2>2
  <2> QED
    BY <1>5, <1>6, <2>1, <2>2, <2>3
<1>11. ASSUME NEW k \in Places(t) PROVE (\E j \in 1 .. m : at[j] = k) \/ (\E i \in Places(s) : to[i] = k)
  <2>1. k + 1 \in 1 .. n + m /\ k \in Int
    BY <1>6
  <2>2. CASE \E j \in 1 .. m : placed[j] = k + 1
    <3>1. PICK j \in 1 .. m : placed[j] = k + 1
      BY <2>2
    <3>2. at[j] = k
      BY <1>7, <2>1, <3>1
    <3> QED
      BY <3>2
  <2>3. CASE \E i \in Places(s) : moved[i] = k + 1
    <3>1. PICK i \in Places(s) : moved[i] = k + 1
      BY <2>3
    <3>2. to[i] = k
      BY <1>8, <2>1, <3>1
    <3> QED
      BY <3>2
  <2> QED
    BY <1>5, <2>1, <2>2, <2>3
<1>12. \A i, j \in Places(s) : i < j => to[i] < to[j]
  BY <1>5, <1>8, <1>10
<1>13. \A i, j \in 1 .. m : i < j => at[i] < at[j]
  BY <1>5, <1>7, <1>9
<1>14. ASSUME NEW i \in Places(s), NEW j \in 1 .. m
       PROVE  (new[j] <= KeyAt(s, i) => at[j] < to[i]) /\ (~(new[j] <= KeyAt(s, i)) => to[i] < at[j])
  <2>1. (new[j] <= KeyAt(s, i) => placed[j] < moved[i]) /\ (~(new[j] <= KeyAt(s, i)) => moved[i] < placed[j])
    BY <1>5
  <2>2. at[j] = placed[j] - 1 /\ to[i] = moved[i] - 1 /\ placed[j] \in Int /\ moved[i] \in Int
    BY <1>7, <1>8, <1>9, <1>10
  <2> QED
    BY <2>1, <2>2
<1>15. StandAt(s, new, m, t, at, to)
  <2>1. \A j \in 1 .. m : at[j] \in Places(t) /\ t.index[at[j]] = s.count + j - 1
    BY <1>1, <1>9
  <2>2. \A i \in Places(s) : to[i] \in Places(t) /\ t.index[to[i]] = s.index[i]
    BY <1>10
  <2>3. \A k \in Places(t) : (\E j \in 1 .. m : at[j] = k) \/ (\E i \in Places(s) : to[i] = k)
    BY <1>11
  <2>4. \A i \in Places(s) : \A j \in 1 .. m : new[j] <= KeyAt(s, i) => at[j] < to[i]
    BY <1>14
  <2>5. \A i \in Places(s) : \A j \in 1 .. m : ~(new[j] <= KeyAt(s, i)) => to[i] < at[j]
    BY <1>14
  <2> QED
    BY <1>12, <1>13, <2>1, <2>2, <2>3, <2>4, <2>5 DEF StandAt
<1> QED
  BY <1>0, <1>2, <1>15

\* The next snapshot's id order is in order again.
LEMMA GrownInOrder ==
    ASSUME NEW s, IsSnapshot(s), InOrder(s), NEW changes \in Batches, NEW plan, Plans(s, changes, plan),
           NEW t, Grown(s, plan, t)
    PROVE  IsSnapshot(t) /\ InOrder(t)
<1> DEFINE n == s.count
           m == Len(plan.new)
           new == plan.new
<1>1. /\ t.count \in Nat \ {0} /\ n \in Nat \ {0} /\ m \in Nat /\ t.count = n + m
      /\ \A p \in Places(s) : /\ p \in Places(t) /\ t.ids[p] = s.ids[p] /\ t.vectors[p] = s.vectors[p]
                              /\ t.dead[p] = (p \in plan.dead) /\ (s.dead[p] => t.dead[p])
      /\ \A j \in 1 .. m : /\ n + j - 1 \in Places(t) /\ n + j - 1 \notin Places(s)
                           /\ t.ids[n + j - 1] = new[j] /\ t.vectors[n + j - 1] = changes[new[j]]
                           /\ ~t.dead[n + j - 1]
      /\ \A p \in Places(t) : p \in Places(s) \/ \E j \in 1 .. m : p = n + j - 1
  BY GrownAt
<1>2. Places(s) = 0 .. n - 1 /\ Places(t) = 0 .. t.count - 1
  BY DEF Places
<1>3. \A j \in 1 .. m : new[j] \in Fresh(s, changes) /\ new[j] \in Ids /\ new[j] \in Nat /\ changes[new[j]] \in Vectors
  BY LayoutAssumption DEF Plans, Fresh, Given
<1>4. \A i, j \in 1 .. m : i < j => new[i] < new[j]
  BY DEF Plans, Ascends
<1>5. \A i \in Places(s) : s.index[i] \in Places(s) /\ KeyAt(s, i) = s.ids[s.index[i]] /\ KeyAt(s, i) \in Nat
  BY KeysAre
<1> HIDE DEF n, m, new
<1>6. ASSUME NEW p \in Places(t) PROVE t.ids[p] \in Ids /\ t.vectors[p] \in Vectors
  <2>1. CASE p \in Places(s)
    BY <1>1, <2>1 DEF IsSnapshot
  <2>2. CASE \E j \in 1 .. m : p = n + j - 1
    <3>1. PICK j \in 1 .. m : p = n + j - 1
      BY <2>2
    <3> QED
      BY <1>1, <1>3, <3>1
  <2> QED
    BY <1>1, <2>1, <2>2
<1>7. ASSUME NEW i \in Places(s), NEW j \in 1 .. m, KeyAt(s, i) = new[j] PROVE t.dead[s.index[i]]
  <2>1. PICK p \in Places(s) : p = s.index[i] /\ s.ids[p] = new[j]
    BY <1>5, <1>7
  <2>2. ~s.dead[p] => p \in Killed(s, changes)
    BY <1>3, <2>1, KilledIs
  <2>3. p \in plan.dead
    BY <2>1, <2>2, KilledIs DEF Plans
  <2> QED
    BY <1>1, <2>1, <2>3
<1>8. ASSUME plan.indexed
      PROVE  /\ \A a \in Places(t) : t.index[a] \in Places(t)
             /\ \A p \in Places(t) : \E a \in Places(t) : t.index[a] = p
             /\ \A a, b \in Places(t) : a < b => Follows(t, a, b)
  <2>1. PICK placed, moved :
            /\ \A j \in 1 .. m : placed[j] \in Places(t) /\ t.index[placed[j]] = n + j - 1
            /\ \A i \in Places(s) : moved[i] \in Places(t) /\ t.index[moved[i]] = s.index[i]
            /\ \A i, j \in Places(s) : i < j => moved[i] < moved[j]
            /\ \A i, j \in 1 .. m : i < j => placed[i] < placed[j]
            /\ \A i \in Places(s) : \A j \in 1 .. m : /\ new[j] <= KeyAt(s, i) => placed[j] < moved[i]
                                                      /\ ~(new[j] <= KeyAt(s, i)) => moved[i] < placed[j]
            /\ \A k \in Places(t) : (\E j \in 1 .. m : placed[j] = k) \/ (\E i \in Places(s) : moved[i] = k)
    <3>1. PICK placed, moved : StandAt(s, new, m, t, placed, moved)
      BY <1>8, GrownIndexed DEF m, new
    <3> QED
      BY <3>1 DEF StandAt, n
  <2>2. \A j \in 1 .. m : placed[j] \in Int /\ KeyAt(t, placed[j]) = new[j]
    BY <1>1, <1>2, <2>1 DEF KeyAt
  <2>3. \A i \in Places(s) : moved[i] \in Int /\ KeyAt(t, moved[i]) = KeyAt(s, i)
    BY <1>1, <1>2, <1>5, <2>1 DEF KeyAt
  <2>4. ASSUME NEW a \in Places(t) PROVE t.index[a] \in Places(t)
    <3>1. CASE \E j \in 1 .. m : placed[j] = a
      BY <1>1, <2>1, <3>1
    <3>2. CASE \E i \in Places(s) : moved[i] = a
      BY <1>1, <1>5, <2>1, <3>2
    <3> QED
      BY <2>1, <3>1, <3>2
  <2>5. ASSUME NEW p \in Places(t) PROVE \E a \in Places(t) : t.index[a] = p
    <3>1. CASE p \in Places(s)
      <4>1. PICK i \in Places(s) : s.index[i] = p
        BY <3>1 DEF InOrder
      <4> QED
        BY <2>1, <4>1
    <3>2. CASE \E j \in 1 .. m : p = n + j - 1
      BY <2>1, <3>2
    <3> QED
      BY <1>1, <3>1, <3>2
  <2>6. ASSUME NEW a \in Places(t), NEW b \in Places(t), a < b PROVE Follows(t, a, b)
    <3>1. ASSUME NEW i \in Places(s), NEW j \in Places(s), moved[i] = a, moved[j] = b PROVE Follows(t, a, b)
      <4>1. i < j
        <5>1. i \in Int /\ j \in Int /\ ~(j < i) /\ i # j
          BY <1>2, <2>1, <2>3, <2>6, <3>1
        <5> QED
          BY <5>1
      <4>2. Follows(s, i, j)
        BY <4>1 DEF InOrder
      <4>3. t.index[a] = s.index[i] /\ t.index[b] = s.index[j] /\ s.index[j] \in Places(s)
        BY <1>5, <2>1, <3>1
      <4>4. KeyAt(t, a) = KeyAt(s, i) /\ KeyAt(t, b) = KeyAt(s, j)
        BY <2>3, <3>1
      <4>5. s.dead[s.index[j]] => t.dead[t.index[b]]
        BY <1>1, <4>3
      <4> QED
        BY <4>2, <4>3, <4>4, <4>5 DEF Follows
    <3>2. ASSUME NEW i \in 1 .. m, NEW j \in 1 .. m, placed[i] = a, placed[j] = b PROVE Follows(t, a, b)
      <4>1. i < j
        <5>1. i \in Int /\ j \in Int /\ ~(j < i) /\ i # j
          BY <2>1, <2>2, <2>6, <3>2
        <5> QED
          BY <5>1
      <4> QED
        BY <1>4, <2>2, <3>2, <4>1 DEF Follows
    <3>3. ASSUME NEW j \in 1 .. m, NEW i \in Places(s), placed[j] = a, moved[i] = b PROVE Follows(t, a, b)
      <4>1. new[j] <= KeyAt(s, i)
        <5>1. ~(moved[i] < placed[j])
          BY <2>2, <2>3, <2>6, <3>3
        <5> QED
          BY <2>1, <5>1
      <4>2. KeyAt(t, a) = new[j] /\ KeyAt(t, b) = KeyAt(s, i) /\ t.index[a] = n + j - 1 /\ t.index[b] = s.index[i]
        BY <2>1, <2>2, <2>3, <3>3
      <4>3. n + j - 1 > s.index[i]
        <5>1. PICK q \in Places(s) : q = s.index[i]
          BY <1>5
        <5> QED
          BY <1>1, <1>2, <5>1
      <4>4. CASE new[j] < KeyAt(s, i)
        BY <4>2, <4>4 DEF Follows
      <4>5. CASE new[j] = KeyAt(s, i)
        BY <1>7, <4>2, <4>3, <4>5 DEF Follows
      <4> QED
        BY <1>3, <1>5, <4>1, <4>4, <4>5
    <3>4. ASSUME NEW i \in Places(s), NEW j \in 1 .. m, moved[i] = a, placed[j] = b PROVE Follows(t, a, b)
      <4>1. ~(new[j] <= KeyAt(s, i))
        <5>1. ~(placed[j] < moved[i])
          BY <2>2, <2>3, <2>6, <3>4
        <5> QED
          BY <2>1, <5>1
      <4>2. KeyAt(t, a) = KeyAt(s, i) /\ KeyAt(t, b) = new[j]
        BY <2>2, <2>3, <3>4
      <4>3. KeyAt(s, i) < new[j]
        BY <1>3, <1>5, <4>1
      <4> QED
        BY <4>2, <4>3 DEF Follows
    <3>5. (\E j \in 1 .. m : placed[j] = a) \/ (\E i \in Places(s) : moved[i] = a)
      BY <2>1
    <3>6. (\E j \in 1 .. m : placed[j] = b) \/ (\E i \in Places(s) : moved[i] = b)
      BY <2>1
    <3> QED
      BY <3>1, <3>2, <3>3, <3>4, <3>5, <3>6
  <2> QED
    BY <2>4, <2>5, <2>6
<1>9. ASSUME ~plan.indexed
      PROVE  /\ \A a \in Places(t) : t.index[a] \in Places(t)
             /\ \A p \in Places(t) : \E a \in Places(t) : t.index[a] = p
             /\ \A a, b \in Places(t) : a < b => Follows(t, a, b)
  <2>1. \A a \in Places(t) : t.index[a] = a /\ KeyAt(t, a) = t.ids[a]
    BY <1>9 DEF Grown, KeyAt
  <2>2. \A a \in Places(s) : s.index[a] = a /\ KeyAt(s, a) = s.ids[a]
    BY <1>9 DEF Plans, KeyAt
  <2>3. ASSUME NEW a \in Places(s), NEW b \in Places(s), a < b PROVE KeyAt(s, a) < KeyAt(s, b)
    <3>1. Follows(s, a, b)
      BY <2>3 DEF InOrder
    <3>2. a \in Int /\ b \in Int /\ ~(a > b)
      BY <1>2, <2>3
    <3>3. ~(s.index[a] > s.index[b])
      BY <2>2, <3>2
    <3> QED
      BY <3>1, <3>3 DEF Follows
  <2>4. ASSUME NEW a \in Places(s), NEW j \in 1 .. m PROVE KeyAt(s, a) < new[j]
    <3>1. n - 1 \in Places(s) /\ (a = n - 1 \/ a < n - 1)
      BY <1>1, <1>2
    <3>2. KeyAt(s, a) <= KeyAt(s, n - 1)
      BY <1>5, <2>3, <3>1
    <3>3. KeyAt(s, n - 1) < new[1]
      BY <1>1, <1>9 DEF Plans, n, m, new
    <3>4. new[1] <= new[j]
      <4>1. 1 \in 1 .. m /\ (j = 1 \/ 1 < j)
        BY <1>1
      <4> QED
        BY <1>3, <1>4, <4>1
    <3>5. new[1] \in Nat
      BY <1>1, <1>3
    <3> QED
      BY <1>3, <1>5, <3>1, <3>2, <3>3, <3>4, <3>5
  <2>5. ASSUME NEW a \in Places(t), NEW b \in Places(t), a < b PROVE KeyAt(t, a) < KeyAt(t, b)
    <3>1. CASE a \in Places(s) /\ b \in Places(s)
      BY <1>1, <2>1, <2>2, <2>3, <2>5, <3>1
    <3>2. ASSUME a \in Places(s), NEW j \in 1 .. m, b = n + j - 1 PROVE KeyAt(t, a) < KeyAt(t, b)
      <4>1. KeyAt(t, a) = KeyAt(s, a) /\ KeyAt(t, b) = new[j]
        <5>1. t.ids[a] = s.ids[a] /\ t.ids[b] = new[j]
          BY <1>1, <3>2
        <5> QED
          BY <2>1, <2>2, <3>2, <5>1
      <4> QED
        BY <2>4, <3>2, <4>1
    <3>3. ASSUME NEW i \in 1 .. m, a = n + i - 1, NEW j \in 1 .. m, b = n + j - 1 PROVE KeyAt(t, a) < KeyAt(t, b)
      <4>1. KeyAt(t, a) = new[i] /\ KeyAt(t, b) = new[j]
        BY <1>1, <2>1, <3>3
      <4>2. i < j
        BY <1>1, <2>5, <3>3
      <4> QED
        BY <1>4, <4>1, <4>2
    <3>4. a \notin Places(s) => b \notin Places(s)
      BY <1>1, <1>2, <2>5
    <3> QED
      BY <1>1, <3>1, <3>2, <3>3, <3>4
  <2> QED
    BY <2>1, <2>5 DEF Follows
<1>10. /\ \A a \in Places(t) : t.index[a] \in Places(t)
       /\ \A p \in Places(t) : \E a \in Places(t) : t.index[a] = p
       /\ \A a, b \in Places(t) : a < b => Follows(t, a, b)
  BY <1>8, <1>9
<1>11. IsSnapshot(t)
  <2>1. /\ t.vectors = [p \in Places(t) |-> t.vectors[p]] /\ t.ids = [p \in Places(t) |-> t.ids[p]]
        /\ t.index = [p \in Places(t) |-> t.index[p]] /\ t.dead = [p \in Places(t) |-> t.dead[p]]
    BY DEF Grown
  <2>2. t.dead \in [Places(t) -> BOOLEAN]
    BY DEF Grown
  <2>3. t.vectors \in [Places(t) -> Vectors] /\ t.ids \in [Places(t) -> Ids]
    BY <1>6, <2>1
  <2>4. t.index \in [Places(t) -> Places(t)]
    BY <1>10, <2>1
  <2> QED
    BY <1>1, <2>2, <2>3, <2>4 DEF IsSnapshot
<1> QED
  BY <1>10, <1>11 DEF InOrder

\* What a snapshot answers for each id.
AnswerOf(s, i) == IF Find(s, i) # -1 THEN s.vectors[Find(s, i)] ELSE Gone

\* The next snapshot answers the changes, and what the base answers for the ids they leave alone.
LEMMA GrownAnswers ==
    ASSUME NEW s, IsSnapshot(s), InOrder(s), NEW changes \in Batches, NEW plan, Plans(s, changes, plan),
           NEW t, Grown(s, plan, t), NEW i \in Ids
    PROVE  AnswerOf(t, i) = IF changes[i] = Kept THEN AnswerOf(s, i) ELSE changes[i]
<1> DEFINE n == s.count
           m == Len(plan.new)
           new == plan.new
           A == Removed(changes) \cup Fresh(s, changes)
<1>0. i \in Nat /\ IsSnapshot(t) /\ InOrder(t)
  BY LayoutAssumption, GrownInOrder
<1>1. /\ \A p \in Places(s) : /\ p \in Places(t) /\ t.ids[p] = s.ids[p] /\ t.vectors[p] = s.vectors[p]
                              /\ t.dead[p] = (p \in plan.dead) /\ (s.dead[p] => t.dead[p])
      /\ \A j \in 1 .. m : /\ n + j - 1 \in Places(t)
                           /\ t.ids[n + j - 1] = new[j] /\ t.vectors[n + j - 1] = changes[new[j]]
                           /\ ~t.dead[n + j - 1]
      /\ \A p \in Places(t) : p \in Places(s) \/ \E j \in 1 .. m : p = n + j - 1
  BY GrownAt
<1>2. /\ \A j \in 1 .. m : new[j] \in Fresh(s, changes)
      /\ \A k \in Fresh(s, changes) : \E j \in 1 .. m : new[j] = k
      /\ plan.dead = Dead(s) \cup Killed(s, changes)
  BY DEF Plans
<1>3. /\ \A p \in Killed(s, changes) : ~s.dead[p] /\ s.ids[p] \in A
      /\ \A p \in Places(s) : s.ids[p] \in A /\ ~s.dead[p] => p \in Killed(s, changes)
      /\ \A p \in Places(s) : p \in Dead(s) <=> s.dead[p]
  BY KilledIs
<1>4. /\ Find(s, i) \in Places(s) \cup {-1}
      /\ Find(s, i) # -1 => s.ids[Find(s, i)] = i /\ ~s.dead[Find(s, i)]
      /\ \A p \in Places(s) : s.ids[p] = i /\ ~s.dead[p] => Find(s, i) = p
  BY <1>0, FindIs
<1>5. /\ Find(t, i) \in Places(t) \cup {-1}
      /\ Find(t, i) # -1 => t.ids[Find(t, i)] = i /\ ~t.dead[Find(t, i)]
      /\ \A p \in Places(t) : t.ids[p] = i /\ ~t.dead[p] => Find(t, i) = p
  BY <1>0, FindIs
<1>6. -1 \notin Places(s) /\ -1 \notin Places(t)
  BY DEF Places
<1>7. i \in A <=> changes[i] = Gone \/ i \in Fresh(s, changes)
  BY DEF Removed, Fresh
<1>8. changes[i] \in Vectors \cup {Kept, Gone} /\ Kept \notin Vectors /\ Gone \notin Vectors /\ Kept # Gone
  BY LayoutAssumption DEF Batches
<1>9. i \in Fresh(s, changes) <=>
         changes[i] \in Vectors /\ ~(Find(s, i) >= 0 /\ s.vectors[Find(s, i)] = changes[i])
  BY DEF Fresh, Given, Unchanged
<1>10. Find(s, i) >= 0 <=> Find(s, i) # -1
  BY <1>4 DEF Places
<1> HIDE DEF A, m, n, new
<1>11. CASE i \in Fresh(s, changes)
  <2>1. PICK j \in 1 .. m : new[j] = i
    BY <1>2, <1>11
  <2>2. PICK p \in Places(t) : p = n + j - 1 /\ t.ids[p] = i /\ ~t.dead[p] /\ t.vectors[p] = changes[i]
    BY <1>1, <2>1
  <2>3. Find(t, i) = p /\ p # -1
    BY <1>5, <1>6, <2>2
  <2> QED
    BY <1>8, <1>9, <1>11, <2>2, <2>3 DEF AnswerOf
<1>12. ASSUME i \notin Fresh(s, changes), NEW q \in Places(t), t.ids[q] = i, ~t.dead[q]
       PROVE  q \in Places(s) /\ s.ids[q] = i /\ ~s.dead[q] /\ q \notin Killed(s, changes)
  <2>1. q \in Places(s)
    <3> SUFFICES ASSUME NEW j \in 1 .. m, q = n + j - 1 PROVE FALSE
      BY <1>1
    <3>1. new[j] = i
      BY <1>1, <1>12
    <3> QED
      BY <1>2, <1>12, <3>1
  <2> QED
    BY <1>1, <1>2, <1>12, <2>1
<1>13. CASE changes[i] = Gone
  <2>1. i \in A /\ i \notin Fresh(s, changes)
    BY <1>7, <1>8, <1>9, <1>13
  <2>2. Find(t, i) = -1
    <3> SUFFICES ASSUME Find(t, i) # -1 PROVE FALSE
      OBVIOUS
    <3>1. PICK q \in Places(t) : q = Find(t, i) /\ t.ids[q] = i /\ ~t.dead[q]
      BY <1>5
    <3> QED
      BY <1>3, <1>12, <2>1, <3>1
  <2> QED
    BY <1>8, <1>13, <2>2 DEF AnswerOf
<1>14. CASE i \notin A
  <2>0. i \notin Fresh(s, changes)
    BY <1>7, <1>14
  <2>1. Find(t, i) = Find(s, i)
    <3>1. CASE Find(s, i) # -1
      <4>1. PICK p \in Places(s) : p = Find(s, i) /\ s.ids[p] = i /\ ~s.dead[p]
        BY <1>4, <3>1
      <4>2. p \notin plan.dead
        BY <1>2, <1>3, <1>14, <4>1
      <4> QED
        BY <1>1, <1>5, <4>1, <4>2
    <3>2. CASE Find(s, i) = -1
      <4> SUFFICES ASSUME Find(t, i) # -1 PROVE FALSE
        BY <3>2
      <4>1. PICK q \in Places(t) : q = Find(t, i) /\ t.ids[q] = i /\ ~t.dead[q]
        BY <1>5
      <4>2. Find(s, i) = q /\ q \in Places(s)
        BY <1>4, <1>12, <2>0, <4>1
      <4> QED
        BY <1>6, <3>2, <4>2
    <3> QED
      BY <3>1, <3>2
  <2>2. AnswerOf(t, i) = AnswerOf(s, i)
    <3>1. CASE Find(s, i) # -1
      BY <1>1, <1>4, <2>1, <3>1 DEF AnswerOf
    <3>2. CASE Find(s, i) = -1
      BY <2>1, <3>2 DEF AnswerOf
    <3> QED
      BY <3>1, <3>2
  <2>3. changes[i] # Kept => AnswerOf(s, i) = changes[i]
    BY <1>7, <1>8, <1>9, <1>10, <1>14 DEF AnswerOf
  <2> QED
    BY <2>2, <2>3
<1> QED
  BY <1>7, <1>11, <1>13, <1>14

------------------------------------------------------------------------------
(* Sections of a file and what is written over them *)

\* What writing cells to an offset leaves at each offset.
LEMMA PutAt ==
    ASSUME NEW f, NEW offset \in Nat, NEW cells, NEW c \in Nat, DOMAIN cells = 1 .. c, NEW o \in Nat, o \in DOMAIN f
    PROVE  /\ o \in DOMAIN Put(f, offset, cells)
           /\ Put(f, offset, cells)[o] = IF offset <= o /\ o < offset + c THEN cells[o - offset + 1] ELSE f[o]
<1>1. o - offset + 1 \in 1 .. c <=> offset <= o /\ o < offset + c
  OBVIOUS
<1> QED
  BY <1>1 DEF Put

\* The sections a layout has, and where they lie.
HasIndex(h) == h.roomy \/ h.indexed
HasTombstones(h) == h.roomy \/ h.tombstones > 0
\* The sections of a layout lie one behind the other.
LEMMA SectionsAre ==
    ASSUME NEW h, IsHeader(h)
    PROVE  \E L \in Nat, V \in Nat, I \in Nat, X \in Nat, T \in Nat, size \in Nat :
              /\ L = LayoutPositions(h) /\ V = OffVectors(h) /\ I = OffIds(h) /\ X = OffIndex(h)
              /\ T = OffTombstones(h) /\ size = TotalCells(h)
              /\ V = 1 /\ I = V + L /\ X = I + L
              /\ X <= T /\ T <= size
              /\ HasIndex(h) => T = X + L
              /\ HasTombstones(h) => size = T + L
<1>1. /\ LayoutPositions(h) \in Nat
      /\ OffVectors(h) \in Nat \ {0} /\ OffIds(h) \in Nat \ {0} /\ OffIndex(h) \in Nat \ {0}
      /\ OffTombstones(h) \in Nat \ {0} /\ TotalCells(h) \in Nat \ {0}
  BY LayoutIs
<1>2. OffVectors(h) = 1 /\ OffIds(h) = OffVectors(h) + LayoutPositions(h)
      /\ OffIndex(h) = OffIds(h) + LayoutPositions(h)
  BY <1>1 DEF OffVectors, OffIds, OffIndex
<1>3. OffTombstones(h) = (IF HasIndex(h) THEN OffIndex(h) + LayoutPositions(h) ELSE OffIndex(h))
  BY <1>1 DEF OffTombstones, HasIndex
<1>4. TotalCells(h) = (IF HasTombstones(h) THEN OffTombstones(h) + LayoutPositions(h) ELSE OffTombstones(h))
  BY <1>1 DEF TotalCells, HasTombstones
<1>5. OffIndex(h) <= OffTombstones(h) /\ (HasIndex(h) => OffTombstones(h) = OffIndex(h) + LayoutPositions(h))
  BY <1>1, <1>3
<1>6. OffTombstones(h) <= TotalCells(h)
      /\ (HasTombstones(h) => TotalCells(h) = OffTombstones(h) + LayoutPositions(h))
  BY <1>1, <1>4
<1>7. OffVectors(h) = 1
  BY DEF OffVectors
<1> QED
  BY <1>1, <1>2, <1>5, <1>6, <1>7

\* What the builds write over a file, section by section.
Layers(f, h, k, vectors, ids, merged, bits) ==
    LET rows == Put(f, OffVectors(h) + k, vectors)
        named == Put(rows, OffIds(h) + k, ids)
        index == IF h.indexed THEN Put(named, OffIndex(h), merged) ELSE named
    IN  IF h.tombstones > 0 THEN Put(index, OffTombstones(h), bits) ELSE index

\* The cells a layout has, the layers that fit into it, and what they leave in each cell.
HasCells(f, h) == DOMAIN f = 0 .. TotalCells(h) - 1

LayersFit(f, h, k, c, n, vectors, ids, merged, bits) ==
    /\ HasCells(f, h) /\ k + c <= LayoutPositions(h) /\ n <= k + c
    /\ DOMAIN vectors = 1 .. c /\ DOMAIN ids = 1 .. c
    /\ h.indexed => DOMAIN merged = 1 .. k + c
    /\ h.tombstones > 0 => DOMAIN bits = 1 .. n
LayersLie(f, h, k, c, n, vectors, ids, merged, bits, g) ==
    /\ DOMAIN g = DOMAIN f /\ g = [o \in DOMAIN g |-> g[o]] /\ g[0] = f[0]
    /\ \A p \in 0 .. LayoutPositions(h) - 1 :
          /\ g[OffVectors(h) + p] =
                IF k <= p /\ p < k + c THEN vectors[p - k + 1] ELSE f[OffVectors(h) + p]
          /\ g[OffIds(h) + p] = IF k <= p /\ p < k + c THEN ids[p - k + 1] ELSE f[OffIds(h) + p]
          /\ HasIndex(h) =>
                g[OffIndex(h) + p] = IF h.indexed /\ p < k + c THEN merged[p + 1] ELSE f[OffIndex(h) + p]
          /\ HasTombstones(h) =>
                g[OffTombstones(h) + p] =
                   IF h.tombstones > 0 /\ p < n THEN bits[p + 1] ELSE f[OffTombstones(h) + p]

\* The cells of the layers: a file's sections do not overlap.
LEMMA LayersAre ==
    ASSUME NEW h, IsHeader(h), NEW f, NEW k \in Nat, NEW c \in Nat, NEW n \in Nat,
           NEW vectors, NEW ids, NEW merged, NEW bits,
           LayersFit(f, h, k, c, n, vectors, ids, merged, bits)
    PROVE  LayersLie(f, h, k, c, n, vectors, ids, merged, bits, Layers(f, h, k, vectors, ids, merged, bits))
<1>0. PICK g : g = Layers(f, h, k, vectors, ids, merged, bits)
  OBVIOUS
<1>100. /\ HasCells(f, h) /\ k + c <= LayoutPositions(h) /\ n <= k + c
        /\ DOMAIN vectors = 1 .. c /\ DOMAIN ids = 1 .. c
        /\ h.indexed => DOMAIN merged = 1 .. k + c
        /\ h.tombstones > 0 => DOMAIN bits = 1 .. n
  BY DEF LayersFit
<1>1. PICK L \in Nat, V \in Nat, I \in Nat, X \in Nat, T \in Nat, size \in Nat :
         /\ L = LayoutPositions(h) /\ V = OffVectors(h) /\ I = OffIds(h) /\ X = OffIndex(h)
         /\ T = OffTombstones(h) /\ size = TotalCells(h)
         /\ V = 1 /\ I = V + L /\ X = I + L
         /\ X <= T /\ T <= size
         /\ HasIndex(h) => T = X + L
         /\ HasTombstones(h) => size = T + L
  BY SectionsAre
<1>2. PICK VK \in Nat, IK \in Nat, kc \in Nat : VK = V + k /\ IK = I + k /\ kc = k + c
  OBVIOUS
<1>3. PICK rows : rows = Put(f, VK, vectors)
  OBVIOUS
<1>4. PICK named : named = Put(rows, IK, ids)
  OBVIOUS
<1>5. PICK index : index = IF h.indexed THEN Put(named, X, merged) ELSE named
  OBVIOUS
<1>6. g = IF h.tombstones > 0 THEN Put(index, T, bits) ELSE index
  BY <1>0, <1>1, <1>2, <1>3, <1>4, <1>5 DEF Layers
<1>7. DOMAIN rows = DOMAIN f /\ DOMAIN named = DOMAIN f /\ DOMAIN index = DOMAIN f /\ DOMAIN g = DOMAIN f
  BY <1>3, <1>4, <1>5, <1>6 DEF Put
<1>8. DOMAIN f = 0 .. size - 1
  BY <1>1, <1>100 DEF HasCells
<1>9. h.indexed => DOMAIN merged = 1 .. kc
  BY <1>2, <1>100
<1>10. ASSUME NEW o \in Nat, o \in DOMAIN f
       PROVE  /\ rows[o] = IF VK <= o /\ o < VK + c THEN vectors[o - VK + 1] ELSE f[o]
              /\ named[o] = IF IK <= o /\ o < IK + c THEN ids[o - IK + 1] ELSE rows[o]
              /\ index[o] = IF h.indexed /\ X <= o /\ o < X + kc THEN merged[o - X + 1] ELSE named[o]
              /\ g[o] = IF h.tombstones > 0 /\ T <= o /\ o < T + n THEN bits[o - T + 1] ELSE index[o]
  <2>2. rows[o] = IF VK <= o /\ o < VK + c THEN vectors[o - VK + 1] ELSE f[o]
    <3>0. DOMAIN vectors = 1 .. c /\ o \in DOMAIN f
      BY <1>100, <1>10
    <3>1. Put(f, VK, vectors)[o] = IF VK <= o /\ o < VK + c THEN vectors[o - VK + 1] ELSE f[o]
      BY <3>0, PutAt
    <3> QED
      BY <1>3, <3>1
  <2>3. named[o] = IF IK <= o /\ o < IK + c THEN ids[o - IK + 1] ELSE rows[o]
    <3>1. DOMAIN ids = 1 .. c /\ o \in DOMAIN rows
      BY <1>7, <1>10, <1>100
    <3>2. Put(rows, IK, ids)[o] = IF IK <= o /\ o < IK + c THEN ids[o - IK + 1] ELSE rows[o]
      BY <3>1, PutAt
    <3> QED
      BY <1>4, <3>2
  <2>4. index[o] = IF h.indexed /\ X <= o /\ o < X + kc THEN merged[o - X + 1] ELSE named[o]
    <3>1. CASE h.indexed
      <4>1. index = Put(named, X, merged) /\ DOMAIN merged = 1 .. kc /\ o \in DOMAIN named
        BY <1>5, <1>7, <1>9, <1>10, <3>1
      <4>2. Put(named, X, merged)[o] = IF X <= o /\ o < X + kc THEN merged[o - X + 1] ELSE named[o]
        BY <4>1, PutAt
      <4> QED
        BY <3>1, <4>1, <4>2
    <3>2. CASE ~h.indexed
      BY <1>5, <3>2
    <3> QED
      BY <3>1, <3>2
  <2>5. g[o] = IF h.tombstones > 0 /\ T <= o /\ o < T + n THEN bits[o - T + 1] ELSE index[o]
    <3>1. CASE h.tombstones > 0
      <4>1. g = Put(index, T, bits) /\ DOMAIN bits = 1 .. n /\ o \in DOMAIN index
        BY <1>100, <1>6, <1>7, <1>10, <3>1
      <4>2. Put(index, T, bits)[o] = IF T <= o /\ o < T + n THEN bits[o - T + 1] ELSE index[o]
        BY <4>1, PutAt
      <4> QED
        BY <3>1, <4>1, <4>2
    <3>2. CASE ~(h.tombstones > 0)
      BY <1>6, <3>2
    <3> QED
      BY <3>1, <3>2
  <2> QED
    BY <2>2, <2>3, <2>4, <2>5
<1>11. kc <= L
  BY <1>1, <1>2, <1>100
<1>12. /\ V = 1 /\ I = V + L /\ X = I + L /\ X <= T /\ T <= size
       /\ HasIndex(h) => T = X + L
       /\ HasTombstones(h) => size = T + L
  BY <1>1
<1>13. ASSUME NEW p \in 0 .. L - 1
       PROVE  g[V + p] = IF k <= p /\ p < k + c THEN vectors[p - k + 1] ELSE f[V + p]
  <2>1. PICK o \in Nat : o = V + p
    OBVIOUS
  <2>2. p < L
    OBVIOUS
  <2>3. o \in DOMAIN f
    <3>1. o < size
      BY <1>12, <2>1, <2>2
    <3> QED
      BY <1>8, <3>1
  <2>4. ~(IK <= o) /\ ~(X <= o) /\ ~(T <= o)
    BY <1>2, <1>12, <2>1, <2>2
  <2>5. (VK <= o <=> k <= p) /\ (o < VK + c <=> p < k + c) /\ o - VK + 1 = p - k + 1
    BY <1>2, <2>1
  <2>7. g[o] = IF VK <= o /\ o < VK + c THEN vectors[o - VK + 1] ELSE f[o]
    BY <1>10, <2>3, <2>4
  <2> QED
    BY <2>1, <2>5, <2>7
<1>14. ASSUME NEW p \in 0 .. L - 1
       PROVE  g[I + p] = IF k <= p /\ p < k + c THEN ids[p - k + 1] ELSE f[I + p]
  <2>1. PICK o \in Nat : o = I + p
    OBVIOUS
  <2>2. p < L
    OBVIOUS
  <2>3. o \in DOMAIN f
    <3>1. o < size
      BY <1>12, <2>1, <2>2
    <3> QED
      BY <1>8, <3>1
  <2>4. ~(o < VK + c) /\ ~(X <= o) /\ ~(T <= o)
    BY <1>2, <1>11, <1>12, <2>1, <2>2
  <2>5. (IK <= o <=> k <= p) /\ (o < IK + c <=> p < k + c) /\ o - IK + 1 = p - k + 1
    BY <1>2, <2>1
  <2>7. g[o] = IF IK <= o /\ o < IK + c THEN ids[o - IK + 1] ELSE f[o]
    BY <1>10, <2>3, <2>4
  <2> QED
    BY <2>1, <2>5, <2>7
<1>15. ASSUME NEW p \in 0 .. L - 1, HasIndex(h)
       PROVE  g[X + p] = IF h.indexed /\ p < k + c THEN merged[p + 1] ELSE f[X + p]
  <2>1. PICK o \in Nat : o = X + p
    OBVIOUS
  <2>2. p < L
    OBVIOUS
  <2>3. o \in DOMAIN f
    <3>1. o < size
      BY <1>12, <2>1, <2>2, <1>15
    <3> QED
      BY <1>8, <3>1
  <2>4. ~(o < VK + c) /\ ~(o < IK + c) /\ ~(T <= o)
    BY <1>2, <1>11, <1>12, <1>15, <2>1, <2>2
  <2>5. X <= o /\ (o < X + kc <=> p < k + c) /\ o - X + 1 = p + 1
    BY <1>2, <2>1
  <2>7. g[o] = IF h.indexed /\ X <= o /\ o < X + kc THEN merged[o - X + 1] ELSE f[o]
    BY <1>10, <2>3, <2>4
  <2> QED
    BY <2>1, <2>5, <2>7
<1>16. ASSUME NEW p \in 0 .. L - 1, HasTombstones(h)
       PROVE  g[T + p] = IF h.tombstones > 0 /\ p < n THEN bits[p + 1] ELSE f[T + p]
  <2>1. PICK o \in Nat : o = T + p
    OBVIOUS
  <2>2. p < L
    OBVIOUS
  <2>3. o \in DOMAIN f
    <3>1. o < size
      BY <1>12, <2>1, <2>2, <1>16
    <3> QED
      BY <1>8, <3>1
  <2>4. ~(o < VK + c) /\ ~(o < IK + c)
    BY <1>2, <1>11, <1>12, <2>1, <2>2
  <2>5. h.indexed => ~(o < X + kc)
    BY <1>11, <1>12, <2>1, <2>2 DEF HasIndex
  <2>6. T <= o /\ (o < T + n <=> p < n) /\ o - T + 1 = p + 1
    BY <2>1
  <2>7. g[o] = IF h.tombstones > 0 /\ T <= o /\ o < T + n THEN bits[o - T + 1] ELSE f[o]
    BY <1>10, <2>3, <2>4, <2>5
  <2> QED
    BY <2>1, <2>6, <2>7
<1>17. g[0] = f[0]
  <2>1. 0 \in DOMAIN f
    <3>1. 0 < size
      BY <1>12
    <3> QED
      BY <1>8, <3>1
  <2>2. ~(VK <= 0) /\ ~(IK <= 0) /\ ~(X <= 0) /\ ~(T <= 0)
    BY <1>2, <1>12
  <2> QED
    BY <1>10, <2>1, <2>2
<1>18. g = [o \in DOMAIN g |-> g[o]]
  BY <1>3, <1>4, <1>5, <1>6 DEF Put
<1> QED
  BY <1>0, <1>1, <1>7, <1>13, <1>14, <1>15, <1>16, <1>17, <1>18 DEF LayersLie

\* The record a file opens as.
LEMMA OpenedIs ==
    ASSUME NEW f, IsFile(f)
    PROVE  /\ Opened(f).count = f[0].count
           /\ Opened(f).vectors = [p \in Places(Opened(f)) |-> f[OffVectors(f[0]) + p]]
           /\ Opened(f).ids = [p \in Places(Opened(f)) |-> f[OffIds(f[0]) + p]]
           /\ Opened(f).index = [p \in Places(Opened(f)) |-> IF f[0].indexed THEN f[OffIndex(f[0]) + p] ELSE p]
           /\ Opened(f).dead = [p \in Places(Opened(f)) |->
                                   f[0].tombstones > 0 /\ f[OffTombstones(f[0]) + p] = 1]
<1>1. Opened(f).count = f[0].count
  BY DEF Opened
<1>2. Opened(f).vectors = [p \in 0 .. f[0].count - 1 |-> f[OffVectors(f[0]) + p]]
  BY DEF Opened
<1>3. Opened(f).ids = [p \in 0 .. f[0].count - 1 |-> f[OffIds(f[0]) + p]]
  BY DEF Opened
<1>4. Opened(f).index = [p \in 0 .. f[0].count - 1 |-> IF f[0].indexed THEN f[OffIndex(f[0]) + p] ELSE p]
  BY DEF Opened
<1>5. Opened(f).dead = [p \in 0 .. f[0].count - 1 |-> f[0].tombstones > 0 /\ f[OffTombstones(f[0]) + p] = 1]
  BY DEF Opened
<1> QED
  BY <1>1, <1>2, <1>3, <1>4, <1>5 DEF Places

\* A file whose positions are those of the snapshot: the dead ones are counted, without an id_index ids ascend.
Opens(f) ==
    /\ IsFile(f) /\ IsSnapshot(Opened(f)) /\ InOrder(Opened(f))
    /\ f[0].tombstones = Cardinality(Dead(Opened(f)))

\* The plan of a batch is what the batch does to the snapshot.
LEMMA PlannedPlans ==
    ASSUME NEW f, Opens(f), NEW changes \in Batches, NEW s, s = Opened(f),
           NEW plan, plan = Planned(f, changes)
    PROVE  /\ Plans(s, changes, plan)
           /\ plan.count = s.count + Len(plan.new)
           /\ IsFiniteSet(plan.dead) /\ plan.tombstones = Cardinality(plan.dead)
           /\ plan.dead \subseteq Places(s)
           /\ plan.rows = [j \in 1 .. Len(plan.new) |-> plan.rows[j]]
           /\ plan.nothing = (Fresh(s, changes) = {} /\ Killed(s, changes) = {})
<1>1. IsFile(f) /\ IsSnapshot(s) /\ InOrder(s) /\ f[0].tombstones = Cardinality(Dead(s))
  BY DEF Opens
<1>2. PICK S : S = Fresh(s, changes)
  OBVIOUS
<1>3. PICK new : new = Sorted(S)
  OBVIOUS
<1>4. S \in SUBSET Ids /\ S \in SUBSET Nat /\ IsFiniteSet(S)
  <2>1. S \in SUBSET Ids
    BY <1>2 DEF Fresh, Given
  <2> QED
    BY <2>1, LayoutAssumption, FS_Subset
<1>5. /\ plan.new = new
      /\ plan.rows = [j \in DOMAIN new |-> changes[new[j]]]
      /\ plan.count = s.count + Len(new)
      /\ plan.dead = Dead(s) \cup Killed(s, changes)
      /\ plan.tombstones = f[0].tombstones + Cardinality(Killed(s, changes))
      /\ plan.indexed = (f[0].indexed \/ (new # <<>> /\ new[1] <= KeyAt(s, s.count - 1)))
      /\ plan.nothing = (new = <<>> /\ Killed(s, changes) = {})
  BY <1>2, <1>3 DEF Planned, Fresh
<1>6. /\ Len(new) \in Nat /\ new = [j \in 1 .. Len(new) |-> new[j]] /\ DOMAIN new = 1 .. Len(new)
      /\ S # {} => Len(new) # 0
      /\ S = {} => new = <<>>
  BY <1>3, <1>4, SortedIds
<1>7. /\ \A i, j \in DOMAIN new : i < j => new[i] < new[j]
      /\ \A x \in S : \E i \in DOMAIN new : new[i] = x
      /\ new \in Seq(S)
  BY <1>3, <1>4, SortedIs
<1>8. \A j \in 1 .. Len(new) : new[j] \in S
  BY <1>6, <1>7
<1>9. Ascends(new, Len(new))
  BY <1>4, <1>6, <1>7, <1>8 DEF Ascends
<1>10. \A j \in 1 .. Len(new) : plan.rows[j] = changes[new[j]]
  BY <1>5, <1>6
<1>11. plan.indexed \/ \A p \in Places(s) : s.index[p] = p
  <2>1. CASE f[0].indexed
    BY <1>5, <2>1
  <2>2. CASE ~f[0].indexed
    <3>1. s.index = [p \in Places(s) |-> IF f[0].indexed THEN f[OffIndex(f[0]) + p] ELSE p]
      BY <1>1, OpenedIs
    <3> QED
      BY <2>2, <3>1
  <2> QED
    BY <2>1, <2>2
<1>12. plan.indexed \/ Len(new) = 0 \/ KeyAt(s, s.count - 1) < new[1]
  <2>1. SUFFICES ASSUME ~plan.indexed, Len(new) # 0 PROVE KeyAt(s, s.count - 1) < new[1]
    OBVIOUS
  <2>2. s.count - 1 \in Places(s) /\ 1 \in 1 .. Len(new)
    BY <1>1, <1>6, <2>1 DEF IsSnapshot, Places
  <2>3. KeyAt(s, s.count - 1) \in Nat
    BY <1>1, <2>2, KeysAre
  <2>4. new[1] \in Nat
    BY <1>4, <1>8, <2>2
  <2>5. new # <<>>
    BY <2>1
  <2>6. ~(new[1] <= KeyAt(s, s.count - 1))
    BY <1>5, <2>1, <2>5
  <2> QED
    BY <2>3, <2>4, <2>6
<1>13. Plans(s, changes, plan)
  <2>1. \A i \in Fresh(s, changes) : \E j \in 1 .. Len(new) : new[j] = i
    BY <1>2, <1>6, <1>7
  <2> QED
    BY <1>2, <1>5, <1>6, <1>8, <1>9, <1>10, <1>11, <1>12, <2>1 DEF Plans
<1>14. /\ Killed(s, changes) \subseteq Places(s) /\ Dead(s) \subseteq Places(s)
       /\ \A p \in Killed(s, changes) : ~s.dead[p]
       /\ \A p \in Places(s) : p \in Dead(s) <=> s.dead[p]
  BY <1>1, KilledIs
<1>15. IsFiniteSet(plan.dead) /\ plan.tombstones = Cardinality(plan.dead)
  <2>1. PICK A, B : A = Dead(s) /\ B = Killed(s, changes)
    OBVIOUS
  <2>2. IsFiniteSet(A) /\ IsFiniteSet(B)
    <3>1. IsFiniteSet(Places(s))
      BY <1>1, FS_Interval DEF IsSnapshot, Places
    <3> QED
      BY <1>14, <2>1, <3>1, FS_Subset
  <2>3. A \cap B = {}
    BY <1>14, <2>1
  <2>4. IsFiniteSet(A \cup B) /\ Cardinality(A \cup B) = Cardinality(A) + Cardinality(B) - Cardinality(A \cap B)
    BY <2>2, FS_Union
  <2>5. Cardinality(A \cap B) = 0 /\ Cardinality(A) \in Nat /\ Cardinality(B) \in Nat
    BY <2>2, <2>3, FS_EmptySet, FS_CardinalityType
  <2>6. Cardinality(A \cup B) = Cardinality(A) + Cardinality(B)
    BY <2>4, <2>5
  <2> QED
    BY <1>1, <1>5, <2>1, <2>4, <2>6
<1>16. plan.rows = [j \in 1 .. Len(new) |-> plan.rows[j]]
  BY <1>5, <1>6
<1>17. plan.nothing = (S = {} /\ Killed(s, changes) = {})
  <2>1. new = <<>> => Len(new) = 0
    OBVIOUS
  <2> QED
    BY <1>5, <1>6, <2>1
<1> QED
  BY <1>2, <1>5, <1>13, <1>14, <1>15, <1>16, <1>17

------------------------------------------------------------------------------
(* What a build leaves in every cell *)

\* Behind the positions a file has, and in a section without content, every cell is 0.
Clean(f) ==
    /\ IsFile(f) /\ f[0].count <= LayoutPositions(f[0])
    /\ \A p \in 0 .. LayoutPositions(f[0]) - 1 :
          /\ f[0].count <= p => f[OffVectors(f[0]) + p] = 0 /\ f[OffIds(f[0]) + p] = 0
          /\ HasIndex(f[0]) /\ ~(f[0].indexed /\ p < f[0].count) => f[OffIndex(f[0]) + p] = 0
          /\ HasTombstones(f[0]) /\ ~(f[0].tombstones > 0 /\ p < f[0].count) => f[OffTombstones(f[0]) + p] = 0

\* What the next file holds of a position in each section.
VectorCell(s, plan, p) ==
    IF p < s.count THEN s.vectors[p] ELSE IF p < plan.count THEN plan.rows[p - s.count + 1] ELSE 0
IdCell(s, plan, p) == IF p < s.count THEN s.ids[p] ELSE IF p < plan.count THEN plan.new[p - s.count + 1] ELSE 0
IndexCell(s, plan, p) == IF plan.indexed /\ p < plan.count THEN MergedIndex(s, plan.new)[p + 1] ELSE 0
TombstoneCell(s, plan, p) == IF plan.tombstones > 0 /\ p < s.count /\ p \in plan.dead THEN 1 ELSE 0

CellsAre(g, s, plan, h) ==
    \A p \in 0 .. LayoutPositions(h) - 1 :
       /\ g[OffVectors(h) + p] = VectorCell(s, plan, p)
       /\ g[OffIds(h) + p] = IdCell(s, plan, p)
       /\ HasIndex(h) => g[OffIndex(h) + p] = IndexCell(s, plan, p)
       /\ HasTombstones(h) => g[OffTombstones(h) + p] = TombstoneCell(s, plan, p)

\* A file that a plan's build writes over a snapshot.
Written(g, s, plan) ==
    /\ IsFile(g) /\ g[0].count = plan.count /\ plan.count <= LayoutPositions(g[0])
    /\ g[0].indexed = plan.indexed /\ g[0].tombstones = plan.tombstones
    /\ CellsAre(g, s, plan, g[0])

\* Facts of a plan that its readers need besides what it does.
Counted(s, plan) ==
    /\ plan.count = s.count + Len(plan.new)
    /\ IsFiniteSet(plan.dead) /\ plan.tombstones = Cardinality(plan.dead)
    /\ plan.dead \subseteq Places(s)
    /\ plan.rows = [j \in 1 .. Len(plan.new) |-> plan.rows[j]]

\* Such a file is 0 behind its positions.
LEMMA WrittenClean ==
    ASSUME NEW s, NEW plan, s.count \in Nat, plan.count \in Nat, s.count <= plan.count, NEW g, Written(g, s, plan)
    PROVE  Clean(g)
<1>1. PICK h, L : h = g[0] /\ L = LayoutPositions(h)
  OBVIOUS
<1>2. /\ IsFile(g) /\ IsHeader(h) /\ L \in Nat /\ h.count = plan.count /\ plan.count <= L
      /\ h.indexed = plan.indexed /\ h.tombstones = plan.tombstones
  BY <1>1, LayoutIs DEF Written, IsFile
<1>3. ASSUME NEW p \in 0 .. L - 1
      PROVE  /\ h.count <= p => g[OffVectors(h) + p] = 0 /\ g[OffIds(h) + p] = 0
             /\ HasIndex(h) /\ ~(h.indexed /\ p < h.count) => g[OffIndex(h) + p] = 0
             /\ HasTombstones(h) /\ ~(h.tombstones > 0 /\ p < h.count) => g[OffTombstones(h) + p] = 0
  <2>1. /\ g[OffVectors(h) + p] = VectorCell(s, plan, p)
        /\ g[OffIds(h) + p] = IdCell(s, plan, p)
        /\ HasIndex(h) => g[OffIndex(h) + p] = IndexCell(s, plan, p)
        /\ HasTombstones(h) => g[OffTombstones(h) + p] = TombstoneCell(s, plan, p)
    BY <1>1, <1>3 DEF Written, CellsAre
  <2>2. h.count <= p => ~(p < s.count) /\ ~(p < plan.count)
    BY <1>2
  <2>3. ~(p < h.count) => ~(p < s.count)
    BY <1>2
  <2>4. h.count <= p => g[OffVectors(h) + p] = 0 /\ g[OffIds(h) + p] = 0
    BY <2>1, <2>2 DEF VectorCell, IdCell
  <2>5. HasIndex(h) /\ ~(h.indexed /\ p < h.count) => g[OffIndex(h) + p] = 0
    BY <1>2, <2>1 DEF IndexCell
  <2>6. HasTombstones(h) /\ ~(h.tombstones > 0 /\ p < h.count) => g[OffTombstones(h) + p] = 0
    BY <1>2, <2>1, <2>3 DEF TombstoneCell
  <2> QED
    BY <2>4, <2>5, <2>6
<1> QED
  BY <1>1, <1>2, <1>3 DEF Clean

\* A file so written opens as the snapshot the plan makes of the base, and is clean.
LEMMA WrittenIs ==
    ASSUME NEW s, IsSnapshot(s), InOrder(s), NEW changes \in Batches, NEW plan, Plans(s, changes, plan),
           Counted(s, plan), NEW g, Written(g, s, plan), NEW t, t = Opened(g)
    PROVE  Grown(s, plan, t) /\ Clean(g) /\ Opens(g)
<1>1. /\ s.count \in Nat \ {0} /\ Len(plan.new) \in Nat /\ plan.count = s.count + Len(plan.new)
      /\ plan.tombstones = 0 => plan.dead = {}
      /\ plan.tombstones \in Nat
  <2>1. s.count \in Nat \ {0} /\ Len(plan.new) \in Nat /\ plan.count = s.count + Len(plan.new)
    BY DEF IsSnapshot, Plans, Counted
  <2>2. PICK D : D = plan.dead
    OBVIOUS
  <2>3. IsFiniteSet(D) /\ plan.tombstones = Cardinality(D)
    BY <2>2 DEF Counted
  <2>4. Cardinality(D) \in Nat /\ (Cardinality(D) = 0 => D = {})
    BY <2>3, FS_EmptySet, FS_CardinalityType
  <2> QED
    BY <2>1, <2>2, <2>3, <2>4
<1>2. PICK h, L : h = g[0] /\ L = LayoutPositions(h)
  OBVIOUS
<1>3. /\ IsFile(g) /\ IsHeader(h) /\ L \in Nat /\ h.count = plan.count /\ plan.count <= L
      /\ h.indexed = plan.indexed /\ h.tombstones = plan.tombstones
  BY <1>2, LayoutIs DEF Written, IsFile
<1>4. ASSUME NEW p \in 0 .. L - 1
      PROVE  /\ g[OffVectors(h) + p] = VectorCell(s, plan, p)
             /\ g[OffIds(h) + p] = IdCell(s, plan, p)
             /\ HasIndex(h) => g[OffIndex(h) + p] = IndexCell(s, plan, p)
             /\ HasTombstones(h) => g[OffTombstones(h) + p] = TombstoneCell(s, plan, p)
  BY <1>2, <1>4 DEF Written, CellsAre
<1>5. /\ t.count = plan.count
      /\ t.vectors = [p \in Places(t) |-> g[OffVectors(h) + p]]
      /\ t.ids = [p \in Places(t) |-> g[OffIds(h) + p]]
      /\ t.index = [p \in Places(t) |-> IF h.indexed THEN g[OffIndex(h) + p] ELSE p]
      /\ t.dead = [p \in Places(t) |-> h.tombstones > 0 /\ g[OffTombstones(h) + p] = 1]
  BY <1>2, <1>3, OpenedIs
<1>6. ASSUME NEW p \in Places(t) PROVE p \in 0 .. L - 1 /\ p < plan.count
  BY <1>1, <1>3, <1>5, <1>6 DEF Places
<1>7. t.vectors = [p \in Places(t) |-> IF p < s.count THEN s.vectors[p] ELSE plan.rows[p - s.count + 1]]
  <2>1. \A p \in Places(t) :
           g[OffVectors(h) + p] = IF p < s.count THEN s.vectors[p] ELSE plan.rows[p - s.count + 1]
    BY <1>4, <1>6 DEF VectorCell
  <2> QED
    BY <1>5, <2>1
<1>8. t.ids = [p \in Places(t) |-> IF p < s.count THEN s.ids[p] ELSE plan.new[p - s.count + 1]]
  <2>1. \A p \in Places(t) : g[OffIds(h) + p] = IF p < s.count THEN s.ids[p] ELSE plan.new[p - s.count + 1]
    BY <1>4, <1>6 DEF IdCell
  <2> QED
    BY <1>5, <2>1
<1>9. t.index = [p \in Places(t) |-> IF plan.indexed THEN MergedIndex(s, plan.new)[p + 1] ELSE p]
  <2>1. CASE plan.indexed
    <3>1. \A p \in Places(t) : g[OffIndex(h) + p] = MergedIndex(s, plan.new)[p + 1]
      BY <1>3, <1>4, <1>6, <2>1 DEF IndexCell, HasIndex
    <3> QED
      BY <1>3, <1>5, <2>1, <3>1
  <2>2. CASE ~plan.indexed
    BY <1>3, <1>5, <2>2
  <2> QED
    BY <2>1, <2>2
<1>10. t.dead = [p \in Places(t) |-> p \in plan.dead]
  <2>1. CASE plan.tombstones = 0
    <3>1. \A p \in Places(t) : (h.tombstones > 0 /\ g[OffTombstones(h) + p] = 1) = (p \in plan.dead)
      BY <1>1, <1>3, <2>1
    <3> QED
      BY <1>5, <3>1
  <2>2. CASE plan.tombstones # 0
    <3>1. h.tombstones > 0 /\ HasTombstones(h)
      BY <1>1, <1>3, <2>2 DEF HasTombstones
    <3>2. ASSUME NEW p \in Places(t)
          PROVE  (h.tombstones > 0 /\ g[OffTombstones(h) + p] = 1) = (p \in plan.dead)
      <4>1. g[OffTombstones(h) + p] = TombstoneCell(s, plan, p)
        BY <1>4, <1>6, <3>1, <3>2
      <4>2. p \in plan.dead => p < s.count
        BY <1>1 DEF Counted, Places
      <4> QED
        BY <1>3, <3>1, <4>1, <4>2 DEF TombstoneCell
    <3> QED
      BY <1>5, <3>2
  <2> QED
    BY <2>1, <2>2
<1>11. Grown(s, plan, t)
  BY <1>1, <1>5, <1>7, <1>8, <1>9, <1>10 DEF Grown
<1>12. Clean(g)
  <2>1. s.count \in Nat /\ plan.count \in Nat /\ s.count <= plan.count
    BY <1>1
  <2> QED
    BY <2>1, WrittenClean
<1>13. Opens(g)
  <2>1. IsSnapshot(t) /\ InOrder(t)
    BY <1>11, GrownInOrder
  <2>2. Dead(t) = plan.dead
    <3>1. plan.dead \subseteq Places(t)
      BY <1>1, <1>5 DEF Counted, Places
    <3> QED
      BY <1>10, <3>1 DEF Dead
  <2> QED
    BY <1>2, <1>3, <2>1, <2>2 DEF Opens, Counted
<1> QED
  BY <1>11, <1>12, <1>13

\* Every cell behind the header belongs to a position's part of a section.
LEMMA CellsOfSections ==
    ASSUME NEW h, IsHeader(h), NEW o \in 1 .. TotalCells(h) - 1
    PROVE  \E p \in 0 .. LayoutPositions(h) - 1 :
              \/ o = OffVectors(h) + p \/ o = OffIds(h) + p
              \/ HasIndex(h) /\ o = OffIndex(h) + p
              \/ HasTombstones(h) /\ o = OffTombstones(h) + p
<1>1. PICK L \in Nat, V \in Nat, I \in Nat, X \in Nat, T \in Nat, size \in Nat :
         /\ L = LayoutPositions(h) /\ V = OffVectors(h) /\ I = OffIds(h) /\ X = OffIndex(h)
         /\ T = OffTombstones(h) /\ size = TotalCells(h)
         /\ V = 1 /\ I = V + L /\ X = I + L
         /\ X <= T /\ T <= size
         /\ HasIndex(h) => T = X + L
         /\ HasTombstones(h) => size = T + L
  BY SectionsAre
<1>2. ~HasIndex(h) => T = X
  BY <1>1, LayoutIs DEF OffTombstones, HasIndex
<1>3. ~HasTombstones(h) => size = T
  BY <1>1, LayoutIs DEF TotalCells, HasTombstones
<1>4. o \in Nat /\ V <= o /\ o < size
  BY <1>1
<1>5. CASE o < I
  <2>1. PICK p \in Nat : p = o - V
    BY <1>4
  <2>2. p < L /\ o = V + p
    BY <1>1, <1>4, <1>5, <2>1
  <2>3. p \in 0 .. L - 1
    BY <2>2
  <2> QED
    BY <1>1, <2>2, <2>3
<1>6. CASE I <= o /\ o < X
  <2>1. PICK p \in Nat : p = o - I
    BY <1>4, <1>6
  <2>2. p < L /\ o = I + p
    BY <1>1, <1>4, <1>6, <2>1
  <2>3. p \in 0 .. L - 1
    BY <2>2
  <2> QED
    BY <1>1, <2>2, <2>3
<1>7. CASE X <= o /\ o < T
  <2>1. PICK p \in Nat : p = o - X
    BY <1>4, <1>7
  <2>2. HasIndex(h)
    BY <1>2, <1>4, <1>7
  <2>3. p < L /\ o = X + p
    BY <1>1, <1>4, <1>7, <2>1, <2>2
  <2>4. p \in 0 .. L - 1
    BY <2>3
  <2> QED
    BY <1>1, <2>2, <2>3, <2>4
<1>8. CASE T <= o
  <2>1. PICK p \in Nat : p = o - T
    BY <1>4, <1>8
  <2>2. HasTombstones(h)
    BY <1>3, <1>4, <1>8
  <2>3. p < L /\ o = T + p
    BY <1>1, <1>4, <1>8, <2>1, <2>2
  <2>4. p \in 0 .. L - 1
    BY <2>3
  <2> QED
    BY <1>1, <2>2, <2>3, <2>4
<1> QED
  BY <1>4, <1>5, <1>6, <1>7, <1>8

\* Headers of one layout, and of files as long.
Alike(h, i) ==
    /\ h.count = i.count /\ h.roomy = i.roomy /\ h.capacity = i.capacity /\ h.indexed = i.indexed
    /\ h.tombstones = i.tombstones

\* Their sections lie at the same offsets.
LEMMA LayoutAlike ==
    ASSUME NEW h, NEW i, Alike(h, i)
    PROVE  /\ LayoutPositions(h) = LayoutPositions(i) /\ OffVectors(h) = OffVectors(i) /\ OffIds(h) = OffIds(i)
           /\ OffIndex(h) = OffIndex(i) /\ OffTombstones(h) = OffTombstones(i) /\ TotalCells(h) = TotalCells(i)
           /\ HasIndex(h) = HasIndex(i) /\ HasTombstones(h) = HasTombstones(i)
<1>1. LayoutPositions(h) = LayoutPositions(i)
  BY DEF Alike, LayoutPositions
<1>2. OffVectors(h) = OffVectors(i) /\ OffIds(h) = OffIds(i) /\ OffIndex(h) = OffIndex(i)
  BY <1>1 DEF OffVectors, OffIds, OffIndex
<1>3. HasIndex(h) = HasIndex(i) /\ HasTombstones(h) = HasTombstones(i)
  BY DEF Alike, HasIndex, HasTombstones
<1>4. OffTombstones(h) = OffTombstones(i)
  BY <1>1, <1>2 DEF Alike, OffTombstones
<1>5. TotalCells(h) = TotalCells(i)
  BY <1>1, <1>4 DEF Alike, TotalCells
<1> QED
  BY <1>1, <1>2, <1>3, <1>4, <1>5

\* Files of one layout that hold the same of every position differ in no cell behind the header.
LEMMA FilesAlike ==
    ASSUME NEW s, NEW plan, NEW f, Written(f, s, plan), NEW g, Written(g, s, plan), Alike(f[0], g[0])
    PROVE  DOMAIN f = DOMAIN g /\ \A o \in DOMAIN f : o # 0 => f[o] = g[o]
<1>1. PICK h, i : h = f[0] /\ i = g[0]
  OBVIOUS
<1>2. /\ LayoutPositions(h) = LayoutPositions(i) /\ OffVectors(h) = OffVectors(i) /\ OffIds(h) = OffIds(i)
      /\ OffIndex(h) = OffIndex(i) /\ OffTombstones(h) = OffTombstones(i) /\ TotalCells(h) = TotalCells(i)
      /\ HasIndex(h) = HasIndex(i) /\ HasTombstones(h) = HasTombstones(i)
  BY <1>1, LayoutAlike
<1>3. IsHeader(h) /\ DOMAIN f = 0 .. TotalCells(h) - 1 /\ DOMAIN g = 0 .. TotalCells(i) - 1
  BY <1>1 DEF Written, IsFile
<1>4. ASSUME NEW o \in DOMAIN f, o # 0 PROVE f[o] = g[o]
  <2>1. TotalCells(h) \in Nat
    BY <1>3, LayoutIs
  <2>2. o \in 1 .. TotalCells(h) - 1
    BY <1>3, <1>4, <2>1
  <2>3. PICK p \in 0 .. LayoutPositions(h) - 1 :
              \/ o = OffVectors(h) + p \/ o = OffIds(h) + p
              \/ HasIndex(h) /\ o = OffIndex(h) + p
              \/ HasTombstones(h) /\ o = OffTombstones(h) + p
    BY <1>3, <2>2, CellsOfSections
  <2>4. /\ f[OffVectors(h) + p] = VectorCell(s, plan, p)
        /\ f[OffIds(h) + p] = IdCell(s, plan, p)
        /\ HasIndex(h) => f[OffIndex(h) + p] = IndexCell(s, plan, p)
        /\ HasTombstones(h) => f[OffTombstones(h) + p] = TombstoneCell(s, plan, p)
    BY <1>1 DEF Written, CellsAre
  <2>5. /\ g[OffVectors(h) + p] = VectorCell(s, plan, p)
        /\ g[OffIds(h) + p] = IdCell(s, plan, p)
        /\ HasIndex(h) => g[OffIndex(h) + p] = IndexCell(s, plan, p)
        /\ HasTombstones(h) => g[OffTombstones(h) + p] = TombstoneCell(s, plan, p)
    BY <1>1, <1>2 DEF Written, CellsAre
  <2> QED
    BY <2>3, <2>4, <2>5
<1> QED
  BY <1>2, <1>3, <1>4

\* A build of a file: the snapshot it starts from and what it plans.
Builds(f, changes, s, plan) ==
    /\ Opens(f) /\ Clean(f) /\ s = Opened(f)
    /\ changes \in Batches /\ plan = Planned(f, changes)
    /\ Plans(s, changes, plan) /\ Counted(s, plan)
    /\ f[0].indexed => plan.indexed
    /\ plan.tombstones = 0 => f[0].tombstones = 0

\* What is planned over a clean file that opens is such a build.
LEMMA PlannedBuilds ==
    ASSUME NEW f, Opens(f), Clean(f), NEW changes \in Batches, NEW s, s = Opened(f),
           NEW plan, plan = Planned(f, changes)
    PROVE  /\ Builds(f, changes, s, plan)
           /\ plan.nothing = (Fresh(s, changes) = {} /\ Killed(s, changes) = {})
<1>1. /\ Plans(s, changes, plan)
      /\ plan.count = s.count + Len(plan.new)
      /\ IsFiniteSet(plan.dead) /\ plan.tombstones = Cardinality(plan.dead)
      /\ plan.dead \subseteq Places(s)
      /\ plan.rows = [j \in 1 .. Len(plan.new) |-> plan.rows[j]]
      /\ plan.nothing = (Fresh(s, changes) = {} /\ Killed(s, changes) = {})
  BY PlannedPlans
<1>2. f[0].indexed => plan.indexed
  BY DEF Planned
<1>3. PICK A, B : A = Dead(s) /\ B = plan.dead
  OBVIOUS
<1>4. plan.tombstones = 0 => f[0].tombstones = 0
  <2>1. A \subseteq B /\ IsFiniteSet(B) /\ plan.tombstones = Cardinality(B) /\ f[0].tombstones = Cardinality(A)
    BY <1>1, <1>3 DEF Plans, Opens
  <2>2. SUFFICES ASSUME Cardinality(B) = 0 PROVE Cardinality(A) = 0
    BY <2>1
  <2>3. B = {}
    BY <2>1, <2>2, FS_EmptySet
  <2>4. A = {}
    BY <2>1, <2>3
  <2> QED
    BY <2>4, FS_EmptySet
<1> QED
  BY <1>1, <1>2, <1>4 DEF Builds, Counted

\* The types of what a build starts from, and its count.
LEMMA BuildIs ==
    ASSUME NEW f, NEW changes, NEW s, NEW plan, Builds(f, changes, s, plan)
    PROVE  /\ IsFile(f) /\ IsHeader(f[0]) /\ IsPlan(f, plan)
           /\ s.count = f[0].count /\ s.count \in Nat \ {0} /\ Len(plan.new) \in Nat
           /\ plan.count = s.count + Len(plan.new) /\ plan.count \in Nat \ {0}
           /\ plan.tombstones \in Nat
           /\ IsSnapshot(s) /\ InOrder(s)
<1>1. IsFile(f) /\ IsHeader(f[0]) /\ IsSnapshot(s) /\ InOrder(s)
  BY DEF Builds, Opens, IsFile
<1>2. IsPlan(f, plan)
  BY <1>1, PlannedIsPlan DEF Builds
<1>3. s.count = f[0].count
  BY <1>1, OpenedIs DEF Builds
<1>4. s.count \in Nat \ {0} /\ Len(plan.new) \in Nat /\ plan.tombstones \in Nat
  BY <1>1, <1>2 DEF IsSnapshot, IsPlan
<1>5. plan.count = s.count + Len(plan.new)
  BY DEF Builds, Counted
<1>6. plan.count \in Nat \ {0}
  BY <1>4, <1>5
<1> QED
  BY <1>1, <1>2, <1>3, <1>4, <1>5, <1>6

\* Cells under another header.
Headed(d, k) == [d EXCEPT ![0] = k]

\* Cells under a header of the same layout are a written file.
LEMMA HeaderOver ==
    ASSUME NEW s, NEW plan, NEW h, IsHeader(h), h.count = plan.count, h.indexed = plan.indexed,
           h.tombstones = plan.tombstones, plan.count <= LayoutPositions(h),
           NEW d, HasCells(d, h), d = [o \in DOMAIN d |-> d[o]], CellsAre(d, s, plan, h),
           NEW k, IsHeader(k), Alike(h, k)
    PROVE  Written(Headed(d, k), s, plan) /\ Headed(d, k)[0] = k
<1>0. PICK g : g = Headed(d, k)
  OBVIOUS
<1>1. /\ LayoutPositions(h) = LayoutPositions(k) /\ OffVectors(h) = OffVectors(k) /\ OffIds(h) = OffIds(k)
      /\ OffIndex(h) = OffIndex(k) /\ OffTombstones(h) = OffTombstones(k) /\ TotalCells(h) = TotalCells(k)
      /\ HasIndex(h) = HasIndex(k) /\ HasTombstones(h) = HasTombstones(k)
  BY LayoutAlike
<1>2. /\ LayoutPositions(h) \in Nat
      /\ OffVectors(h) \in Nat \ {0} /\ OffIds(h) \in Nat \ {0} /\ OffIndex(h) \in Nat \ {0}
      /\ OffTombstones(h) \in Nat \ {0} /\ TotalCells(h) \in Nat \ {0}
  BY LayoutIs
<1>3. DOMAIN d = 0 .. TotalCells(h) - 1
  BY DEF HasCells
<1>4. 0 \in DOMAIN d
  BY <1>2, <1>3
<1>5. DOMAIN g = DOMAIN d /\ g[0] = k /\ g = [o \in DOMAIN d |-> g[o]]
  BY <1>0, <1>4 DEF Headed
<1>6. \A o : o # 0 => g[o] = d[o]
  <2> SUFFICES ASSUME NEW o, o # 0 PROVE g[o] = d[o]
    OBVIOUS
  <2>1. CASE o \in DOMAIN d
    BY <1>0, <2>1 DEF Headed
  <2>2. CASE o \notin DOMAIN d
    BY <1>0, <1>5, <2>2 DEF Headed
  <2> QED
    BY <2>1, <2>2
<1>7. IsFile(g)
  BY <1>1, <1>3, <1>5 DEF IsFile
<1>8. CellsAre(g, s, plan, k)
  <2>1. ASSUME NEW p \in 0 .. LayoutPositions(h) - 1
        PROVE  /\ g[OffVectors(h) + p] = d[OffVectors(h) + p] /\ g[OffIds(h) + p] = d[OffIds(h) + p]
               /\ g[OffIndex(h) + p] = d[OffIndex(h) + p] /\ g[OffTombstones(h) + p] = d[OffTombstones(h) + p]
    <3>1. /\ OffVectors(h) + p # 0 /\ OffIds(h) + p # 0 /\ OffIndex(h) + p # 0 /\ OffTombstones(h) + p # 0
      BY <1>2
    <3> QED
      BY <1>6, <3>1
  <2> QED
    BY <1>1, <2>1 DEF CellsAre
<1> QED
  BY <1>0, <1>1, <1>5, <1>7, <1>8 DEF Written, Alike

\* The build in place leaves in every section what the plan says: the rest of the base's cells stay.
LEMMA InPlaceWritten ==
    ASSUME NEW f, NEW changes, NEW s, NEW plan, Builds(f, changes, s, plan),
           f[0].roomy, plan.count <= f[0].capacity, NEW written, written = InPlace(f, plan)
    PROVE  /\ Written(written, s, plan)
           /\ written[0].roomy = f[0].roomy /\ written[0].capacity = f[0].capacity
<1>1. /\ IsFile(f) /\ IsHeader(f[0]) /\ IsPlan(f, plan)
      /\ s.count = f[0].count /\ s.count \in Nat \ {0} /\ Len(plan.new) \in Nat
      /\ plan.count = s.count + Len(plan.new) /\ plan.count \in Nat \ {0}
      /\ plan.tombstones \in Nat
  BY BuildIs
<1>2. PICK n \in Nat, m \in Nat : n = s.count /\ m = Len(plan.new) /\ n # 0 /\ plan.count = n + m
  BY <1>1
<1>3. PICK h : h = [f[0] EXCEPT !.count = plan.count, !.indexed = plan.indexed, !.tombstones = plan.tombstones]
  OBVIOUS
<1>4. /\ h.count = plan.count /\ h.indexed = plan.indexed /\ h.tombstones = plan.tombstones
      /\ h.roomy = f[0].roomy /\ h.capacity = f[0].capacity /\ IsHeader(h)
  <2>1. PICK g : g = f[0]
    OBVIOUS
  <2>2. h = [g EXCEPT !.count = plan.count, !.indexed = plan.indexed, !.tombstones = plan.tombstones]
    BY <1>3, <2>1
  <2>3. g \in [count : Nat, roomy : {g.roomy}, capacity : Nat, indexed : {g.indexed},
               tombstones : Nat, sum : {g.sum}]
    BY <1>1, <2>1 DEF IsHeader
  <2>4. h = [count |-> plan.count, roomy |-> g.roomy, capacity |-> g.capacity, indexed |-> plan.indexed,
             tombstones |-> plan.tombstones, sum |-> g.sum]
    BY <2>2, <2>3
  <2>5. plan.count \in Nat /\ g.capacity \in Nat
    BY <1>1, <2>3
  <2>6. IsHeader(h)
    BY <1>1, <2>4, <2>5 DEF IsHeader
  <2> QED
    BY <2>1, <2>4, <2>6
<1>5. /\ LayoutPositions(h) = LayoutPositions(f[0]) /\ OffVectors(h) = OffVectors(f[0])
      /\ OffIds(h) = OffIds(f[0]) /\ OffIndex(h) = OffIndex(f[0]) /\ OffTombstones(h) = OffTombstones(f[0])
      /\ TotalCells(h) = TotalCells(f[0]) /\ HasIndex(h) = HasIndex(f[0])
      /\ HasTombstones(h) = HasTombstones(f[0])
  BY <1>4 DEF LayoutPositions, OffVectors, OffIds, OffIndex, OffTombstones, TotalCells, HasIndex, HasTombstones
<1>6. n + m <= LayoutPositions(h)
  BY <1>2, <1>4 DEF LayoutPositions
<1>7. HasCells(f, h)
  BY <1>1, <1>5 DEF HasCells, IsFile
<1>8. PICK merged, bits : merged = MergedIndex(s, plan.new) /\ bits = TombstoneCells(plan, s.count)
  OBVIOUS
<1>9. DOMAIN merged = 1 .. n + m /\ bits = [k \in 1 .. n |-> IF k - 1 \in plan.dead THEN 1 ELSE 0]
  BY <1>2, <1>8 DEF MergedIndex, TombstoneCells
<1>10. PICK rows, new : rows = plan.rows /\ new = plan.new
  OBVIOUS
<1>11. DOMAIN rows = 1 .. m /\ DOMAIN new = 1 .. m
  BY <1>1, <1>2, <1>10 DEF IsPlan
<1>12. PICK d : d = Layers(f, h, n, rows, new, merged, bits)
  OBVIOUS
<1>13. written = [d EXCEPT ![0] = h]
  <2>1. s = Opened(f)
    BY DEF Builds
  <2> QED
    BY <1>2, <1>3, <1>4, <1>8, <1>10, <1>12, <2>1 DEF InPlace, Layers
<1>14. LayersLie(f, h, n, m, n, rows, new, merged, bits, d)
  <2>1. LayersFit(f, h, n, m, n, rows, new, merged, bits)
    BY <1>6, <1>7, <1>9, <1>11 DEF LayersFit
  <2> QED
    BY <1>4, <1>12, <2>1, LayersAre
<1>15. CellsAre(d, s, plan, h)
  <2>1. ASSUME NEW p \in 0 .. LayoutPositions(h) - 1
        PROVE  /\ d[OffVectors(h) + p] = VectorCell(s, plan, p)
               /\ d[OffIds(h) + p] = IdCell(s, plan, p)
               /\ HasIndex(h) => d[OffIndex(h) + p] = IndexCell(s, plan, p)
               /\ HasTombstones(h) => d[OffTombstones(h) + p] = TombstoneCell(s, plan, p)
    <3>1. p \in Nat
      BY <1>4, LayoutIs
    <3>2. /\ n <= p => f[OffVectors(h) + p] = 0 /\ f[OffIds(h) + p] = 0
          /\ HasIndex(h) /\ ~(f[0].indexed /\ p < n) => f[OffIndex(h) + p] = 0
          /\ HasTombstones(h) /\ ~(f[0].tombstones > 0 /\ p < n) => f[OffTombstones(h) + p] = 0
      BY <1>1, <1>2, <1>5, <2>1 DEF Builds, Clean
    <3>3. p < n => s.vectors[p] = f[OffVectors(h) + p] /\ s.ids[p] = f[OffIds(h) + p]
      <4>1. /\ s.vectors = [q \in Places(s) |-> f[OffVectors(f[0]) + q]]
            /\ s.ids = [q \in Places(s) |-> f[OffIds(f[0]) + q]]
        BY <1>1, OpenedIs DEF Builds
      <4>2. p < n => p \in Places(s)
        BY <1>2, <3>1 DEF Places
      <4> QED
        BY <1>5, <4>1, <4>2
    <3>4. d[OffVectors(h) + p] = VectorCell(s, plan, p)
      <4>1. d[OffVectors(h) + p] = IF n <= p /\ p < n + m THEN rows[p - n + 1] ELSE f[OffVectors(h) + p]
        BY <1>14, <2>1 DEF LayersLie
      <4>2. CASE p < n
        BY <1>2, <3>1, <3>3, <4>1, <4>2 DEF VectorCell
      <4>3. CASE n <= p /\ p < n + m
        BY <1>2, <1>10, <3>1, <4>1, <4>3 DEF VectorCell
      <4>4. CASE n + m <= p
        <5>1. n <= p
          BY <3>1, <4>4
        <5> QED
          BY <1>2, <3>1, <3>2, <4>1, <4>4, <5>1 DEF VectorCell
      <4> QED
        BY <3>1, <4>2, <4>3, <4>4
    <3>5. d[OffIds(h) + p] = IdCell(s, plan, p)
      <4>1. d[OffIds(h) + p] = IF n <= p /\ p < n + m THEN new[p - n + 1] ELSE f[OffIds(h) + p]
        BY <1>14, <2>1 DEF LayersLie
      <4>2. CASE p < n
        BY <1>2, <3>1, <3>3, <4>1, <4>2 DEF IdCell
      <4>3. CASE n <= p /\ p < n + m
        BY <1>2, <1>10, <3>1, <4>1, <4>3 DEF IdCell
      <4>4. CASE n + m <= p
        <5>1. n <= p
          BY <3>1, <4>4
        <5> QED
          BY <1>2, <3>1, <3>2, <4>1, <4>4, <5>1 DEF IdCell
      <4> QED
        BY <3>1, <4>2, <4>3, <4>4
    <3>6. HasIndex(h) => d[OffIndex(h) + p] = IndexCell(s, plan, p)
      <4>1. SUFFICES ASSUME HasIndex(h) PROVE d[OffIndex(h) + p] = IndexCell(s, plan, p)
        OBVIOUS
      <4>2. d[OffIndex(h) + p] = IF h.indexed /\ p < n + m THEN merged[p + 1] ELSE f[OffIndex(h) + p]
        BY <1>14, <2>1, <4>1 DEF LayersLie
      <4>3. CASE h.indexed /\ p < n + m
        BY <1>2, <1>4, <1>8, <4>2, <4>3 DEF IndexCell
      <4>4. CASE ~(h.indexed /\ p < n + m)
        <5>1. ~(f[0].indexed /\ p < n)
          BY <1>4, <3>1, <4>4 DEF Builds
        <5>2. f[OffIndex(h) + p] = 0
          BY <3>2, <4>1, <5>1
        <5> QED
          BY <1>2, <1>4, <4>2, <4>4, <5>2 DEF IndexCell
      <4> QED
        BY <4>3, <4>4
    <3>7. HasTombstones(h) => d[OffTombstones(h) + p] = TombstoneCell(s, plan, p)
      <4>1. SUFFICES ASSUME HasTombstones(h) PROVE d[OffTombstones(h) + p] = TombstoneCell(s, plan, p)
        OBVIOUS
      <4>2. d[OffTombstones(h) + p] = IF h.tombstones > 0 /\ p < n THEN bits[p + 1] ELSE f[OffTombstones(h) + p]
        BY <1>14, <2>1, <4>1 DEF LayersLie
      <4>3. CASE h.tombstones > 0 /\ p < n
        <5>1. p + 1 \in 1 .. n /\ (p + 1) - 1 = p
          BY <3>1, <4>3
        <5>2. bits[p + 1] = IF p \in plan.dead THEN 1 ELSE 0
          BY <1>9, <5>1
        <5> QED
          BY <1>2, <1>4, <4>2, <4>3, <5>2 DEF TombstoneCell
      <4>4. CASE ~(h.tombstones > 0 /\ p < n)
        <5>1. ~(f[0].tombstones > 0 /\ p < n)
          <6>1. CASE p < n
            <7>1. plan.tombstones = 0
              BY <1>1, <1>4, <4>4, <6>1
            <7>2. f[0].tombstones = 0
              BY <7>1 DEF Builds
            <7> QED
              BY <7>2
          <6> QED
            BY <6>1
        <5>2. f[OffTombstones(h) + p] = 0
          BY <3>2, <4>1, <5>1
        <5> QED
          BY <1>2, <1>4, <4>2, <4>4, <5>2 DEF TombstoneCell
      <4> QED
        BY <4>3, <4>4
    <3> QED
      BY <3>4, <3>5, <3>6, <3>7
  <2> QED
    BY <2>1 DEF CellsAre
<1>16. HasCells(d, h) /\ plan.count <= LayoutPositions(h) /\ Alike(h, h)
  BY <1>2, <1>6, <1>7, <1>14 DEF HasCells, Alike, LayersLie
<1>17. d = [o \in DOMAIN d |-> d[o]]
  BY <1>14 DEF LayersLie
<1>18. Written(Headed(d, h), s, plan) /\ Headed(d, h)[0] = h
  BY <1>4, <1>15, <1>16, <1>17, HeaderOver
<1> QED
  BY <1>4, <1>13, <1>18 DEF Headed

\* The cells of two runs, one behind the other.
LEMMA JoinedAt ==
    ASSUME NEW n \in Nat, NEW m \in Nat, NEW c, c = [k \in 1 .. n |-> c[k]], NEW d, d = [k \in 1 .. m |-> d[k]],
           NEW e, e = c \o d
    PROVE  /\ DOMAIN e = 1 .. n + m
           /\ \A k \in 1 .. n : e[k] = c[k]
           /\ \A k \in 1 .. m : e[n + k] = d[k]
<1> DEFINE S == {c[k] : k \in 1 .. n} \cup {d[k] : k \in 1 .. m}
<1>1. c \in [1 .. n -> S] /\ d \in [1 .. m -> S]
  BY Zenon
<1> HIDE DEF S
<1>2. c \in Seq(S) /\ Len(c) = n /\ d \in Seq(S) /\ Len(d) = m
  BY <1>1
<1>3. DOMAIN e = 1 .. n + m
  BY JoinedCells
<1>4. \A i \in 1 .. n + m : e[i] = IF i <= n THEN c[i] ELSE d[i - n]
  BY <1>2, ConcatProperties
<1>5. ASSUME NEW k \in 1 .. n PROVE e[k] = c[k]
  <2>1. k \in 1 .. n + m /\ k <= n
    OBVIOUS
  <2> QED
    BY <1>4, <2>1
<1>6. ASSUME NEW k \in 1 .. m PROVE e[n + k] = d[k]
  <2>1. PICK i \in Nat : i = n + k
    OBVIOUS
  <2>2. i \in 1 .. n + m /\ ~(i <= n) /\ i - n = k
    BY <2>1
  <2> QED
    BY <1>4, <2>1, <2>2
<1> QED
  BY <1>3, <1>5, <1>6

\* The sum of a header says nothing of its layout.
LEMMA SumIsAlike ==
    ASSUME NEW h, IsHeader(h), NEW x, NEW k, k = [h EXCEPT !.sum = x]
    PROVE  IsHeader(k) /\ Alike(h, k) /\ k.sum = x
<1>1. h \in [count : Nat, roomy : {h.roomy}, capacity : Nat, indexed : {h.indexed}, tombstones : Nat, sum : {h.sum}]
  BY DEF IsHeader
<1>2. /\ k.count = h.count /\ k.roomy = h.roomy /\ k.capacity = h.capacity
      /\ k.indexed = h.indexed /\ k.tombstones = h.tombstones /\ k.sum = x
  BY <1>1
<1>3. k = [count |-> h.count, roomy |-> h.roomy, capacity |-> h.capacity, indexed |-> h.indexed,
           tombstones |-> h.tombstones, sum |-> x]
  BY <1>1
<1>4. h.count \in Nat /\ h.capacity \in Nat /\ h.tombstones \in Nat
  BY <1>1
<1>5. IsHeader(k)
  BY <1>2, <1>3, <1>4 DEF IsHeader
<1> QED
  BY <1>2, <1>5 DEF Alike

\* A new layout has room for every position.
LEMMA CapacityIs ==
    ASSUME NEW f, f[0].capacity \in Nat, NEW plan, plan.count \in Nat, NEW percent \in Growths, NEW upperRoom,
           NEW capacity, capacity = CopyCapacity(f, plan, percent, upperRoom)
    PROVE  capacity \in Nat /\ (capacity > 0 => plan.count <= capacity)
<1>1. PICK c \in Nat : c = plan.count
  OBVIOUS
<1>2. GrowthRows(c, percent) \in Nat
  BY GrowthIs
<1>3. CASE LayoutFits(f, plan, upperRoom)
  BY <1>1, <1>3 DEF CopyCapacity, LayoutFits
<1>4. CASE ~LayoutFits(f, plan, upperRoom)
  BY <1>1, <1>2, <1>4 DEF CopyCapacity
<1> QED
  BY <1>3, <1>4

\* A sealed file holds what was written.
LEMMA SealedWritten ==
    ASSUME NEW s, NEW plan, NEW h, IsHeader(h), h.count = plan.count, h.indexed = plan.indexed,
           h.tombstones = plan.tombstones, plan.count <= LayoutPositions(h),
           NEW d, HasCells(d, h), d = [o \in DOMAIN d |-> d[o]], d[0] = h, CellsAre(d, s, plan, h)
    PROVE  Written(Sealed(d), s, plan) /\ Alike(h, Sealed(d)[0])
<1>1. PICK x : x = Checksum(d)
  OBVIOUS
<1>2. PICK k : k = [h EXCEPT !.sum = x]
  OBVIOUS
<1>3. IsHeader(k) /\ Alike(h, k)
  BY <1>2, SumIsAlike
<1>4. Sealed(d) = Headed(d, k)
  BY <1>1, <1>2 DEF Sealed, Headed
<1>5. Written(Headed(d, k), s, plan) /\ Headed(d, k)[0] = k
  BY <1>3, HeaderOver
<1> QED
  BY <1>3, <1>4, <1>5

\* An empty file of a layout: 0 wherever a section has cells.
LEMMA AllocatedAt ==
    ASSUME NEW h, IsHeader(h)
    PROVE  /\ HasCells(Allocated(h), h) /\ Allocated(h)[0] = h
           /\ \A p \in 0 .. LayoutPositions(h) - 1 :
                 /\ Allocated(h)[OffVectors(h) + p] = 0 /\ Allocated(h)[OffIds(h) + p] = 0
                 /\ HasIndex(h) => Allocated(h)[OffIndex(h) + p] = 0
                 /\ HasTombstones(h) => Allocated(h)[OffTombstones(h) + p] = 0
<1>1. PICK L \in Nat, V \in Nat, I \in Nat, X \in Nat, T \in Nat, size \in Nat :
         /\ L = LayoutPositions(h) /\ V = OffVectors(h) /\ I = OffIds(h) /\ X = OffIndex(h)
         /\ T = OffTombstones(h) /\ size = TotalCells(h)
         /\ V = 1 /\ I = V + L /\ X = I + L
         /\ X <= T /\ T <= size
         /\ HasIndex(h) => T = X + L
         /\ HasTombstones(h) => size = T + L
  BY SectionsAre
<1>2. PICK a : a = Allocated(h)
  OBVIOUS
<1>3. DOMAIN a = 0 .. size - 1 /\ \A o \in 1 .. size - 1 : a[o] = 0
  BY <1>1, <1>2 DEF Allocated
<1>4. ASSUME NEW p \in 0 .. L - 1
      PROVE  /\ a[V + p] = 0 /\ a[I + p] = 0
             /\ HasIndex(h) => a[X + p] = 0
             /\ HasTombstones(h) => a[T + p] = 0
  <2>1. V + p \in 1 .. size - 1 /\ I + p \in 1 .. size - 1
    BY <1>1
  <2>2. HasIndex(h) => X + p \in 1 .. size - 1
    BY <1>1
  <2>3. HasTombstones(h) => T + p \in 1 .. size - 1
    BY <1>1
  <2> QED
    BY <1>3, <2>1, <2>2, <2>3
<1>5. HasCells(a, h)
  BY <1>1, <1>3 DEF HasCells
<1> QED
  BY <1>1, <1>2, <1>4, <1>5, AllocatedIs

\* A section's cells in the order they are written.
CellsOf(s, section) == [k \in 1 .. s.count |-> section[k - 1]]

\* So does the copying build, in whatever layout it chooses.
LEMMA CopiedWritten ==
    ASSUME NEW f, NEW changes, NEW s, NEW plan, Builds(f, changes, s, plan), NEW percent \in Growths,
           NEW upperRoom
    PROVE  LET g == Copied(f, plan, percent, upperRoom)
               capacity == CopyCapacity(f, plan, percent, upperRoom)
           IN  Written(g, s, plan) /\ g[0].capacity = capacity /\ g[0].roomy = (capacity > 0)
<1>22. PICK g : g = Copied(f, plan, percent, upperRoom)
  OBVIOUS
<1>23. PICK capacity : capacity = CopyCapacity(f, plan, percent, upperRoom)
  OBVIOUS
<1>1. /\ IsFile(f) /\ IsHeader(f[0]) /\ IsPlan(f, plan)
      /\ s.count = f[0].count /\ s.count \in Nat \ {0} /\ Len(plan.new) \in Nat
      /\ plan.count = s.count + Len(plan.new) /\ plan.count \in Nat \ {0}
      /\ plan.tombstones \in Nat
  BY BuildIs
<1>2. PICK n \in Nat, m \in Nat, c \in Nat : n = s.count /\ m = Len(plan.new) /\ n # 0 /\ c = n + m
                                             /\ plan.count = c
  BY <1>1
<1>3. capacity \in Nat /\ (capacity > 0 => c <= capacity)
  <2>1. f[0].capacity \in Nat
    BY <1>1 DEF IsHeader
  <2> QED
    BY <1>2, <1>23, <2>1, CapacityIs
<1>4. PICK h : h = [count |-> plan.count, roomy |-> capacity > 0, capacity |-> capacity,
                    indexed |-> plan.indexed, tombstones |-> plan.tombstones, sum |-> {}]
  OBVIOUS
<1>5. /\ h.count = plan.count /\ h.indexed = plan.indexed /\ h.tombstones = plan.tombstones
      /\ h.roomy = (capacity > 0) /\ h.capacity = capacity /\ IsHeader(h)
  BY <1>1, <1>2, <1>3, <1>4 DEF IsHeader
<1>6. c <= LayoutPositions(h)
  <2>1. CASE capacity > 0
    <3>1. h.roomy
      BY <1>5, <2>1
    <3> QED
      BY <1>3, <1>5, <2>1, <3>1 DEF LayoutPositions
  <2>2. CASE ~(capacity > 0)
    <3>1. ~h.roomy
      BY <1>5, <2>2
    <3> QED
      BY <1>2, <1>5, <3>1 DEF LayoutPositions
  <2> QED
    BY <2>1, <2>2
<1>7. PICK merged, bits : merged = MergedIndex(s, plan.new) /\ bits = TombstoneCells(plan, s.count)
  OBVIOUS
<1>8. DOMAIN merged = 1 .. c /\ bits = [k \in 1 .. n |-> IF k - 1 \in plan.dead THEN 1 ELSE 0]
  BY <1>2, <1>7 DEF MergedIndex, TombstoneCells
<1>9. PICK oldRows, oldIds : oldRows = CellsOf(s, s.vectors) /\ oldIds = CellsOf(s, s.ids)
  OBVIOUS
<1>21. PICK rows, ids : rows = oldRows \o plan.rows /\ ids = oldIds \o plan.new
  OBVIOUS
<1>10. /\ DOMAIN rows = 1 .. c /\ \A k \in 1 .. n : rows[k] = s.vectors[k - 1]
       /\ \A k \in 1 .. m : rows[n + k] = plan.rows[k]
  <2>1. oldRows = [k \in 1 .. n |-> s.vectors[k - 1]]
    BY <1>2, <1>9 DEF CellsOf
  <2>2. oldRows = [k \in 1 .. n |-> oldRows[k]]
    BY <2>1
  <2>3. PICK new : new = plan.rows
    OBVIOUS
  <2>4. new = [k \in 1 .. m |-> new[k]]
    BY <1>1, <1>2, <2>3 DEF IsPlan
  <2>5. /\ DOMAIN rows = 1 .. n + m
        /\ \A k \in 1 .. n : rows[k] = oldRows[k]
        /\ \A k \in 1 .. m : rows[n + k] = new[k]
    BY <1>21, <2>2, <2>3, <2>4, JoinedAt
  <2> QED
    BY <1>2, <2>1, <2>3, <2>5
<1>11. /\ DOMAIN ids = 1 .. c /\ \A k \in 1 .. n : ids[k] = s.ids[k - 1]
       /\ \A k \in 1 .. m : ids[n + k] = plan.new[k]
  <2>1. oldIds = [k \in 1 .. n |-> s.ids[k - 1]]
    BY <1>2, <1>9 DEF CellsOf
  <2>2. oldIds = [k \in 1 .. n |-> oldIds[k]]
    BY <2>1
  <2>3. PICK new : new = plan.new
    OBVIOUS
  <2>4. new = [k \in 1 .. m |-> new[k]]
    BY <1>1, <1>2, <2>3 DEF IsPlan
  <2>5. /\ DOMAIN ids = 1 .. n + m
        /\ \A k \in 1 .. n : ids[k] = oldIds[k]
        /\ \A k \in 1 .. m : ids[n + k] = new[k]
    BY <1>21, <2>2, <2>3, <2>4, JoinedAt
  <2> QED
    BY <1>2, <2>1, <2>3, <2>5
<1>12. PICK a : a = Allocated(h)
  OBVIOUS
<1>13. /\ HasCells(a, h) /\ a[0] = h
       /\ \A p \in 0 .. LayoutPositions(h) - 1 :
             /\ a[OffVectors(h) + p] = 0 /\ a[OffIds(h) + p] = 0
             /\ HasIndex(h) => a[OffIndex(h) + p] = 0
             /\ HasTombstones(h) => a[OffTombstones(h) + p] = 0
  BY <1>5, <1>12, AllocatedAt
<1>14. PICK zero \in Nat : zero = 0
  OBVIOUS
<1>15. PICK d : d = Layers(a, h, zero, rows, ids, merged, bits)
  OBVIOUS
<1>16. g = Sealed(d)
  <2>1. s = Opened(f)
    BY DEF Builds
  <2>2. OffVectors(h) + zero = OffVectors(h) /\ OffIds(h) + zero = OffIds(h)
    BY <1>5, <1>14, LayoutIs
  <2>3. d = LET rs == Put(a, OffVectors(h), rows)
                named == Put(rs, OffIds(h), ids)
                index == IF plan.indexed THEN Put(named, OffIndex(h), merged) ELSE named
            IN  IF plan.tombstones > 0 THEN Put(index, OffTombstones(h), bits) ELSE index
    BY <1>5, <1>15, <2>2 DEF Layers
  <2> QED
    BY <1>4, <1>7, <1>9, <1>12, <1>21, <1>22, <1>23, <2>1, <2>3 DEF Copied, CellsOf
<1>17. LayersLie(a, h, zero, c, n, rows, ids, merged, bits, d)
  <2>1. LayersFit(a, h, zero, c, n, rows, ids, merged, bits)
    <3>1. zero + c = c /\ n <= c
      BY <1>2, <1>14
    <3> QED
      BY <1>6, <1>8, <1>10, <1>11, <1>13, <3>1 DEF LayersFit
  <2> QED
    BY <1>5, <1>15, <2>1, LayersAre
<1>18. CellsAre(d, s, plan, h)
  <2>1. ASSUME NEW p \in 0 .. LayoutPositions(h) - 1
        PROVE  /\ d[OffVectors(h) + p] = VectorCell(s, plan, p)
               /\ d[OffIds(h) + p] = IdCell(s, plan, p)
               /\ HasIndex(h) => d[OffIndex(h) + p] = IndexCell(s, plan, p)
               /\ HasTombstones(h) => d[OffTombstones(h) + p] = TombstoneCell(s, plan, p)
    <3>1. p \in Nat
      BY <1>5, LayoutIs
    <3>2. /\ a[OffVectors(h) + p] = 0 /\ a[OffIds(h) + p] = 0
          /\ HasIndex(h) => a[OffIndex(h) + p] = 0
          /\ HasTombstones(h) => a[OffTombstones(h) + p] = 0
      BY <1>13, <2>1
    <3>3. (zero <= p /\ p < zero + c <=> p < c) /\ p - zero + 1 = p + 1
      BY <1>14, <3>1
    <3>4. /\ d[OffVectors(h) + p] =
                IF zero <= p /\ p < zero + c THEN rows[p - zero + 1] ELSE a[OffVectors(h) + p]
          /\ d[OffIds(h) + p] = IF zero <= p /\ p < zero + c THEN ids[p - zero + 1] ELSE a[OffIds(h) + p]
          /\ HasIndex(h) =>
                d[OffIndex(h) + p] = IF h.indexed /\ p < zero + c THEN merged[p + 1] ELSE a[OffIndex(h) + p]
          /\ HasTombstones(h) =>
                d[OffTombstones(h) + p] =
                   IF h.tombstones > 0 /\ p < n THEN bits[p + 1] ELSE a[OffTombstones(h) + p]
      BY <1>17, <2>1 DEF LayersLie
    <3>5. /\ d[OffVectors(h) + p] = IF p < c THEN rows[p + 1] ELSE 0
          /\ d[OffIds(h) + p] = IF p < c THEN ids[p + 1] ELSE 0
          /\ HasIndex(h) => d[OffIndex(h) + p] = IF h.indexed /\ p < c THEN merged[p + 1] ELSE 0
          /\ HasTombstones(h) =>
                d[OffTombstones(h) + p] = IF h.tombstones > 0 /\ p < n THEN bits[p + 1] ELSE 0
      <4>1. p < zero + c <=> p < c
        BY <1>14
      <4> QED
        BY <3>2, <3>3, <3>4, <4>1
    <3>6. d[OffVectors(h) + p] = VectorCell(s, plan, p) /\ d[OffIds(h) + p] = IdCell(s, plan, p)
      <4>1. CASE p < n
        <5>1. p + 1 \in 1 .. n /\ (p + 1) - 1 = p /\ p < c
          BY <1>2, <3>1, <4>1
        <5> QED
          BY <1>2, <1>10, <1>11, <3>5, <4>1, <5>1 DEF VectorCell, IdCell
      <4>2. CASE n <= p /\ p < c
        <5>1. PICK k \in Nat : k = p - n + 1
          BY <3>1, <4>2
        <5>2. k \in 1 .. m /\ p + 1 = n + k /\ ~(p < n)
          BY <1>2, <3>1, <4>2, <5>1
        <5>3. rows[p + 1] = plan.rows[k] /\ ids[p + 1] = plan.new[k]
          BY <1>10, <1>11, <5>2
        <5> QED
          BY <1>2, <3>5, <4>2, <5>1, <5>2, <5>3 DEF VectorCell, IdCell
      <4>3. CASE c <= p
        <5>1. ~(p < n) /\ ~(p < c)
          BY <1>2, <3>1, <4>3
        <5> QED
          BY <1>2, <3>5, <5>1 DEF VectorCell, IdCell
      <4> QED
        BY <3>1, <4>1, <4>2, <4>3
    <3>7. HasIndex(h) => d[OffIndex(h) + p] = IndexCell(s, plan, p)
      BY <1>2, <1>5, <1>7, <3>5 DEF IndexCell
    <3>8. HasTombstones(h) => d[OffTombstones(h) + p] = TombstoneCell(s, plan, p)
      <4>1. CASE h.tombstones > 0 /\ p < n
        <5>1. p + 1 \in 1 .. n /\ (p + 1) - 1 = p
          BY <3>1, <4>1
        <5>2. bits[p + 1] = IF p \in plan.dead THEN 1 ELSE 0
          BY <1>8, <5>1
        <5> QED
          BY <1>2, <1>5, <3>5, <4>1, <5>2 DEF TombstoneCell
      <4>2. CASE ~(h.tombstones > 0 /\ p < n)
        BY <1>2, <1>5, <3>5, <4>2 DEF TombstoneCell
      <4> QED
        BY <4>1, <4>2
    <3> QED
      BY <3>6, <3>7, <3>8
  <2> QED
    BY <2>1 DEF CellsAre
<1>19. HasCells(d, h) /\ plan.count <= LayoutPositions(h) /\ d = [o \in DOMAIN d |-> d[o]] /\ d[0] = h
  BY <1>2, <1>6, <1>13, <1>17 DEF HasCells, LayersLie
<1>20. Written(Sealed(d), s, plan) /\ Alike(h, Sealed(d)[0])
  BY <1>5, <1>18, <1>19, SealedWritten
<1> QED
  BY <1>5, <1>16, <1>20, <1>22, <1>23 DEF Alike

------------------------------------------------------------------------------
(* The full build *)

\* The file of a full build, by a name.
IsFullFile(g, changes, percent) == g = FullFile(changes, percent)

\* And a full build: its file opens as the rows it was given, in the order of their ids.
LEMMA FullWritten ==
    ASSUME NEW changes \in Batches, Given(changes) # {}, NEW percent \in Growths,
           NEW g, IsFullFile(g, changes, percent), NEW new, new = Sorted(Given(changes))
    PROVE  /\ Clean(g) /\ g[0].tombstones = 0 /\ ~g[0].indexed /\ g[0].roomy \in BOOLEAN
           /\ Len(new) \in Nat \ {0} /\ g[0].count = Len(new)
           /\ Opened(g).vectors = [p \in Places(Opened(g)) |-> changes[new[p + 1]]]
           /\ Opened(g).ids = [p \in Places(Opened(g)) |-> new[p + 1]]
<1>1. Given(changes) \in SUBSET Ids
  BY DEF Given
<1>2. PICK n \in Nat \ {0} : n = Len(new) /\ new = [k \in 1 .. n |-> new[k]] /\ DOMAIN new = 1 .. n
  BY <1>1, SortedIds
<1>3. PICK slack \in Nat : slack = GrowthRows(n, percent)
  BY <1>2, GrowthIs
<1>4. PICK capacity \in Nat : capacity = IF slack > 0 THEN n + slack ELSE 0
  BY <1>2, <1>3
<1>5. PICK h : h = [count |-> n, roomy |-> slack > 0, capacity |-> capacity,
                    indexed |-> FALSE, tombstones |-> 0, sum |-> {}]
  OBVIOUS
<1>6. /\ h.count = n /\ h.indexed = FALSE /\ h.tombstones = 0
      /\ h.roomy = (slack > 0) /\ h.capacity = capacity /\ IsHeader(h)
  BY <1>2, <1>4, <1>5 DEF IsHeader
<1>7. n <= LayoutPositions(h)
  <2>1. CASE slack > 0
    <3>1. h.roomy /\ n <= capacity
      <4>1. capacity = n + slack
        BY <1>4, <2>1
      <4>2. h.roomy
        BY <1>6, <2>1
      <4> QED
        BY <4>1, <4>2
    <3> QED
      BY <1>6, <3>1 DEF LayoutPositions
  <2>2. CASE ~(slack > 0)
    <3>1. ~h.roomy
      BY <1>6, <2>2
    <3> QED
      BY <1>2, <1>6, <3>1 DEF LayoutPositions
  <2> QED
    BY <2>1, <2>2
<1>8. PICK rows : rows = [k \in 1 .. n |-> changes[new[k]]]
  OBVIOUS
<1>9. PICK none : none = <<>>
  OBVIOUS
<1>24. PICK s : s = [count |-> 0]
  OBVIOUS
<1>25. PICK plan : plan = [new |-> new, rows |-> rows, count |-> n, indexed |-> FALSE, tombstones |-> 0]
  OBVIOUS
<1>10. /\ s.count = 0 /\ plan.new = new /\ plan.rows = rows /\ plan.count = n
       /\ plan.indexed = FALSE /\ plan.tombstones = 0
  BY <1>24, <1>25
<1>11. PICK a : a = Allocated(h)
  OBVIOUS
<1>12. /\ HasCells(a, h) /\ a[0] = h
       /\ \A p \in 0 .. LayoutPositions(h) - 1 :
             /\ a[OffVectors(h) + p] = 0 /\ a[OffIds(h) + p] = 0
             /\ HasIndex(h) => a[OffIndex(h) + p] = 0
             /\ HasTombstones(h) => a[OffTombstones(h) + p] = 0
  BY <1>6, <1>11, AllocatedAt
<1>13. PICK zero \in Nat : zero = 0
  OBVIOUS
<1>14. PICK d : d = Layers(a, h, zero, rows, new, none, none)
  OBVIOUS
<1>15. g = Sealed(d)
  <2>1. OffVectors(h) + zero = OffVectors(h) /\ OffIds(h) + zero = OffIds(h)
    BY <1>6, <1>13, LayoutIs
  <2>2. ~h.indexed /\ ~(h.tombstones > 0)
    BY <1>6
  <2>3. d = Put(Put(a, OffVectors(h), rows), OffIds(h), new)
    BY <1>14, <2>1, <2>2 DEF Layers
  <2>4. h = [count |-> n, roomy |-> slack > 0, capacity |-> IF slack > 0 THEN n + slack ELSE 0,
             indexed |-> FALSE, tombstones |-> 0, sum |-> {}]
    BY <1>4, <1>5
  <2>5. g = Sealed(Put(Put(Allocated(h), OffVectors(h), [k \in 1 .. n |-> changes[new[k]]]), OffIds(h), new))
    BY <1>2, <1>3, <2>4 DEF FullFile, IsFullFile
  <2> QED
    BY <1>8, <1>11, <2>3, <2>5
<1>16. LayersLie(a, h, zero, n, n, rows, new, none, none, d)
  <2>1. LayersFit(a, h, zero, n, n, rows, new, none, none)
    <3>1. zero + n = n /\ ~h.indexed /\ ~(h.tombstones > 0)
      BY <1>6, <1>13
    <3>2. DOMAIN rows = 1 .. n
      BY <1>8
    <3> QED
      BY <1>2, <1>7, <1>12, <3>1, <3>2 DEF LayersFit
  <2> QED
    BY <1>6, <1>14, <2>1, LayersAre
<1>17. CellsAre(d, s, plan, h)
  <2>1. ASSUME NEW p \in 0 .. LayoutPositions(h) - 1
        PROVE  /\ d[OffVectors(h) + p] = VectorCell(s, plan, p)
               /\ d[OffIds(h) + p] = IdCell(s, plan, p)
               /\ HasIndex(h) => d[OffIndex(h) + p] = IndexCell(s, plan, p)
               /\ HasTombstones(h) => d[OffTombstones(h) + p] = TombstoneCell(s, plan, p)
    <3>1. p \in Nat
      BY <1>6, LayoutIs
    <3>2. /\ a[OffVectors(h) + p] = 0 /\ a[OffIds(h) + p] = 0
          /\ HasIndex(h) => a[OffIndex(h) + p] = 0
          /\ HasTombstones(h) => a[OffTombstones(h) + p] = 0
      BY <1>12, <2>1
    <3>3. /\ d[OffVectors(h) + p] =
                IF zero <= p /\ p < zero + n THEN rows[p - zero + 1] ELSE a[OffVectors(h) + p]
          /\ d[OffIds(h) + p] = IF zero <= p /\ p < zero + n THEN new[p - zero + 1] ELSE a[OffIds(h) + p]
          /\ HasIndex(h) =>
                d[OffIndex(h) + p] = IF h.indexed /\ p < zero + n THEN none[p + 1] ELSE a[OffIndex(h) + p]
          /\ HasTombstones(h) =>
                d[OffTombstones(h) + p] =
                   IF h.tombstones > 0 /\ p < n THEN none[p + 1] ELSE a[OffTombstones(h) + p]
      BY <1>16, <2>1 DEF LayersLie
    <3>4. (zero <= p /\ p < zero + n <=> p < n) /\ p - zero + 1 = p - s.count + 1 /\ ~(p < s.count)
      BY <1>10, <1>13, <3>1
    <3>5. d[OffVectors(h) + p] = VectorCell(s, plan, p)
      BY <1>10, <3>2, <3>3, <3>4 DEF VectorCell
    <3>6. d[OffIds(h) + p] = IdCell(s, plan, p)
      BY <1>10, <3>2, <3>3, <3>4 DEF IdCell
    <3>7. HasIndex(h) => d[OffIndex(h) + p] = IndexCell(s, plan, p)
      BY <1>6, <1>10, <3>2, <3>3 DEF IndexCell
    <3>8. HasTombstones(h) => d[OffTombstones(h) + p] = TombstoneCell(s, plan, p)
      BY <1>6, <1>10, <3>2, <3>3 DEF TombstoneCell
    <3> QED
      BY <3>5, <3>6, <3>7, <3>8
  <2> QED
    BY <2>1 DEF CellsAre
<1>18. HasCells(d, h) /\ plan.count <= LayoutPositions(h) /\ d = [o \in DOMAIN d |-> d[o]] /\ d[0] = h
  BY <1>7, <1>10, <1>12, <1>16 DEF HasCells, LayersLie
<1>19. Written(g, s, plan) /\ Alike(h, g[0])
  <2>1. h.count = plan.count /\ h.indexed = plan.indexed /\ h.tombstones = plan.tombstones
    BY <1>6, <1>10
  <2> QED
    BY <1>6, <1>15, <1>17, <1>18, <2>1, SealedWritten
<1>20. Clean(g)
  <2>1. s.count \in Nat /\ plan.count \in Nat /\ s.count <= plan.count
    BY <1>2, <1>10
  <2> QED
    BY <1>19, <2>1, WrittenClean
<1>21. g[0].count = n /\ g[0].tombstones = 0 /\ ~g[0].indexed /\ g[0].roomy \in BOOLEAN
  <2>1. h.roomy \in BOOLEAN
    BY <1>6
  <2> QED
    BY <1>6, <1>19, <2>1 DEF Alike
<1>22. ASSUME NEW p \in Places(Opened(g))
       PROVE  g[OffVectors(g[0]) + p] = changes[new[p + 1]] /\ g[OffIds(g[0]) + p] = new[p + 1]
  <2>1. Opened(g).count = n
    BY <1>19, <1>21, OpenedIs DEF Written
  <2>2. LayoutPositions(g[0]) \in Nat /\ n <= LayoutPositions(g[0])
    BY <1>10, <1>19, LayoutIs DEF Written, IsFile
  <2>3. p \in 0 .. LayoutPositions(g[0]) - 1 /\ p < n /\ p \in Nat
    BY <1>22, <2>1, <2>2 DEF Places
  <2>4. g[OffVectors(g[0]) + p] = VectorCell(s, plan, p) /\ g[OffIds(g[0]) + p] = IdCell(s, plan, p)
    BY <1>19, <2>3 DEF Written, CellsAre
  <2>5. ~(p < s.count) /\ p - s.count + 1 = p + 1 /\ p + 1 \in 1 .. n
    BY <1>10, <2>3
  <2>6. g[OffVectors(g[0]) + p] = rows[p + 1] /\ g[OffIds(g[0]) + p] = new[p + 1]
    BY <1>10, <2>3, <2>4, <2>5 DEF VectorCell, IdCell
  <2> QED
    BY <1>8, <2>5, <2>6
<1>23. /\ Opened(g).vectors = [p \in Places(Opened(g)) |-> g[OffVectors(g[0]) + p]]
       /\ Opened(g).ids = [p \in Places(Opened(g)) |-> g[OffIds(g[0]) + p]]
  <2>1. IsFile(g)
    BY <1>19 DEF Written
  <2> QED
    BY <2>1, OpenedIs
<1> QED
  BY <1>2, <1>20, <1>21, <1>22, <1>23

\* The snapshot of a full build answers its rows.
LEMMA FullAnswers ==
    ASSUME NEW changes \in Batches, Given(changes) # {}, NEW percent \in Growths,
           NEW g, IsFullFile(g, changes, percent)
    PROVE  /\ Opens(g) /\ Clean(g) /\ g[0].count <= Cardinality(Ids)
           /\ \A i \in Ids : AnswerOf(Opened(g), i) = IF changes[i] = Kept THEN Gone ELSE changes[i]
<1>1. PICK new : new = Sorted(Given(changes))
  OBVIOUS
<1>2. PICK t : t = Opened(g)
  OBVIOUS
<1>3. /\ Clean(g) /\ g[0].tombstones = 0 /\ ~g[0].indexed
      /\ Len(new) \in Nat \ {0} /\ g[0].count = Len(new)
      /\ t.vectors = [p \in Places(t) |-> changes[new[p + 1]]]
      /\ t.ids = [p \in Places(t) |-> new[p + 1]]
  BY <1>1, <1>2, FullWritten
<1>4. /\ t.count = Len(new)
      /\ t.index = [p \in Places(t) |-> p]
      /\ t.dead = [p \in Places(t) |-> FALSE]
  <2>1. IsFile(g)
    BY <1>3 DEF Clean
  <2>2. /\ t.count = g[0].count
        /\ t.index = [p \in Places(t) |-> IF g[0].indexed THEN g[OffIndex(g[0]) + p] ELSE p]
        /\ t.dead = [p \in Places(t) |-> g[0].tombstones > 0 /\ g[OffTombstones(g[0]) + p] = 1]
    <3>1. Opened(g).count = g[0].count
      BY <2>1, OpenedIs
    <3>2. Opened(g).index = [p \in Places(Opened(g)) |-> IF g[0].indexed THEN g[OffIndex(g[0]) + p] ELSE p]
      BY <2>1, OpenedIs
    <3>3. Opened(g).dead =
             [p \in Places(Opened(g)) |-> g[0].tombstones > 0 /\ g[OffTombstones(g[0]) + p] = 1]
      BY <2>1, OpenedIs
    <3> QED
      BY <1>2, <3>1, <3>2, <3>3
  <2>3. ~(g[0].tombstones > 0)
    BY <1>3
  <2> QED
    BY <1>3, <2>2, <2>3
<1>5. PICK S : S = Given(changes)
  OBVIOUS
<1>6. S \in SUBSET Ids /\ S \in SUBSET Nat /\ IsFiniteSet(S) /\ Ids \subseteq Nat
  <2>1. S \in SUBSET Ids
    BY <1>5 DEF Given
  <2>2. IsFiniteSet(Ids) /\ Ids \subseteq Nat
    BY LayoutAssumption
  <2>3. IsFiniteSet(S)
    BY <2>1, <2>2, FS_Subset
  <2> QED
    BY <2>1, <2>2, <2>3
<1>7. /\ Len(new) = Cardinality(S) /\ DOMAIN new = 1 .. Len(new)
      /\ \A i, j \in DOMAIN new : i < j => new[i] < new[j]
      /\ \A x \in S : \E i \in DOMAIN new : new[i] = x
      /\ \A i \in DOMAIN new : new[i] \in S
  <2>1. /\ new \in Seq(S) /\ Len(new) = Cardinality(S) /\ DOMAIN new = 1 .. Cardinality(S)
        /\ \A i, j \in DOMAIN new : i < j => new[i] < new[j]
        /\ \A x \in S : \E i \in DOMAIN new : new[i] = x
    <3>1. new = Sorted(S)
      BY <1>1, <1>5
    <3> QED
      BY <1>6, <3>1, SortedIs
  <2> QED
    BY <2>1
<1>8. ASSUME NEW p \in Places(t)
      PROVE  /\ p + 1 \in DOMAIN new /\ t.ids[p] = new[p + 1] /\ t.ids[p] \in S /\ ~t.dead[p]
             /\ t.vectors[p] = changes[t.ids[p]] /\ t.index[p] = p /\ changes[t.ids[p]] \in Vectors
  <2>1. p + 1 \in DOMAIN new
    BY <1>3, <1>4, <1>7, <1>8 DEF Places
  <2>2. t.ids[p] = new[p + 1] /\ t.vectors[p] = changes[new[p + 1]] /\ t.index[p] = p /\ t.dead[p] = FALSE
    BY <1>3, <1>4, <1>8
  <2>3. new[p + 1] \in S
    BY <1>7, <2>1
  <2>4. changes[new[p + 1]] \in Vectors
    BY <1>5, <2>3 DEF Given
  <2> QED
    BY <2>1, <2>2, <2>3, <2>4
<1>9. IsSnapshot(t)
  <2>1. t.count \in Nat \ {0}
    BY <1>3, <1>4
  <2>2. t.vectors \in [Places(t) -> Vectors] /\ t.ids \in [Places(t) -> Ids]
    <3>1. \A p \in Places(t) : changes[new[p + 1]] \in Vectors /\ new[p + 1] \in Ids
      BY <1>6, <1>8
    <3> QED
      BY <1>3, <3>1
  <2>3. t.index \in [Places(t) -> Places(t)] /\ t.dead \in [Places(t) -> BOOLEAN]
    BY <1>4
  <2> QED
    BY <2>1, <2>2, <2>3 DEF IsSnapshot
<1>10. InOrder(t)
  <2>1. ASSUME NEW i \in Places(t), NEW j \in Places(t), i < j PROVE Follows(t, i, j)
    <3>1. i + 1 < j + 1
      BY <2>1 DEF Places
    <3>2. new[i + 1] < new[j + 1]
      BY <1>7, <1>8, <3>1
    <3>3. KeyAt(t, i) < KeyAt(t, j)
      BY <1>8, <3>2 DEF KeyAt
    <3> QED
      BY <3>3 DEF Follows
  <2>2. \A p \in Places(t) : t.index[p] = p
    BY <1>8
  <2> QED
    BY <2>1, <2>2 DEF InOrder
<1>11. Dead(t) = {}
  BY <1>4 DEF Dead
<1>12. Opens(g)
  <2>1. IsFile(g) /\ Cardinality(Dead(t)) = 0
    BY <1>3, <1>11, FS_EmptySet DEF Clean
  <2> QED
    BY <1>2, <1>3, <1>9, <1>10, <2>1 DEF Opens
<1>13. g[0].count <= Cardinality(Ids)
  <2>1. Cardinality(S) <= Cardinality(Ids)
    BY <1>6, LayoutAssumption, FS_Subset
  <2> QED
    BY <1>3, <1>7, <2>1
<1>14. ASSUME NEW i \in Ids
       PROVE  AnswerOf(t, i) = IF changes[i] = Kept THEN Gone ELSE changes[i]
  <2>1. i \in Nat
    BY <1>6
  <2>2. /\ Find(t, i) \in Places(t) \cup {-1}
        /\ Find(t, i) # -1 => t.ids[Find(t, i)] = i
        /\ \A p \in Places(t) : t.ids[p] = i /\ ~t.dead[p] => Find(t, i) = p
    BY <1>9, <1>10, <2>1, FindIs
  <2>3. changes[i] \in Vectors \cup {Kept, Gone}
    BY DEF Batches
  <2>4. CASE changes[i] \in Vectors
    <3>1. i \in S
      BY <1>5, <2>4 DEF Given
    <3>2. PICK k \in DOMAIN new : new[k] = i
      BY <1>7, <3>1
    <3>3. PICK p \in Int : p = k - 1
      BY <1>3, <1>7
    <3>4. p \in Places(t) /\ p + 1 = k
      BY <1>3, <1>4, <1>7, <3>3 DEF Places
    <3>5. Find(t, i) = p /\ t.vectors[p] = changes[i] /\ p # -1
      BY <1>8, <2>2, <3>2, <3>4 DEF Places
    <3>6. changes[i] # Kept
      BY <2>4, LayoutAssumption
    <3> QED
      BY <3>5, <3>6 DEF AnswerOf
  <2>5. CASE changes[i] \notin Vectors
    <3>1. i \notin S
      BY <1>5, <2>5 DEF Given
    <3>2. Find(t, i) = -1
      BY <1>8, <2>2, <3>1
    <3> QED
      BY <2>3, <2>5, <3>2 DEF AnswerOf
  <2> QED
    BY <2>4, <2>5
<1> QED
  BY <1>2, <1>3, <1>12, <1>13, <1>14

------------------------------------------------------------------------------
(* Every file opens as a snapshot *)

-----------------------------------------------------------------------------
\* What the snapshot answers, build after build

\* A sum put into the header leaves the file written.
LEMMA ResealedWritten ==
    ASSUME NEW s, NEW plan, NEW w, Written(w, s, plan), NEW x
    PROVE  Written(WithSum(w, x), s, plan) /\ Alike(w[0], WithSum(w, x)[0])
<1>1. PICK h : h = w[0]
  OBVIOUS
<1>2. PICK k : k = [h EXCEPT !.sum = x]
  OBVIOUS
<1>3. /\ IsHeader(h) /\ h.count = plan.count /\ h.indexed = plan.indexed /\ h.tombstones = plan.tombstones
      /\ plan.count <= LayoutPositions(h) /\ HasCells(w, h) /\ w = [o \in DOMAIN w |-> w[o]]
      /\ CellsAre(w, s, plan, h)
  <2>1. IsFile(w)
    BY DEF Written
  <2>2. w = [o \in 0 .. TotalCells(h) - 1 |-> w[o]] /\ IsHeader(h)
    BY <1>1, <2>1 DEF IsFile
  <2>3. HasCells(w, h) /\ w = [o \in DOMAIN w |-> w[o]]
    BY <2>2 DEF HasCells
  <2> QED
    BY <1>1, <2>2, <2>3 DEF Written
<1>4. IsHeader(k) /\ Alike(h, k)
  BY <1>2, <1>3, SumIsAlike
<1>5. Written(Headed(w, k), s, plan) /\ Headed(w, k)[0] = k
  BY <1>3, <1>4, HeaderOver
<1>6. WithSum(w, x) = Headed(w, k)
  BY <1>1, <1>2 DEF WithSum, Headed
<1> QED
  BY <1>1, <1>4, <1>5, <1>6

\* The invariant: the newest file opens as a snapshot in id order, whose cells behind its positions are 0.
SnapshotInv ==
    /\ Inv
    /\ batch \in Batches
    /\ Opens(file) /\ Clean(file)
    /\ file[0].count \in 1 .. MaxPositions /\ file[0].roomy \in BOOLEAN

\* What a build does to the answers.
Applies(f, changes, g) ==
    \A i \in Ids : AnswerOf(Opened(g), i) = IF changes[i] = Kept THEN AnswerOf(Opened(f), i) ELSE changes[i]

\* The first file opens, and answers the rows it was built from.
LEMMA InitSnapshotInv ==
    Init => SnapshotInv /\ \A i \in Ids : AnswerOf(Opened(file), i) = IF batch[i] = Kept THEN Gone ELSE batch[i]
<1> SUFFICES ASSUME Init
             PROVE  /\ SnapshotInv
                    /\ \A i \in Ids : AnswerOf(Opened(file), i) = IF batch[i] = Kept THEN Gone ELSE batch[i]
  OBVIOUS
<1>1. PICK changes \in Batches, percent \in Growths :
         Given(changes) # {} /\ file = FullFile(changes, percent) /\ batch = changes
  BY DEF Init
<1>2. Inv
  BY InitInv
<1>3. PICK g : g = file
  OBVIOUS
<1>4. IsFullFile(g, changes, percent)
  BY <1>1, <1>3 DEF IsFullFile
<1>5. /\ Opens(g) /\ Clean(g) /\ g[0].count <= Cardinality(Ids)
      /\ \A i \in Ids : AnswerOf(Opened(g), i) = IF changes[i] = Kept THEN Gone ELSE changes[i]
  BY <1>1, <1>4, FullAnswers
<1>6. g[0].count \in 1 .. MaxPositions
  <2>1. IsFile(g) /\ Opened(g).count \in Nat \ {0}
    BY <1>5 DEF Opens, IsSnapshot
  <2>2. Opened(g).count = g[0].count
    BY <2>1, OpenedIs
  <2>3. Cardinality(Ids) <= MaxPositions /\ MaxPositions \in Nat /\ Cardinality(Ids) \in Nat
    BY LayoutAssumption, FS_CardinalityType
  <2> QED
    BY <1>5, <2>1, <2>2, <2>3
<1>7. g[0].roomy \in BOOLEAN
  <2>1. PICK new : new = Sorted(Given(changes))
    OBVIOUS
  <2> QED
    BY <1>1, <1>4, <2>1, FullWritten
<1> QED
  BY <1>1, <1>2, <1>3, <1>5, <1>6, <1>7 DEF SnapshotInv

\* A build whose file is written as planned applies the changes.
LEMMA WrittenApplies ==
    ASSUME NEW f, NEW changes, NEW s, NEW plan, Builds(f, changes, s, plan), NEW g, Written(g, s, plan)
    PROVE  Opens(g) /\ Clean(g) /\ Applies(f, changes, g) /\ g[0].count = plan.count
<1>1. PICK t : t = Opened(g)
  OBVIOUS
<1>2. IsSnapshot(s) /\ InOrder(s) /\ changes \in Batches /\ Plans(s, changes, plan) /\ Counted(s, plan)
      /\ s = Opened(f)
  BY BuildIs DEF Builds
<1>3. Grown(s, plan, t) /\ Clean(g) /\ Opens(g)
  BY <1>1, <1>2, WrittenIs
<1>4. \A i \in Ids : AnswerOf(t, i) = IF changes[i] = Kept THEN AnswerOf(s, i) ELSE changes[i]
  BY <1>2, <1>3, GrownAnswers
<1> QED
  BY <1>1, <1>2, <1>3, <1>4 DEF Applies, Written

\* A build with nothing to do keeps the file: its answers are those the changes ask for.
LEMMA NothingApplies ==
    ASSUME NEW f, NEW changes, NEW s, NEW plan, Builds(f, changes, s, plan),
           Fresh(s, changes) = {}, Killed(s, changes) = {}
    PROVE  Applies(f, changes, f)
<1>1. IsSnapshot(s) /\ InOrder(s) /\ changes \in Batches /\ s = Opened(f)
  BY BuildIs DEF Builds
<1>2. ASSUME NEW i \in Ids, changes[i] # Kept PROVE AnswerOf(s, i) = changes[i]
  <2>1. i \in Nat
    BY LayoutAssumption
  <2>2. Find(s, i) \in Places(s) \cup {-1}
    BY <1>1, <2>1, FindIs
  <2>3. CASE changes[i] \in Vectors
    <3>1. i \in Unchanged(s, changes)
      BY <2>3 DEF Fresh, Given
    <3>2. Find(s, i) >= 0 /\ s.vectors[Find(s, i)] = changes[i]
      BY <3>1 DEF Unchanged
    <3> QED
      BY <3>2 DEF AnswerOf
  <2>4. CASE changes[i] = Gone
    <3>1. i \in Removed(changes)
      BY <2>4 DEF Removed
    <3>2. Find(s, i) = -1
      BY <3>1 DEF Killed
    <3> QED
      BY <2>4, <3>2 DEF AnswerOf
  <2>5. changes[i] \in Vectors \cup {Kept, Gone}
    BY <1>1 DEF Batches
  <2> QED
    BY <1>2, <2>3, <2>4, <2>5
<1> QED
  BY <1>1, <1>2 DEF Applies

\* A build in place, sealed: the written file under its new sum.
LEMMA InPlaceSeals ==
    ASSUME NEW changes, NEW s, NEW plan, Builds(file, changes, s, plan), NEW upperRoom,
           LayoutFits(file, plan, upperRoom), BuildInPlace(plan)
    PROVE  /\ Written(file', s, plan)
           /\ file'[0].roomy = file[0].roomy /\ file'[0].capacity = file[0].capacity
<1>1. PICK f : f = file
  OBVIOUS
<1>2. PICK w : w = InPlace(f, plan)
  OBVIOUS
<1>3. Written(w, s, plan) /\ w[0].roomy = f[0].roomy /\ w[0].capacity = f[0].capacity
  BY <1>1, <1>2, InPlaceWritten DEF LayoutFits
<1>4. PICK found : found = Diff(f, w, Candidates(f, plan))
  OBVIOUS
<1>5. PICK x : x = Xor(f[0].sum, Xor(Words(f, Covered(found)), Words(w, Covered(found))))
  OBVIOUS
<1>6. file' = WithSum(w, x)
  BY <1>1, <1>2, <1>4, <1>5 DEF BuildInPlace, SealedInPlace, WithSum
<1>7. Written(WithSum(w, x), s, plan) /\ Alike(w[0], WithSum(w, x)[0])
  BY <1>3, ResealedWritten
<1> QED
  BY <1>1, <1>3, <1>6, <1>7 DEF Alike

\* Every build keeps the invariant and applies the changes it is given.
LEMMA StepSnapshotInv ==
    ASSUME SnapshotInv, Refresh
    PROVE  SnapshotInv' /\ Applies(file, batch', file')
<1>1. PICK changes \in Batches :
         /\ Planned(file, changes).count <= MaxPositions
         /\ batch' = changes
         /\ LET plan == Planned(file, changes)
            IN  IF plan.nothing THEN UNCHANGED <<file, copy, runs>>
                ELSE \E upperRoom \in {TRUE, ~UpperFull} :
                        IF LayoutFits(file, plan, upperRoom) THEN BuildInPlace(plan)
                        ELSE BuildCopy(plan, upperRoom)
  BY DEF Refresh
<1>2. PICK f, s, plan : f = file /\ s = Opened(f) /\ plan = Planned(f, changes)
  <2>1. PICK f : f = file
    OBVIOUS
  <2>2. PICK s, plan : s = Opened(f) /\ plan = Planned(f, changes)
    OBVIOUS
  <2> QED
    BY <2>1, <2>2
<1>3. /\ Builds(f, changes, s, plan)
      /\ plan.nothing = (Fresh(s, changes) = {} /\ Killed(s, changes) = {})
  BY <1>2, PlannedBuilds DEF SnapshotInv
<1>4. Inv'
  <2>1. Inv /\ [Refresh]_vars
    BY DEF SnapshotInv
  <2> QED
    BY <2>1, StepKeepsInv
<1>5. plan.count \in Nat \ {0} /\ plan.count <= MaxPositions /\ MaxPositions \in Nat
  BY <1>1, <1>2, <1>3, BuildIs, LayoutAssumption
<1>6. CASE plan.nothing
  <2>1. file' = file
    BY <1>1, <1>2, <1>6
  <2>2. Applies(f, changes, f)
    BY <1>3, <1>6, NothingApplies
  <2>3. Opens(file)' /\ Clean(file)' /\ (file[0].count \in 1 .. MaxPositions)' /\ (file[0].roomy \in BOOLEAN)'
    BY <2>1 DEF SnapshotInv
  <2> QED
    BY <1>1, <1>2, <1>4, <2>1, <2>2, <2>3 DEF SnapshotInv
<1>7. CASE ~plan.nothing
  <2>1. PICK upperRoom \in {TRUE, ~UpperFull} :
           IF LayoutFits(file, plan, upperRoom) THEN BuildInPlace(plan) ELSE BuildCopy(plan, upperRoom)
    BY <1>1, <1>2, <1>7
  <2>2. Written(file', s, plan) /\ file'[0].roomy \in BOOLEAN
    <3>1. CASE LayoutFits(file, plan, upperRoom)
      <4>1. Builds(file, changes, s, plan) /\ BuildInPlace(plan)
        BY <1>2, <1>3, <2>1, <3>1
      <4>2. Written(file', s, plan) /\ file'[0].roomy = file[0].roomy
        BY <3>1, <4>1, InPlaceSeals
      <4> QED
        BY <4>2 DEF SnapshotInv
    <3>2. CASE ~LayoutFits(file, plan, upperRoom)
      <4>1. PICK percent \in Growths : file' = Copied(f, plan, percent, upperRoom)
        BY <1>2, <2>1, <3>2 DEF BuildCopy
      <4>2. /\ Written(Copied(f, plan, percent, upperRoom), s, plan)
            /\ Copied(f, plan, percent, upperRoom)[0].roomy = (CopyCapacity(f, plan, percent, upperRoom) > 0)
        BY <1>3, CopiedWritten
      <4> QED
        BY <4>1, <4>2
    <3> QED
      BY <3>1, <3>2
  <2>3. PICK g : g = file'
    OBVIOUS
  <2>4. Opens(g) /\ Clean(g) /\ Applies(f, changes, g) /\ g[0].count = plan.count
    BY <1>3, <2>2, <2>3, WrittenApplies
  <2>5. g[0].count \in 1 .. MaxPositions
    BY <1>5, <2>4
  <2> QED
    BY <1>1, <1>2, <1>4, <2>2, <2>3, <2>4, <2>5 DEF SnapshotInv
<1> QED
  BY <1>6, <1>7

\* The invariant, for all ids, vectors, growths, block and chunk sizes and bounds of positions.
THEOREM SnapshotInvariant == Spec => []SnapshotInv
<1>1. Init => SnapshotInv
  BY InitSnapshotInv
<1>2. SnapshotInv /\ [Refresh]_vars => SnapshotInv'
  <2>1. SnapshotInv /\ Refresh => SnapshotInv'
    BY StepSnapshotInv
  <2>2. SnapshotInv /\ UNCHANGED vars => SnapshotInv'
    BY DEF SnapshotInv, Inv, NodesAssembleIt, RunsAreSound, vars
  <2> QED
    BY <2>1, <2>2
<1> HIDE DEF SnapshotInv
<1> QED
  BY <1>1, <1>2, PTL DEF Spec

\* The newest file passes the checks of a load and is in the order find() relies on: an id at several places
\* stands with its highest position first, the only one that may be live (snapshot_open, VectorSet::find).
THEOREM TypeCorrect == Spec => []TypeOK
<1>1. SnapshotInv => TypeOK
  <2> SUFFICES ASSUME SnapshotInv PROVE TypeOK
    OBVIOUS
  <2>1. PICK h, s : h = file[0] /\ s = Opened(file)
    OBVIOUS
  <2>2. /\ IsFile(file) /\ IsSnapshot(s) /\ InOrder(s) /\ h.tombstones = Cardinality(Dead(s))
    BY <2>1 DEF SnapshotInv, Opens
  <2>3. batch \in Batches /\ h.count \in 1 .. MaxPositions /\ DOMAIN file = 0 .. TotalCells(h) - 1
    BY <2>1, <2>2 DEF SnapshotInv, IsFile
  <2>4. h.roomy => h.capacity >= h.count
    <3>1. h.count <= LayoutPositions(h) /\ h.capacity \in Nat /\ h.count \in Nat
      BY <2>1, <2>2 DEF SnapshotInv, Clean, IsFile, IsHeader
    <3> QED
      BY <3>1 DEF LayoutPositions
  <2>5. h.sum = Checksum(file)
    BY <2>1 DEF SnapshotInv, Inv, NodesAssembleIt
  <2>6. {s.index[i] : i \in 0 .. s.count - 1} = 0 .. s.count - 1
    <3>1. \A p \in Places(s) : s.index[p] \in Places(s) /\ \E i \in Places(s) : s.index[i] = p
      BY <2>2 DEF IsSnapshot, InOrder
    <3>2. {s.index[i] : i \in Places(s)} = Places(s)
      BY <3>1, Zenon
    <3> QED
      BY <3>2 DEF Places
  <2>7. ASSUME NEW i \in 1 .. s.count - 1
        PROVE  \/ KeyAt(s, i - 1) < KeyAt(s, i)
               \/ /\ h.indexed /\ KeyAt(s, i - 1) = KeyAt(s, i)
                  /\ s.index[i - 1] > s.index[i] /\ s.dead[s.index[i]]
    <3>1. PICK j \in Int : j = i - 1
      OBVIOUS
    <3>2. j \in Places(s) /\ i \in Places(s) /\ j < i
      BY <2>2, <3>1 DEF IsSnapshot, Places
    <3>3. Follows(s, j, i)
      BY <2>2, <3>2 DEF InOrder
    <3>4. h.indexed \/ (s.index[j] = j /\ s.index[i] = i)
      <4>1. Opened(file).index =
               [p \in Places(Opened(file)) |-> IF file[0].indexed THEN file[OffIndex(file[0]) + p] ELSE p]
        BY <2>2, OpenedIs
      <4> QED
        BY <2>1, <3>2, <4>1
    <3>5. CASE h.indexed
      BY <3>1, <3>3, <3>5 DEF Follows
    <3>6. CASE ~h.indexed
      <4>1. ~(s.index[j] > s.index[i])
        BY <3>2, <3>4, <3>6 DEF Places
      <4> QED
        BY <3>1, <3>3, <4>1 DEF Follows
    <3> QED
      BY <3>5, <3>6
  <2> QED
    <3>1. /\ batch \in Batches
          /\ h.count \in 1 .. MaxPositions
          /\ DOMAIN file = 0 .. TotalCells(h) - 1
          /\ h.roomy => h.capacity >= h.count
          /\ h.sum = Checksum(file)
          /\ Cardinality(Dead(s)) = h.tombstones
      BY <2>2, <2>3, <2>4, <2>5
    <3> QED
      BY <2>1, <2>6, <2>7, <3>1, ZenonT(40) DEF TypeOK
<1> QED
  BY <1>1, SnapshotInvariant, PTL

------------------------------------------------------------------------------
(* The refinement, and the two ways to build *)

\* What the abstract specification sees of a snapshot is what find() leads to.
LEMMA ContentsAre ==
    ASSUME NEW f, Opens(f)
    PROVE  ContentsOf(f) = [i \in Ids |-> AnswerOf(Opened(f), i)]
<1>1. ASSUME NEW i \in Ids
      PROVE  (IF Find(Opened(f), i) >= 0 THEN Opened(f).vectors[Find(Opened(f), i)] ELSE Gone)
                = AnswerOf(Opened(f), i)
  <2>1. PICK s : s = Opened(f)
    OBVIOUS
  <2>2. i \in Nat
    BY LayoutAssumption
  <2>3. Find(s, i) \in Places(s) \cup {-1}
    BY <2>1, <2>2, FindIs DEF Opens
  <2>4. Find(s, i) >= 0 <=> Find(s, i) # -1
    BY <2>3 DEF Places
  <2> QED
    BY <2>1, <2>4 DEF AnswerOf
<1>2. ContentsOf(f) = [i \in Ids |-> IF Find(Opened(f), i) >= 0 THEN Opened(f).vectors[Find(Opened(f), i)] ELSE Gone]
  BY DEF ContentsOf
<1> QED
  BY <1>1, <1>2

\* A build applies its changes to what the snapshot answered.
LEMMA AppliesIs ==
    ASSUME NEW f, Opens(f), NEW g, Opens(g), NEW changes, Applies(f, changes, g)
    PROVE  ContentsOf(g) = [i \in Ids |-> IF changes[i] = Kept THEN ContentsOf(f)[i] ELSE changes[i]]
<1>1. \A i \in Ids : AnswerOf(Opened(g), i) = IF changes[i] = Kept THEN AnswerOf(Opened(f), i) ELSE changes[i]
  BY DEF Applies
<1>2. ContentsOf(f) = [i \in Ids |-> AnswerOf(Opened(f), i)]
  BY ContentsAre
<1>3. ContentsOf(g) = [i \in Ids |-> AnswerOf(Opened(g), i)]
  BY ContentsAre
<1> QED
  BY <1>1, <1>2, <1>3

\* Build after build the snapshot answers what the journal's changes say: the chain of files, with its tombstones,
\* appended positions and id_index, implements the plain table of vectors (delta.cpp; find() of snapshot.cpp).
THEOREM IncrementalAnswers == Spec => AnswersChanges
<1>1. Init => Promised!Init
  <2> SUFFICES ASSUME Init PROVE Promised!Init
    OBVIOUS
  <2>1. SnapshotInv /\ \A i \in Ids : AnswerOf(Opened(file), i) = IF batch[i] = Kept THEN Gone ELSE batch[i]
    BY InitSnapshotInv
  <2>2. ContentsOf(file) = [i \in Ids |-> AnswerOf(Opened(file), i)]
    BY <2>1, ContentsAre DEF SnapshotInv
  <2>3. ContentsOf(file) = [i \in Ids |-> IF batch[i] = Kept THEN [k \in Ids |-> Gone][i] ELSE batch[i]]
    BY <2>1, <2>2
  <2>4. batch \in Promised!Batches
    BY <2>1 DEF SnapshotInv, Batches, Promised!Batches
  <2> QED
    BY <2>3, <2>4 DEF Promised!Init, Promised!Applied
<1>2. SnapshotInv /\ [Refresh]_vars => [Promised!Next]_<<ContentsOf(file), batch>>
  <2> SUFFICES ASSUME SnapshotInv, [Refresh]_vars PROVE [Promised!Next]_<<ContentsOf(file), batch>>
    OBVIOUS
  <2>1. CASE UNCHANGED vars
    BY <2>1 DEF vars, ContentsOf
  <2>2. CASE Refresh
    <3>1. SnapshotInv' /\ Applies(file, batch', file')
      BY <2>2, StepSnapshotInv
    <3>2. PICK f, g, changes : f = file /\ g = file' /\ changes = batch'
      <4>1. PICK f : f = file
        OBVIOUS
      <4>2. PICK g, changes : g = file' /\ changes = batch'
        OBVIOUS
      <4> QED
        BY <4>1, <4>2
    <3>3. Opens(f) /\ Opens(g) /\ Applies(f, changes, g)
      BY <3>1, <3>2 DEF SnapshotInv
    <3>4. ContentsOf(g) = [i \in Ids |-> IF changes[i] = Kept THEN ContentsOf(f)[i] ELSE changes[i]]
      BY <3>3, AppliesIs
    <3>5. ContentsOf(file)' = ContentsOf(g)
      BY <3>2
    <3>6. ContentsOf(file)' = [i \in Ids |-> IF batch'[i] = Kept THEN ContentsOf(file)[i] ELSE batch'[i]]
      BY <3>2, <3>4, <3>5
    <3>7. batch' \in Promised!Batches
      BY <3>1 DEF SnapshotInv, Batches, Promised!Batches
    <3>8. Promised!Next
      BY <3>6, <3>7 DEF Promised!Next, Promised!Applied, Promised!Batches
    <3> QED
      BY <3>8
  <2> QED
    BY <2>1, <2>2
<1> HIDE DEF SnapshotInv
<1> QED
  BY <1>1, <1>2, SnapshotInvariant, PTL DEF Spec, AnswersChanges, Promised!Spec

-----------------------------------------------------------------------------
\* Both ways to write a snapshot

\* Two files of one plan, one layout and each with its own checksum are one file.
LEMMA SameFile ==
    ASSUME NEW s, NEW plan, NEW f, Written(f, s, plan), NEW g, Written(g, s, plan), Alike(f[0], g[0]),
           f[0].sum = Checksum(f), g[0].sum = Checksum(g)
    PROVE  f = g
<1>1. DOMAIN f = DOMAIN g /\ \A o \in DOMAIN f : o # 0 => f[o] = g[o]
  BY FilesAlike
<1>2. /\ IsHeader(f[0]) /\ IsHeader(g[0])
      /\ f = [o \in DOMAIN f |-> f[o]] /\ g = [o \in DOMAIN g |-> g[o]]
  BY DEF Written, IsFile
<1>3. PICK h, k : h = f[0] /\ k = g[0]
  OBVIOUS
<1>4. /\ h = [count |-> h.count, roomy |-> h.roomy, capacity |-> h.capacity, indexed |-> h.indexed,
              tombstones |-> h.tombstones, sum |-> h.sum]
      /\ k = [count |-> k.count, roomy |-> k.roomy, capacity |-> k.capacity, indexed |-> k.indexed,
              tombstones |-> k.tombstones, sum |-> k.sum]
  BY <1>2, <1>3 DEF IsHeader
<1>5. /\ h.count = k.count /\ h.roomy = k.roomy /\ h.capacity = k.capacity /\ h.indexed = k.indexed
      /\ h.tombstones = k.tombstones
  BY <1>3 DEF Alike
<1>6. [h EXCEPT !.sum = {}] = [k EXCEPT !.sum = {}]
  <2>1. [h EXCEPT !.sum = {}] = [count |-> h.count, roomy |-> h.roomy, capacity |-> h.capacity,
                                 indexed |-> h.indexed, tombstones |-> h.tombstones, sum |-> {}]
    BY <1>4
  <2>2. [k EXCEPT !.sum = {}] = [count |-> k.count, roomy |-> k.roomy, capacity |-> k.capacity,
                                 indexed |-> k.indexed, tombstones |-> k.tombstones, sum |-> {}]
    BY <1>4
  <2> QED
    BY <1>5, <2>1, <2>2
<1>7. ASSUME NEW o \in DOMAIN f PROVE (Counts(f, o) <=> Counts(g, o)) /\ Word(f, o) = Word(g, o)
  BY <1>1, <1>3, <1>6 DEF Counts, Word
<1>8. Checksum(f) = Checksum(g)
  <2>1. Words(f, DOMAIN f) = Words(g, DOMAIN f)
    BY <1>7, WordsSame
  <2> QED
    BY <1>1, <2>1 DEF Checksum
<1>9. h = k
  <2>1. h.sum = k.sum
    BY <1>3, <1>8
  <2> QED
    BY <1>4, <1>5, <2>1
<1>10. \A o \in DOMAIN f : f[o] = g[o]
  BY <1>1, <1>3, <1>9
<1> QED
  BY <1>1, <1>2, <1>10

\* Where the base's layout has room, the build in place and the copying build write the same bytes, whatever the
\* changes and the growth (finish_in_place and finish of delta.cpp; delta.h:19-20).
THEOREM WaysAgree == Spec => BothWaysAgree
<1>1. ASSUME SnapshotInv, Refresh, runs' # <<>>, file' # file, NEW percent \in Growths
      PROVE  file' = Copied(file, Planned(file, batch'), percent, TRUE)
  <2>1. PICK changes \in Batches :
           /\ batch' = changes
           /\ LET plan == Planned(file, changes)
              IN  IF plan.nothing THEN UNCHANGED <<file, copy, runs>>
                  ELSE \E upperRoom \in {TRUE, ~UpperFull} :
                          IF LayoutFits(file, plan, upperRoom) THEN BuildInPlace(plan)
                          ELSE BuildCopy(plan, upperRoom)
    BY <1>1 DEF Refresh
  <2>2. PICK plan : plan = Planned(file, changes)
    OBVIOUS
  <2>3. PICK upperRoom \in {TRUE, ~UpperFull} :
           IF LayoutFits(file, plan, upperRoom) THEN BuildInPlace(plan) ELSE BuildCopy(plan, upperRoom)
    BY <1>1, <2>1, <2>2
  <2>4. LayoutFits(file, plan, upperRoom) /\ BuildInPlace(plan)
    BY <1>1, <2>3 DEF BuildCopy
  <2>5. PICK s : s = Opened(file)
    OBVIOUS
  <2>6. Builds(file, changes, s, plan)
    BY <1>1, <2>2, <2>5, PlannedBuilds DEF SnapshotInv
  <2>7. PICK f, g : f = file' /\ g = Copied(file, plan, percent, TRUE)
    <3>1. PICK f : f = file'
      OBVIOUS
    <3>2. PICK g : g = Copied(file, plan, percent, TRUE)
      OBVIOUS
    <3> QED
      BY <3>1, <3>2
  <2>8. Written(f, s, plan) /\ f[0].roomy = file[0].roomy /\ f[0].capacity = file[0].capacity
    BY <2>4, <2>6, <2>7, InPlaceSeals
  <2>9. PICK room : room = TRUE
    OBVIOUS
  <2>10. /\ Written(g, s, plan) /\ g[0].capacity = file[0].capacity
         /\ g[0].roomy = (file[0].capacity > 0)
    <3>1. CopyCapacity(file, plan, percent, room) = file[0].capacity
      BY <2>4, <2>9 DEF CopyCapacity, LayoutFits
    <3>2. g = Copied(file, plan, percent, room)
      BY <2>7, <2>9
    <3> QED
      BY <2>6, <3>1, <3>2, CopiedWritten
  <2>11. file[0].roomy = (file[0].capacity > 0)
    <3>1. file[0].capacity \in Nat /\ plan.count \in Nat \ {0}
      BY <2>6, BuildIs DEF IsHeader
    <3>2. file[0].roomy /\ plan.count <= file[0].capacity /\ file[0].roomy \in BOOLEAN
      BY <1>1, <2>4 DEF LayoutFits, SnapshotInv
    <3>3. file[0].capacity > 0
      BY <3>1, <3>2
    <3> QED
      BY <3>2, <3>3
  <2>12. Alike(f[0], g[0])
    BY <2>8, <2>10, <2>11 DEF Alike, Written
  <2>13. f[0].sum = Checksum(f)
    <3>1. SnapshotInv'
      BY <1>1, StepSnapshotInv
    <3> QED
      BY <2>7, <3>1 DEF SnapshotInv, Inv, NodesAssembleIt
  <2>14. g[0].sum = Checksum(g)
    <3>1. g = Copied(file, plan, percent, room)
      BY <2>7, <2>9
    <3>2. IsFile(file) /\ IsPlan(file, plan)
      BY <2>6, BuildIs
    <3> QED
      BY <3>1, <3>2, CopiedIs
  <2>15. f = g
    BY <2>8, <2>10, <2>12, <2>13, <2>14, SameFile
  <2> QED
    BY <2>1, <2>2, <2>7, <2>15
<1>2. SnapshotInv /\ [Refresh]_vars =>
         [(runs' # <<>> /\ file' # file) =>
             \A percent \in Growths : file' = Copied(file, Planned(file, batch'), percent, TRUE)]_vars
  BY <1>1
<1> HIDE DEF SnapshotInv
<1> QED
  BY <1>2, SnapshotInvariant, PTL DEF Spec, BothWaysAgree

------------------------------------------------------------------------------
(* Looking up several ids *)

\* The gallop finds the split from any place that is not behind it.
LEMMA GallopIs ==
    ASSUME NEW s, s.count \in Nat, NEW id, NEW at, Splits(s, id, at), NEW from \in 0 .. s.count, from <= at
    PROVE  Gallop(s, id, from) = at
<1> DEFINE n == s.count
           D(m) == {r \in Nat \X Nat \X Nat : r[2] >= m}
           past(b) == b < n /\ KeyAt(s, b) < id
           ends(a, b) == LowerBound(s, id, a, Min({b, n}))
           body(f, a, b, step) == IF past(b) THEN f[<<b + 1, b + 1 + step, 2 * step>>] ELSE ends(a, b)
           IsReach(f, m) == f = [r \in D(m) |-> body(f, r[1], r[2], r[3])]
<1>1. at \in 0 .. n /\ \A i \in 0 .. n - 1 : KeyAt(s, i) < id <=> i < at
  BY DEF Splits
<1> HIDE DEF ends
<1>2. \E f : IsReach(f, n)
  <2> DEFINE g == [r \in D(n) |-> ends(r[1], r[2])]
  <2>1. ASSUME NEW r \in D(n) PROVE g[r] = body(g, r[1], r[2], r[3])
    <3>1. r[2] >= n /\ r[2] \in Nat
      OBVIOUS
    <3>2. ~past(r[2])
      BY <3>1
    <3> HIDE DEF past, D
    <3> QED
      BY <3>2
  <2>2. IsReach(g, n)
    <3> HIDE DEF D, body
    <3> QED
      BY <2>1
  <2> HIDE DEF g, IsReach
  <2> QED
    BY <2>2
<1>3. ASSUME NEW m \in 0 .. n - 1, NEW f, IsReach(f, m + 1) PROVE \E g : IsReach(g, m)
  <2> DEFINE g == [r \in D(m) |-> body(f, r[1], r[2], r[3])]
  <2>1. ASSUME NEW r \in D(m + 1) PROVE f[r] = g[r]
    <3>1. r \in D(m)
      OBVIOUS
    <3>2. f[r] = body(f, r[1], r[2], r[3])
      BY <1>3
    <3> HIDE DEF D, body
    <3> QED
      BY <3>1, <3>2
  <2>2. ASSUME NEW a \in Nat, NEW b \in Nat, NEW step \in Nat, b >= m
        PROVE  body(f, a, b, step) = body(g, a, b, step)
    <3>1. <<b + 1, b + 1 + step, 2 * step>> \in D(m + 1)
      BY <2>2
    <3>2. f[<<b + 1, b + 1 + step, 2 * step>>] = g[<<b + 1, b + 1 + step, 2 * step>>]
      <4> HIDE DEF g, D
      <4> QED
        BY <2>1, <3>1
    <3> HIDE DEF g, past
    <3> QED
      BY <3>2
  <2>3. ASSUME NEW r \in D(m) PROVE g[r] = body(g, r[1], r[2], r[3])
    <3>1. r[1] \in Nat /\ r[2] \in Nat /\ r[3] \in Nat /\ r[2] >= m
      OBVIOUS
    <3>2. g[r] = body(f, r[1], r[2], r[3])
      <4> HIDE DEF body, D
      <4> QED
        OBVIOUS
    <3> HIDE DEF g, body
    <3> QED
      BY <2>2, <3>1, <3>2
  <2>4. IsReach(g, m)
    <3>1. g = [r \in D(m) |-> g[r]]
      OBVIOUS
    <3>2. [r \in D(m) |-> g[r]] = [r \in D(m) |-> body(g, r[1], r[2], r[3])]
      <4> HIDE DEF g, D, body
      <4> QED
        BY <2>3
    <3> HIDE DEF g, D, body
    <3> QED
      BY <3>1, <3>2
  <2> HIDE DEF g, IsReach
  <2> QED
    BY <2>4
<1>4. \E f : IsReach(f, 0)
  <2> DEFINE T == {m \in 0 .. n : \E f : IsReach(f, m)}
  <2>1. T \in SUBSET Nat /\ T # {}
    <3> HIDE DEF IsReach
    <3>1. n \in T
      BY <1>2
    <3> QED
      BY <3>1
  <2>2. PICK m \in T : \A i \in T : m <= i
    <3> HIDE DEF T
    <3> QED
      BY <2>1, LeastNat
  <2>3. m \in 0 .. n /\ \E f : IsReach(f, m)
    <3> HIDE DEF IsReach
    <3> QED
      OBVIOUS
  <2>4. m = 0
    <3> SUFFICES ASSUME m # 0 PROVE FALSE
      OBVIOUS
    <3> HIDE DEF IsReach
    <3>1. PICK k \in 0 .. n - 1 : m = k + 1
      BY <2>3
    <3>2. PICK f : IsReach(f, k + 1)
      BY <2>3, <3>1
    <3>3. k \in T
      BY <1>3, <3>1, <3>2
    <3> HIDE DEF T
    <3> QED
      BY <2>2, <3>1, <3>3
  <2> HIDE DEF IsReach
  <2> QED
    BY <2>3, <2>4
<1>5. D(0) = Nat \X Nat \X Nat
  OBVIOUS
<1>6. Gallop(s, id, from) = (CHOOSE f : f = [r \in Nat \X Nat \X Nat |-> body(f, r[1], r[2], r[3])])[<<from, from, 1>>]
  BY DEF Gallop, ends
<1>7. Gallop(s, id, from) = (CHOOSE f : IsReach(f, 0))[<<from, from, 1>>]
  <2> HIDE DEF D, body
  <2> QED
    BY <1>5, <1>6
<1>8. PICK f : f = (CHOOSE g : IsReach(g, 0)) /\ IsReach(f, 0)
  <2> HIDE DEF IsReach
  <2> QED
    BY <1>4
<1>9. \A a, b, step \in Nat : f[<<a, b, step>>] = body(f, a, b, step)
  <2>1. ASSUME NEW a \in Nat, NEW b \in Nat, NEW step \in Nat PROVE f[<<a, b, step>>] = body(f, a, b, step)
    <3>1. <<a, b, step>> \in Nat \X Nat \X Nat
      OBVIOUS
    <3> HIDE DEF D, body
    <3> QED
      BY <1>5, <1>8, <3>1
  <2> QED
    BY <2>1
<1> DEFINE T == {d \in Nat : \E a, b, step \in Nat : a <= at /\ a <= b /\ n <= b + d /\ f[<<a, b, step>>] # at}
<1>10. T = {}
  <2> SUFFICES ASSUME T # {} PROVE FALSE
    OBVIOUS
  <2>1. PICK d \in T : \A e \in T : d <= e
    <3>1. T \in SUBSET Nat
      OBVIOUS
    <3> HIDE DEF T
    <3> QED
      BY <3>1, LeastNat
  <2>2. PICK a \in Nat, b \in Nat, step \in Nat : a <= at /\ a <= b /\ n <= b + d /\ f[<<a, b, step>>] # at
    OBVIOUS
  <2>3. d \in Nat
    OBVIOUS
  <2>4. CASE past(b)
    <3>1. b + 1 <= at /\ b < n
      BY <1>1, <2>4
    <3>2. PICK e \in Nat, c \in Nat, t \in Nat : d = e + 1 /\ c = b + 1 + step /\ t = 2 * step
      <4>1. d - 1 \in Nat
        BY <2>2, <2>3, <3>1
      <4> QED
        BY <4>1, <2>3
    <3>3. f[<<a, b, step>>] = f[<<b + 1, c, t>>]
      <4> HIDE DEF past
      <4> QED
        BY <1>9, <2>4, <3>2
    <3>4. n <= c + e /\ b + 1 <= c
      BY <2>2, <2>3, <3>2
    <3>5. PICK b1 \in Nat : b1 = b + 1
      OBVIOUS
    <3>6. b1 <= at /\ b1 <= c /\ n <= c + e /\ f[<<b1, c, t>>] # at
      BY <2>2, <3>1, <3>3, <3>4, <3>5
    <3>7. \E x, y, z \in Nat : x <= at /\ x <= y /\ n <= y + e /\ f[<<x, y, z>>] # at
      <4> WITNESS b1 \in Nat, c \in Nat, t \in Nat
      <4> QED
        BY <3>6
    <3>8. e \in T
      BY <3>7
    <3> HIDE DEF T
    <3> QED
      BY <2>1, <3>2, <3>8
  <2>5. CASE ~past(b)
    <3>1. f[<<a, b, step>>] = ends(a, b)
      <4> HIDE DEF past
      <4> QED
        BY <1>9, <2>5
    <3>2. PICK hi \in 0 .. n : hi = Min({b, n}) /\ at <= hi
      <4>1. Min({b, n}) = IF b <= n THEN b ELSE n
        BY MinOfPair
      <4>2. b < n => ~(b < at)
        BY <1>1, <2>5
      <4> QED
        BY <1>1, <4>1, <4>2
    <3>3. ends(a, b) = Clamped(at, a, hi)
      BY <1>1, <2>2, <3>2, LowerBoundIs DEF ends
    <3> QED
      BY <1>1, <2>2, <3>1, <3>2, <3>3 DEF Clamped
  <2> QED
    BY <2>4, <2>5
<1>11. f[<<from, from, 1>>] = at
  <2>1. ~\E x, y, z \in Nat : x <= at /\ x <= y /\ n <= y + n /\ f[<<x, y, z>>] # at
    <3>1. n \in Nat /\ n \notin T
      <4> HIDE DEF T
      <4> QED
        BY <1>10
    <3> QED
      BY <3>1
  <2>2. PICK one \in Nat : one = 1
    OBVIOUS
  <2>3. from \in Nat /\ n <= from + n
    OBVIOUS
  <2>4. ASSUME f[<<from, from, one>>] # at PROVE FALSE
    <3>1. \E x, y, z \in Nat : x <= at /\ x <= y /\ n <= y + n /\ f[<<x, y, z>>] # at
      <4> WITNESS from \in Nat, from \in Nat, one \in Nat
      <4> QED
        BY <2>3, <2>4
    <3> QED
      BY <2>1, <3>1
  <2> QED
    BY <2>2, <2>4
<1> QED
  BY <1>7, <1>8, <1>11

\* One id of the one-pass lookup.
Passed(s, acc, id) ==
    LET lo == Gallop(s, id, acc.lo) IN [lo |-> lo, out |-> Append(acc.out, LiveAt(s, id)[lo])]

\* The lookup of the first k ids, as the fold computes it.
IsPass(s, w, k, f) ==
    f = [S \in SUBSET (1 .. k) |->
            IF S = {} THEN [lo |-> 0, out |-> <<>>] ELSE Passed(s, f[S \ {Max(S)}], w[Max(S)])]

\* There is such a fold.
LEMMA PassFound ==
    ASSUME NEW s, NEW w, NEW m \in Nat
    PROVE  \E f : IsPass(s, w, m, f)
<1> DEFINE none == [lo |-> 0, out |-> <<>>]
           body(f, S) == IF S = {} THEN none ELSE Passed(s, f[S \ {Max(S)}], w[Max(S)])
           Is(k, f) == f = [S \in SUBSET (1 .. k) |-> body(f, S)]
<1> HIDE DEF none
<1>1. \E f : Is(0, f)
  <2> DEFINE g == [S \in SUBSET (1 .. 0) |-> none]
  <2>1. Is(0, g)
    <3>1. \A S \in SUBSET (1 .. 0) : S = {}
      OBVIOUS
    <3> QED
      BY <3>1
  <2> HIDE DEF Is, g
  <2> QED
    BY <2>1
<1>2. ASSUME NEW k \in Nat, NEW f, Is(k, f) PROVE \E g : Is(k + 1, g)
  <2> DEFINE P == 1 .. k
             Q == 1 .. k + 1
             g == [S \in SUBSET Q |-> IF k + 1 \in S THEN Passed(s, f[S \ {k + 1}], w[k + 1]) ELSE f[S]]
  <2>1. \A S \in SUBSET Q : (k + 1 \in S => S # {} /\ Max(S) = k + 1) /\ (k + 1 \notin S => S \in SUBSET P)
    <3>1. ASSUME NEW S \in SUBSET Q, k + 1 \in S PROVE Max(S) = k + 1
      <4>1. \A x \in S : x <= k + 1 /\ x \in Nat
        OBVIOUS
      <4>2. \A x \in S : (\A y \in S : x >= y) => x = k + 1
        BY <3>1, <4>1
      <4>3. k + 1 \in S /\ \A y \in S : k + 1 >= y
        BY <3>1, <4>1
      <4> QED
        BY <4>2, <4>3 DEF Max
    <3>2. ASSUME NEW S \in SUBSET Q, k + 1 \notin S PROVE S \in SUBSET P
      <4>1. \A x \in S : x \in Q /\ x # k + 1
        BY <3>2
      <4>2. \A x \in S : x \in P
        BY <4>1
      <4> QED
        BY <4>2
    <3> QED
      BY <3>1, <3>2
  <2>2. ASSUME NEW S \in SUBSET Q, NEW x PROVE k + 1 \notin S \/ x = k + 1 => g[S \ {x}] = f[S \ {x}]
    <3>1. S \ {x} \in SUBSET Q
      OBVIOUS
    <3>2. k + 1 \notin S \/ x = k + 1 => k + 1 \notin S \ {x}
      OBVIOUS
    <3> HIDE DEF Q
    <3> QED
      BY <3>1, <3>2
  <2>3. ASSUME NEW S \in SUBSET P PROVE f[S] = body(f, S)
    <3> HIDE DEF body, P
    <3> QED
      BY <1>2 DEF P
  <2>4. ASSUME NEW S \in SUBSET Q PROVE g[S] = body(g, S)
    <3>1. CASE k + 1 \in S
      <4>1. g[S] = Passed(s, f[S \ {k + 1}], w[k + 1])
        BY <3>1
      <4>2. g[S \ {k + 1}] = f[S \ {k + 1}]
        BY <2>2
      <4> HIDE DEF g, Q
      <4> QED
        BY <2>1, <3>1, <4>1, <4>2
    <3>2. CASE k + 1 \notin S
      <4>1. g[S] = f[S]
        BY <3>2
      <4>2. f[S] = body(f, S)
        <5> HIDE DEF body, P, Q
        <5> QED
          BY <2>1, <2>3, <3>2
      <4>3. g[S \ {Max(S)}] = f[S \ {Max(S)}]
        <5> HIDE DEF g, Q
        <5> QED
          BY <2>2, <3>2
      <4> HIDE DEF g
      <4> QED
        BY <4>1, <4>2, <4>3
    <3> QED
      BY <3>1, <3>2
  <2>5. Is(k + 1, g)
    <3>1. g = [S \in SUBSET Q |-> g[S]]
      OBVIOUS
    <3>2. [S \in SUBSET Q |-> g[S]] = [S \in SUBSET Q |-> body(g, S)]
      <4> HIDE DEF g, Q, body
      <4> QED
        BY <2>4
    <3> HIDE DEF g, body
    <3> QED
      BY <3>1, <3>2
  <2> HIDE DEF g, Is
  <2> QED
    BY <2>5
<1> DEFINE T == {k \in Nat : ~\E f : Is(k, f)}
<1>3. T = {}
  <2> SUFFICES ASSUME T # {} PROVE FALSE
    OBVIOUS
  <2>1. PICK k \in T : \A i \in T : k <= i
    <3>1. T \in SUBSET Nat
      OBVIOUS
    <3> HIDE DEF T
    <3> QED
      BY <3>1, LeastNat
  <2>2. k \in Nat /\ ~\E f : Is(k, f)
    <3> HIDE DEF Is
    <3> QED
      OBVIOUS
  <2> HIDE DEF Is
  <2>3. k # 0
    BY <1>1, <2>2
  <2>4. PICK i \in Nat : k = i + 1
    BY <2>2, <2>3
  <2>5. i \notin T
    <3> HIDE DEF T
    <3> QED
      BY <2>1, <2>4
  <2>6. \E f : Is(i, f)
    BY <2>5
  <2> QED
    BY <1>2, <2>2, <2>4, <2>6
<1>4. \E f : Is(m, f)
  <2> HIDE DEF Is
  <2> QED
    BY <1>3
<1> QED
  BY <1>4 DEF IsPass, none

\* One more element of a sequence of numbers.
LEMMA AppendIs ==
    ASSUME NEW o \in Seq(Int), NEW x \in Int
    PROVE  /\ Append(o, x) \in Seq(Int) /\ Len(Append(o, x)) = Len(o) + 1
           /\ \A j \in 1 .. Len(o) : Append(o, x)[j] = o[j]
           /\ Append(o, x)[Len(o) + 1] = x
OBVIOUS

\* The one-pass lookup of ids in ascending order finds each where find() does.
LEMMA FindSortedIs ==
    ASSUME NEW s, IsSnapshot(s), InOrder(s), NEW m \in Nat, NEW w, Ascends(w, m)
    PROVE  FindSorted(s, w) = [j \in 1 .. m |-> Find(s, w[j])]
<1> DEFINE n == s.count
<1>0. /\ w = [j \in 1 .. m |-> w[j]] /\ \A j \in 1 .. m : w[j] \in Nat
      /\ \A i, j \in 1 .. m : i < j => w[i] < w[j]
  BY DEF Ascends
<1>1. PICK f : f = (CHOOSE g : IsPass(s, w, m, g)) /\ IsPass(s, w, m, f)
  BY PassFound
<1>2. FindSorted(s, w) = f[1 .. m].out
  <2>1. DOMAIN w = 1 .. m
    BY <1>0
  <2>2. FindSorted(s, w) = (CHOOSE g : IsPass(s, w, m, g))[1 .. m].out
    BY <2>1 DEF FindSorted, FoldLeft, MapThenFoldSet, IsPass, Passed
  <2> QED
    BY <1>1, <2>2
<1>3. f[1 .. 0] = [lo |-> 0, out |-> <<>>]
  <2>1. 1 .. 0 = {} /\ {} \in SUBSET (1 .. m)
    OBVIOUS
  <2> QED
    BY <1>1, <2>1 DEF IsPass
<1>4. ASSUME NEW k \in 1 .. m PROVE f[1 .. k] = Passed(s, f[1 .. k - 1], w[k])
  <2>1. PICK S : S = 1 .. k
    OBVIOUS
  <2>2. S \in SUBSET (1 .. m) /\ S # {} /\ S \ {k} = 1 .. k - 1
    BY <2>1
  <2>3. Max(S) = k
    <3>1. \A x \in S : (\A y \in S : x >= y) => x = k
      BY <2>1
    <3>2. k \in S /\ \A y \in S : k >= y
      BY <2>1
    <3> QED
      BY <3>1, <3>2 DEF Max
  <2>4. f[S] = Passed(s, f[S \ {Max(S)}], w[Max(S)])
    BY <1>1, <2>2 DEF IsPass
  <2> QED
    BY <2>1, <2>2, <2>3, <2>4
<1>5. n \in Nat /\ Places(s) = 0 .. n - 1
  BY DEF IsSnapshot, Places
<1>6. \A i \in 0 .. n - 1 : KeyAt(s, i) \in Nat
  BY <1>5, KeysAre
<1>7. \A i, j \in 0 .. n - 1 : i < j => KeyAt(s, i) <= KeyAt(s, j)
  <2>1. ASSUME NEW i \in 0 .. n - 1, NEW j \in 0 .. n - 1, i < j PROVE KeyAt(s, i) <= KeyAt(s, j)
    <3>1. PICK x \in Nat, y \in Nat : x = KeyAt(s, i) /\ y = KeyAt(s, j)
      BY <1>6
    <3>2. Follows(s, i, j)
      BY <1>5, <2>1 DEF InOrder
    <3>3. x < y \/ x = y
      BY <3>1, <3>2 DEF Follows
    <3> QED
      BY <3>1, <3>3
  <2> QED
    BY <2>1
<1>8. \A id \in Nat : Find(s, id) \in Int
  BY <1>5, FindIs
<1> DEFINE Good(k) ==
              /\ f[1 .. k].lo \in 0 .. n
              /\ k < m => \A i \in 0 .. n - 1 : i < f[1 .. k].lo => KeyAt(s, i) < w[k + 1]
              /\ f[1 .. k].out \in Seq(Int) /\ Len(f[1 .. k].out) = k
              /\ \A j \in 1 .. k : f[1 .. k].out[j] = Find(s, w[j])
<1>9. Good(0)
  BY <1>3, <1>5
<1>10. ASSUME NEW k \in 0 .. m - 1, Good(k) PROVE Good(k + 1)
  <2>1. PICK acc, id, next : acc = f[1 .. k] /\ id = w[k + 1] /\ next = f[1 .. k + 1]
    <3>1. PICK acc : acc = f[1 .. k]
      OBVIOUS
    <3>2. PICK next : next = f[1 .. k + 1]
      OBVIOUS
    <3> QED
      BY <3>1, <3>2
  <2>2. /\ acc.lo \in 0 .. n /\ \A i \in 0 .. n - 1 : i < acc.lo => KeyAt(s, i) < id
        /\ acc.out \in Seq(Int) /\ Len(acc.out) = k /\ \A j \in 1 .. k : acc.out[j] = Find(s, w[j])
    <3>1. k < m
      OBVIOUS
    <3>2. /\ f[1 .. k].lo \in 0 .. n
          /\ \A i \in 0 .. n - 1 : i < f[1 .. k].lo => KeyAt(s, i) < w[k + 1]
          /\ f[1 .. k].out \in Seq(Int) /\ Len(f[1 .. k].out) = k
          /\ \A j \in 1 .. k : f[1 .. k].out[j] = Find(s, w[j])
      BY <1>10, <3>1, Zenon
    <3> QED
      BY <2>1, <3>2, Zenon
  <2>3. id \in Nat /\ (k + 1 < m => id < w[k + 1 + 1] /\ w[k + 1 + 1] \in Nat)
    BY <1>0, <2>1
  <2>4. next = Passed(s, acc, id)
    <3>1. k + 1 \in 1 .. m /\ k + 1 - 1 = k
      OBVIOUS
    <3> QED
      BY <1>4, <2>1, <3>1
  <2>5. PICK at : Splits(s, id, at)
    BY <1>5, <1>6, <1>7, <2>3, SplitFound
  <2>6. at \in 0 .. n /\ \A i \in 0 .. n - 1 : KeyAt(s, i) < id <=> i < at
    BY <2>5 DEF Splits
  <2>7. acc.lo <= at
    BY <1>5, <2>2, <2>6
  <2>8. Gallop(s, id, acc.lo) = at
    BY <1>5, <2>2, <2>5, <2>7, GallopIs
  <2>9. LiveAt(s, id)[at] = Find(s, id)
    <3>1. LowerBound(s, id, 0, n) = Clamped(at, 0, n)
      BY <1>5, <2>5, LowerBoundIs
    <3>2. LowerBound(s, id, 0, n) = at
      BY <1>5, <2>6, <3>1 DEF Clamped
    <3> QED
      BY <3>2 DEF Find
  <2>10. next.lo = at /\ next.out = Append(acc.out, Find(s, id))
    BY <2>4, <2>8, <2>9 DEF Passed
  <2>11. /\ next.out \in Seq(Int) /\ Len(next.out) = k + 1
         /\ \A j \in 1 .. k : next.out[j] = acc.out[j]
         /\ next.out[k + 1] = Find(s, id)
    <3>1. PICK o, x : o = acc.out /\ x = Find(s, id)
      OBVIOUS
    <3>2. o \in Seq(Int) /\ Len(o) = k /\ x \in Int
      BY <1>8, <2>2, <2>3, <3>1
    <3>3. /\ Append(o, x) \in Seq(Int) /\ Len(Append(o, x)) = Len(o) + 1
          /\ \A j \in 1 .. Len(o) : Append(o, x)[j] = o[j]
          /\ Append(o, x)[Len(o) + 1] = x
      BY <3>2, AppendIs, Zenon
    <3>4. next.out = Append(o, x)
      BY <2>10, <3>1
    <3> QED
      BY <3>1, <3>2, <3>3, <3>4, Zenon
  <2>12. \A j \in 1 .. k + 1 : next.out[j] = Find(s, w[j])
    <3>1. \A j \in 1 .. k + 1 : j \in 1 .. k \/ j = k + 1
      OBVIOUS
    <3> QED
      BY <2>1, <2>2, <2>11, <3>1
  <2>13. k + 1 < m => \A i \in 0 .. n - 1 : i < next.lo => KeyAt(s, i) < w[k + 1 + 1]
    BY <1>6, <2>3, <2>6, <2>10
  <2> QED
    BY <2>1, <2>6, <2>10, <2>11, <2>12, <2>13
<1> HIDE DEF Good
<1> DEFINE T == {k \in 0 .. m : ~Good(k)}
<1>11. T = {}
  <2> SUFFICES ASSUME T # {} PROVE FALSE
    OBVIOUS
  <2>1. PICK k \in T : \A i \in T : k <= i
    <3>1. T \in SUBSET Nat
      OBVIOUS
    <3> HIDE DEF T
    <3> QED
      BY <3>1, LeastNat
  <2>2. k \in 0 .. m /\ ~Good(k) /\ k # 0
    BY <1>9
  <2>3. PICK i \in 0 .. m - 1 : k = i + 1
    <3>1. k \in 1 .. m
      BY <2>2
    <3>2. k - 1 \in 0 .. m - 1 /\ k = k - 1 + 1
      BY <3>1
    <3> QED
      BY <3>2
  <2>4. i \notin T
    <3> HIDE DEF T
    <3> QED
      BY <2>1, <2>3
  <2> QED
    BY <1>10, <2>2, <2>3, <2>4
<1>12. Good(m)
  BY <1>11
<1>13. PICK o : o = f[1 .. m].out
  OBVIOUS
<1>14. o \in Seq(Int) /\ Len(o) = m /\ \A j \in 1 .. m : o[j] = Find(s, w[j])
  BY <1>12, <1>13 DEF Good
<1>15. o = [j \in 1 .. m |-> o[j]]
  BY <1>14
<1> QED
  BY <1>2, <1>13, <1>14, <1>15

\* The one-pass lookup of a filtered search finds in every snapshot each id where find() does, whatever the ids
\* (find_sorted and find of snapshot.cpp).
THEOREM LookupsAlwaysAgree == Spec => []LookupsAgree
<1>1. ASSUME SnapshotInv PROVE LookupsAgree
  <2>1. PICK s : s = Opened(file)
    OBVIOUS
  <2>2. IsSnapshot(s) /\ InOrder(s)
    BY <1>1, <2>1 DEF SnapshotInv, Opens
  <2>3. ASSUME NEW S \in SUBSET Ids
        PROVE  FindSorted(s, Sorted(S)) = [j \in DOMAIN Sorted(S) |-> Find(s, Sorted(S)[j])]
    <3>1. PICK w, m : w = Sorted(S) /\ m = Len(w)
      OBVIOUS
    <3>0. S \in SUBSET Nat /\ IsFiniteSet(S)
      BY LayoutAssumption, FS_Subset
    <3>2. m \in Nat /\ w = [j \in 1 .. m |-> w[j]] /\ DOMAIN w = 1 .. m
      BY <3>0, <3>1, SortedIds, SortedIs
    <3>3. \A j \in 1 .. m : w[j] \in Nat
      <4>1. w \in Seq(S)
        BY <3>0, <3>1, SortedIs
      <4> QED
        BY <3>0, <3>2, <4>1
    <3>4. \A i, j \in 1 .. m : i < j => w[i] < w[j]
      <4>1. \A i, j \in DOMAIN w : i < j => w[i] < w[j]
        BY <3>0, <3>1, SortedIs, Zenon
      <4> QED
        BY <3>2, <4>1, Zenon
    <3>5. FindSorted(s, w) = [j \in 1 .. m |-> Find(s, w[j])]
      <4>1. Ascends(w, m)
        BY <3>2, <3>3, <3>4, Zenon DEF Ascends
      <4> QED
        BY <2>2, <3>2, <4>1, FindSortedIs
    <3> QED
      BY <3>1, <3>2, <3>5
  <2> QED
    BY <2>1, <2>3 DEF LookupsAgree
<1>2. SnapshotInv => LookupsAgree
  BY <1>1
<1> QED
  BY <1>2, SnapshotInvariant, PTL
==============================================================================
