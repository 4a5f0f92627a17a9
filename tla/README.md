# A TLA+ model of vvector

vvector keeps a vector index beside a Vertica database. Writers append changes to a
journal table; a refresh builds a snapshot of the vectors up to a version boundary, sends it
to every node's cache directory and moves the boundary; a query searches the snapshot of its
node and the journal rows after the boundary. This directory models the parts of that system
in which several actors, failures or long histories meet, checks them with TLC on small
instances and proves the central results with TLAPS. Paths below are relative to the
repository's root, which the modules and `PROJECT.json` call `src/` (so `src/engine/hnsw.cpp` is
`src/src/engine/hnsw.cpp` there).

1. [The system](#1-the-system)
2. [The modules](#2-the-modules)
3. [The runs](#3-the-runs)
4. [Fairness](#4-fairness)
5. [Where the code and its documents differ](#5-where-the-code-and-its-documents-differ)
6. [The proofs](#6-the-proofs)
7. [What is not modelled](#7-what-is-not-modelled)
8. [Plan](#8-plan)

## 1. The system

### Components, their state and their operations

| component | where | state it keeps | operations |
|---|---|---|---|
| Journal and exact queries | `src/udx/vsearch.cpp`, views of `sql/procedures.sql` | the journal table (`id`, `ver`, `del`, vector); the `_delta` and `_snap` views with their sentinel row (snapshot id) and the delta boundary | plan a query over a view, read the rows after the boundary, open the active snapshot, mask and add (`Journal::offer`, `apply`), answer |
| Refresh | `refresh_index_run` | the manifest row: active snapshot, chain, `delta_from`, row count and digest, `refreshes_since_verify`; the sequence of snapshot ids | read the manifest, read the locks, take the boundary, decide full or incremental, build, store pieces, load, record, make views, prune pieces |
| Refresh mark | `refresh_index_core`, schedules | `refresh_started_at`, `refresh_started_by` | read the holder, judge whether its session is gone, the conditional UPDATE, read it back, run, remove it |
| Distribution | `load_on_nodes`, `load_all`, `make_views_core`, `register_index`, `unregister_index` | `vvector.snapshot` (pieces: whole copies and patches), the views | load a snapshot on every node reached, replay a chain on nodes that lost it, make and drop views |
| Node cache | `src/engine/cache.cpp` | per node and index: `<id>.vv` files, `ACTIVE`, temporary files, `OPTIONS`; per process: mapping, time of the last look, lock | begin, write pieces, keep and resume, commit (verify, rename, activate, sweep), discard; `open_active`, one redirect included |
| Snapshot format and incremental builder | `src/engine/snapshot.cpp`, `delta.cpp`, `src/udx/vbuild.cpp`, `vload.cpp` | a file: header, vectors, ids, id order, tombstones, codes, graph; room to grow; checksum | full build; incremental build in place or by copy; diff, seal and assemble a patch; look ids up |
| HNSW graph | `src/engine/hnsw.cpp`, `reach.cpp` | lists of links per position and level, entry point, top level; global lock and lock stripes | insert on several threads, repair, extend, count unreachable positions, search |
| parallel_ranges | `src/engine/parallel.h` | the shared counter, the cancel flag, the first error | hand out ranges, poll, join |
| Exact, filtered and approximate search | `src/engine/search.cpp`, `flat.cpp`, `sq8.cpp`, the query side of `hnsw.cpp` | per search: heaps, candidates; per process: a pool of visited arrays with 16-bit stamps | top k over a snapshot and extra rows, by rows, codes or graph, with a filter and a radius |
| Search functions | `src/udx/vsearch.cpp`, `vknn.cpp`, `vscan.cpp`, settings of `udx_common.h` | per call: settings, queries, allow-list, journal, the snapshot held | read rows in any order, open and open again, search, answer, fail, be cancelled |
| Index options | `set_index_options`, `push_options`, `src/udx/vconfig.cpp` | manifest columns, `OPTIONS` files on the nodes, each with a redirect | change options, move the cache directory, roll back |
| Journal replica | `apply_replica` | one projection per journal, shared by indexes | make, take over, drop |
| Vector functions, sizing and status, installation | `vector_*.cpp`, `index_status`, `install.sql` | none of their own | functions and reports |

### How they interact

- **Shared state.** The manifest row and `vvector.snapshot` are tables, changed in short
  transactions: between two statements of a procedure anything else may happen. The views are
  replaced by DDL; a query takes a view's definition when it is planned and its rows at its read
  epoch, later.
- **Calls.** A refresh calls `vbuild` on one node, stores what it emits, and calls `vload` on every
  node its session's subcluster has up; `load_all` calls `vload` for every member of the chain.
  A query calls `vsearch` on its node.
- **Redirects.** A query cannot read the manifest. `vconfig` writes the index's options to every node: in
  the index's directory and, as a redirect, in the directories a session may look in first.
- **Files.** `vload` and the query processes of a node share a directory and no lock: rename is
  what makes a snapshot and `ACTIVE` appear.
- **Threads.** The threads of a query process share one mapping per index behind a mutex; the
  threads of a build share the graph behind a lock per list and one for the entry point.

### What is hard, and what makes each component correct

| component | hard behaviours | correct when |
|---|---|---|
| Journal, refresh | open transactions with old versions, clocks of several nodes, a refresh that rolls out node by node while queries run, failures between statements, rows changed by hand | a query answers what the journal holds at its read epoch or newer; no row is lost behind the boundary; the digest stands for the rows in the snapshot |
| Refresh mark | three sessions between read, judgement and UPDATE; killed sessions; calls that end without their handler; long refreshes | one refresh at a time; no mark stays for ever |
| Distribution | failed and crashed loads, lost caches, nodes that come back, `load_all` beside a refresh | the stored chain can always be replayed; a node in good health keeps serving |
| Node cache | a crash between rename, `ACTIVE` and sweep; a query between reading `ACTIVE` and opening the file; 200 ms of trust | `ACTIVE` resolves; the previous file stays long enough; a newer snapshot is noticed in time |
| Builder, format | long chains of changes, ids deleted and added again, two ways to build, patches made of changed bytes | every node holds the same bytes; the lookup answers the latest vector |
| Search | rows that tie, threads that take any units, heaps merged in any order, codes and walks that lose rows, visited arrays of other searches, journal rows in any order, `ACTIVE` that moves during the call | an exact search returns the k best of exactly the rows it is about; an approximate one misses candidates only |
| Options | files written one after another on several nodes, calls that fail between two of them, redirects nobody takes back | a query always gets to a directory that has the snapshot its view names; a call that ends well leaves what the manifest says |
| Graph | threads inside each other's inserts, links pruned by others, dead entry points, cancellation | lists stay sound, no position is skipped, every live one can be reached, builds end |

## 2. The modules

```
VVJournal        consolidation of journal rows: pure definitions
  VVFreshness    writers, refresh, exact queries            MCFreshness
    VVFreshnessProofs                                        theorems
VVDistribution   pieces, loads, repair, views, registration  MCDistribution
  VVDistributionProofs                                       theorems
VVNodeCache      one cache directory, step by step           MCNodeCache
  VVNodeCacheProofs                                          theorems
VVMark           the refresh mark                            MCMark
  VVMarkProofs                                               theorems
VVOptions        OPTIONS files, the move of a cache directory MCOptions
  VVOptionsProofs                                            theorems
VVContents       what a build promises (abstract)
  VVIncremental  files, incremental builds, patches          MCIncremental
    VVIncrementalProofs                                      theorems
VVGraph          HNSW: inserts, repair, extension, queries   MCGraph
  VVGraphProofs                                              theorems
VVFlat           one search, as operators
  VVSearch       one call of vsearch, vknn or vscan          MCSearch
    VVSearchProofs                                           theorems
```

`PROJECT.json` maps every definition to its lines. A definition marked `mutant` is not part of a
model: it is a plausible bug, used to show that a property can fail.

**VVJournal.** `Live(R)` is `ROW_NUMBER() OVER (PARTITION BY id ORDER BY ver DESC, del DESC) = 1`
without deletes; `Apply(S, D)` is what both `vsearch` and the incremental builder do with delta rows
over a snapshot: every id of `D` is masked in `S`, and its latest row is added.

**VVFreshness.** Writers lock the table, write rows whose version is a clock reading, and commit or
roll back. The refresh is one action per statement that another session can come between; the two
readings that make the boundary, `v_monitor.locks` and the clock, are two actions (`ReadLocks`,
`TakeBoundary`). `LoadNode` makes the new snapshot active on one node at a time. A query takes the
view (`QueryPlan`), then its read epoch (`QueryRead`), then searches any snapshot its node's
process may have mapped that is not older than the view's snapshot id (`QuerySearch`). Conventions:

- a digest (a sum of row hashes) is the set of the rows it sums over;
- a row's vector is named by its id and version, so two rows with different versions count as
  different vectors; that an unchanged vector added again keeps the snapshot (`delta.cpp:120`) is
  the subject of VVIncremental;
- versions are timestamps; INT versions take the boundary from the highest version and look at no
  writers (`procedures.sql:1104`), which their contract leaves to the margin;
- one refresh at a time, which is what VVMark is about;
- rows are changed by hand only between refreshes (`clean` records it): nothing in the repository
  says what holds when a row changes between the digest and the build's source query.

**VVDistribution.** A snapshot is its id. `pieces` holds which whole copies and patches the table
stores, `man.chain` the chain of the manifest, `cache[n]` the files and `ACTIVE` of a node. `vload` is
one step per node, or a crash inside its commit (`RefreshLoadCut`). A statement reaches the nodes of
its session's subcluster that are up; `Init` chooses between one set of all nodes and a subcluster per
node. Nodes go down and come back, cache directories are removed, `load_all` runs beside refreshes, an
index name is unregistered and registered again. `make_views_core` reads the manifest row once (`ReadRow`) and makes
both views from what it read, also when the row has gone meanwhile. `alone` in a refresh or a `load_all` says that nothing
disturbed it so far: the properties about what it does to the nodes are stated for those. `steady` is a
history variable: the nodes with the recorded snapshot that had neither a fault nor a repair since.

**VVNodeCache.** One vload at a time (two at once on one index are declared unsupported,
`docs/design.md:531`), with one action per system call that matters: the temporary file, the header
piece, keep and resume of a load in parts, verify, rename, `ACTIVE`, sweep. Two threads of one query
process call `open_active`: trust, read `ACTIVE`, take the lock, open. Either process may die
between two steps. Temporary files whose header was never written have no magic and stay, as
`docs/design.md:522-524` says; they are kept in `strays`.

**VVMark.** Only differences of times matter, so a time is kept as its age. `Sees` says which
session may look another one up in `v_monitor.sessions`: the same user or a superuser, and not a
scheduled session.

**VVOptions.** `dir[n][x]` is what the index has in cache directory `x` of node `n`: snapshot files,
`ACTIVE`, and `OPTIONS` with one value standing for the query defaults and the redirect. The three
procedures that call `vconfig` share `Begin`, `Load` and `NextMember` (`load_on_nodes`, member by member
of the chain), `WriteOptions` (`vconfig` on one node, one file per step, the index's own first) and
`Finish` (the commit; it comes last in a move and first in a change of defaults only). `Fail` may come
between any two steps and rolls back the manifest row, not the files. A query (`Plan`, `ReadOptions`,
`ReadHome`, `OpenActive`) reads one file per step. Conventions:

- one procedure runs at a time, so that what holds is the procedures' own doing; nothing in the
  repository says what holds when a move overlaps a refresh, and they can;
- the snapshot is recorded and its views made in one step (`Finish`): what lies between is in VVDistribution;
- `behind` is a history variable. A chain is loaded over a directory that already has it when `load_all`
  repairs another node; a healthy directory is then at an older member for a while, and stays there when
  the call fails. `AnswersWhileMoving` excepts those directories and no others, and so does the last part of
  `OptionsApplied`: a move onto the session's own directory that is cut off while it loads the chain again
  leaves that directory behind, and a later move that fails leaves a redirect to it, through which `load_all`
  takes it as loaded (`procedures.sql:749`). TLC shows it with five calls, on a database with one cluster too.

**VVIncremental.** A file is a function from offsets to cells: one for the header, then one per
position in each section, so that offsets, room to grow, blocks of the diff and chunks are all
there and a cell nobody wrote is 0 as in the file. `Planned` is `prepare`, `Copied` is `finish`,
`InPlace` is `finish_in_place`, `Diff`/`Joined` `snapshot_diff`, `SealedInPlace` the checksum
put together from the changed runs, `Patched` and `Assembled` what `vload` makes on another node.
The checksum, an XOR of a value per word and place, is a set of pairs under symmetric difference.
`MergedIndex` and `Diff` say where the loops of `merge_id_index` and `snapshot_diff` put an entry or start a
run: an appended id goes behind the smaller ids of the base, an entry of the base behind the appended ids up to
its own; a run starts at every differing block that does not lengthen the run before it and goes on to the first
that is not lengthened. The loops, written as recursions, gave the same results in every reachable state of the
run. A batch has at most one change per id because the refresh's query consolidates; the errors for a
batch that names an id twice are left out. Alignment, the sq8 and graph sections are left out, but for
the question whether the graph's upper part has room (`UpperFull`).

**VVContents** is the abstract specification: a map from ids to vectors to which batches are applied.
`VVIncremental` implements it under the mapping `contents <- ContentsOf(file)`, where `ContentsOf`
asks `find` for every id: property `AnswersChanges`.

**VVGraph.** A step is what a thread does under one lock: copy one list while it searches, or write
one list while it connects. Heaps are sets under the total order `nearer()`. The vectors are points of
a plane with the L2 key. A full build inserts position 0 on the calling thread, then threads take
ranges (`Take`), may be cancelled (`Cancel`) and may throw (`Throws`); `Join` throws a
cancelled or failed build away ("refused"), else the repair runs, then the graph may be extended with
positions dead and others appended (`Extend`), and repaired again. `Found` is what a query finds.
The vector sets of `MCGraph` give points, levels (arbitrary: the code hashes the id) and the size of
the full build. The walk of the repair is the least set closed under links (`Walked`), the neighbour heuristic
a function on ranks (`Select`); both are what the loops of `reach.cpp` and `select` compute, written so that
the proofs can use them.

**VVFlat** is one search as operators: `FlatSearch` (units of rows or queries, a heap per thread, merged),
`GraphSearch` and `Walk` (a beam per query, widened for a radius), `Code` (8-bit codes), `IndexSearch`
(which of them, filters copied or masked, rescoring, the journal's rows beside). Vectors are numbers, a
key is their distance, a vector near the float limit has the key `NaN`. Which thread takes which unit is
a function `turn`, any of them. What a walk can reach and what a full beam may lose (`reach`, `misses`)
are inputs: how a graph gets its links is VVGraph's subject. Constants stand for the numbers of the code
(highest code, rows one thread searches alone, rows a filter is exact for, last stamp), so that small ones
meet every case.

**VVSearch** is one call: settings (the call's, else the session's, else the index's, else a preset),
input rows in any order, `Load` moving `ACTIVE` at any time, the second opening when a row belongs to a newer
snapshot, the journal's entries and reused slots, `vknn` row by row, `vscan` block by block, every error
that ends a call, and cancellation. `Open` takes any snapshot up to the active one: the process may still
trust the older one (VVNodeCache). The answers are compared with definitions that sort all rows
(`Scored`, `BestOf`). `CallShapes` says what the calls of the model are: "no value" is not a number, given
vectors have none of it, rows carry snapshot ids that are numbers. `CallRows` says the rest that the program
requires of its input: ids are numbers, unique in a snapshot and in the table of `vscan` (README.md:523, 3994),
vectors are numbers or `Huge`, and two adds of one id with one version add the same vector, since between such adds
either may win (README.md:4009) and no answer could be called the right one.

## 3. The runs

The properties are aimed at the hazards listed in `PROJECT.json`. Each property of a passing run has
a mutant there: a plausible bug in one mapped definition that makes TLC find it violated.

| run | question | properties |
|---|---|---|
| FreshnessRollout | exact queries while a refresh rolls out over two nodes, fails anywhere and runs again | `TypeOK`, `ExactFresh`, `ExactAtEpoch`, `NoRowBehindBoundary`, `BoundaryMonotone` |
| FreshnessVerify | rows changed by hand, found by the refresh that verifies | `ActiveHoldsJournal`, `DigestCoversSnapshot` |
| FreshnessNoMargin | margin 0 on one node (violated) | `ExactFresh` |
| Distribution | chains, failed and crashed loads, lost caches, `load_all` beside a refresh, one or two subclusters | `TypeOK`, `ChainReplays`, `RepairRestores`, `PatchFindsBase`, `SteadyNodesServe`, `DeltaViewCurrent` |
| NodeCache | a load against two opening threads, crashes | `TypeOK`, `ActiveResolves`, `OneLoadOfGrace`, `NoticedInTime` |
| Mark | three sessions and the mark | `TypeOK`, `SingleRefresh`, `RunningIsMarked`, `NeverStuck` |
| Options | moves, loads and refreshes that fail at any file, queries hop by hop | `TypeOK`, `OptionsApplied`, `AnswersWhileMoving` |
| OptionsLoadAll | `load_all` after a move that failed (violated) | `LoadAllServes` |
| Incremental | chains of incremental builds | `TypeOK`, `NodesAssembleIt`, `RunsAreSound`, `LookupsAgree`, `AnswersChanges`, `BothWaysAgree` |
| Graph | parallel inserts, repair, extension | `TypeOK`, `LateNodesHidden`, `EveryPositionIn`, `NoneUnreachable`, `BuildEnds` |
| GraphFullWidth | a query as wide as the index (violated) | `FullWidthFindsAll` |
| Search | calls of `vsearch`, `vknn` and `vscan`, rows and threads in any order | `TypeOK`, `ExactAnswer`, `ApproximateAnswer`, `NewestRowsKept`, `WantedSnapshot` |

### Bounds, and why they are enough

- **FreshnessRollout**: two ids, one writer, two nodes, one query, four clock ticks, two rows, three
  snapshot ids; Margin 2 covers Skew 1 + Lag 0 + Gap 1 exactly, so one tick less of margin loses a row.
  Two rows are an add and the change or the delete of it, on either side of a boundary; two nodes are
  one that has the new snapshot and one that has not; three ids allow a full build, an
  incremental one and one that failed in between. Two writers at a time appear in FreshnessNoMargin.
- **FreshnessVerify**: `verify_every` 2, so that one refresh carries the digest and the next one
  verifies; one id, since rows do not interact across ids there; no margin and no readers, whose part
  the run before checks.
- **Distribution**: two nodes, in one subcluster or one each, three snapshot ids (a whole copy, a patch
  over it, one more of either), one registration (and its end), one fault. Three ids are the shortest chain
  in which a middle member matters; with two subclusters a refresh reaches one node and leaves the other.
- **NodeCache**: two threads, trust of one tick, two ids, three replacements of `ACTIVE`: a reader needs
  two of them between its two steps to miss its file.
- **Mark**: two sessions that see each other and one, another user's schedule, that neither sees nor is
  seen; `MinKeep` 1, `MaxBuild` 1, so a mark is kept 1 or 4 ticks; ages beyond the longest one are equal.
- **Incremental**: two ids and two vectors, every batch over them, four positions, growth 0 or 50 %,
  blocks of 2 and chunks of 4 cells. An appended id can be below, above or equal to one of the base;
  an id can stand at three positions; a layout can have room, lack it, or have room for the rows and
  not for the graph. 0 is an id, a vector, a position and the value of a cell never written.
- **Graph**: two threads, M 2, five vector sets, each for something the others do not do (all three
  ways of the repair; ties on an upper level; two appended nodes that raise the top level at once; a
  base that is all dead; clusters), up to two dead positions, ranges of two positions. M = 2 is the
  smallest m the code takes and the one at which lists are full earliest. The links this model builds
  for the two clusters were compared with those the compiled engine builds and are the same.
- **Options**: two nodes reached together, two snapshots, four calls; the session looks in the default
  directory or in one of its own, which may also be the directory an index moves to. Four calls are a
  refresh, a move that fails, what someone does next, and a repair. OptionsLoadAll needs two subclusters,
  one snapshot and five calls.
- **Search**: snapshots of three or five rows in two runs of ids, one dead, two tied; the highest code 2 and
  the last stamp 2, so that codes are equal for different vectors and the stamps of a pool wrap within
  one call; 4 rows x queries are work for two threads, filters of 2 rows are copied; kept arrays larger
  and smaller than the index, one about to wrap. The calls of `MCSearch` combine every way to search with
  radius, filter and journal, and add the errors, the calls in which `ACTIVE` moves, and walks that lose
  rows.
- **GraphFullWidth**: one thread, six vectors in two clusters, `EfConstruction` 200.

`CHECK_DEADLOCK FALSE` stands where the bounds end a behaviour (clock, ids) or where the program ends
(a build that is done).

## 4. Fairness

Only two runs state fairness; everything else is safety.

- **VVMark**: weak fairness of the clock, and of each connected session's next attempt: a scheduled job
  calls again and again and gets its statements done. Nothing is assumed of a refresh that runs: it may
  run for ever, die, or end without removing its mark, which is what `NeverStuck` is about.
- **VVGraph**: weak fairness of every thread that can take a step, and of what follows the join: the
  operating system runs every thread. None for cancellation, exceptions and the next build. A thread
  that waits for the global lock can take no step, so `BuildEnds` needs the holder to release it. Weak
  fairness is written with explicit conditions (`Runnable`, `Joinable`) in place of ENABLED.

## 5. Where the code and its documents differ

Three runs end in a violation of something the repository says of itself.

- **FreshnessNoMargin.** `README.md:997` calls margin 0 safe on one node with `CLOCK_TIMESTAMP()`
  versions. The refresh reads the locks and the clock in two statements (`procedures.sql:1110`, `1114`).
  A transaction that asks for its lock after the first and evaluates its version before the second is in
  neither reading: its row commits behind the boundary and is lost to queries. With a margin that
  covers the gap between the two statements the row is safe, for every instance (theorem `NoRowLost`).
- **OptionsLoadAll.** `README.md:1461-1462` says `load_all` loads the active snapshot on every node that
  lacks it. In the run a subcluster of node 1 refreshes, and a `set_index_options(cache_dir)` from the
  subcluster of node 2 fails after `OPTIONS` is written there: the manifest row is rolled back, the new
  directory and the redirect to it stay. `load_all` on node 2 then asks `vinfo` for the old directory
  (`procedures.sql:749`), which follows the redirect, finds the snapshot in the new one and has nothing to
  load; `push_options` (`:756`) removes the redirect, and the old directory, now the one in force, is
  empty. The comment at `procedures.sql:694-696` knows this trap, for the move back to the session's
  directory. A second `load_all` repairs the node.
- **GraphFullWidth.** `docs/design.md:123` says that with the repair a search with ef = count finds what the
  flat search finds. Repair and unreachable count start at the entry point; a search starts level 0
  where its descent ends (`hnsw.cpp:523`), and a shrunk list makes a link one-way. With m = 2 and six
  vectors a search as wide as the index misses a live vector although the count is 0.

Something smaller, without a run:

- A refresh that fails between the manifest and the views leaves `<index>_snap` at the older snapshot id, and
  later refreshes that keep the snapshot make only the other view (`procedures.sql:1369`). Snapshot-only
  searches then accept the older snapshot until something is built.
- Until the first refresh of an index its sentinel carries NULL (`procedures.sql:50`), and `vsearch` searches
  whatever cache file an older index of the same name left.
- When one node lacks the active snapshot, `load_all` replays the chain on every node it reaches
  (`procedures.sql:716`); a healthy node is behind while it does.

Hazards no property covers have a note in `PROJECT.json`. They are cases in which nothing in the repository
says what should hold (rows changed by hand between two statements of a refresh, a name registered again
while its refresh runs, a move of the directory that overlaps a refresh), or which are left to a library
(the order of candidates whose keys are no numbers), or planned (journal replicas).

## 6. The proofs

`VVFreshnessProofs` proves, for all sets of ids, writers, nodes and readers and all bounds:

| theorem | states | assumes |
|---|---|---|
| `TypeCorrect` | `[]TypeOK` | `FreshnessConstants` |
| `BoundariesAdvance` | `BoundaryMonotone` | the same |
| `NoRowLost` | `[]NoRowBehindBoundary` | and `MarginCovers` |
| `DigestCovers` | `[]DigestCoversSnapshot` | and `MarginCovers` |
| `SnapshotHoldsJournal` | `[]ActiveHoldsJournal` | and `MarginCovers` |
| `ExactQueries` | `[]ExactAtEpoch` | and `MarginCovers`, `Tamper = FALSE` |
| `FreshQueries` | `[]ExactFresh` | and `MarginCovers`, `Tamper = FALSE` |

`FreshnessConstants` says that the numbers are natural. `MarginCovers` is
`Margin >= Skew + Lag + Gap`: the margin covers the difference of clocks, the time by which a version
may precede its lock request, and the time between the refresh's two readings. FreshnessNoMargin shows
that it cannot be dropped.

The inductive invariant is `IInv == Types /\ RunFollowsManifest /\ Boundaries /\ Contents`.

- `Types` is `TypeOK` with the order of the snapshot ids: a snapshot that is being built has an id no
  other part of the state names.
- `RunFollowsManifest`: a refresh that runs still sees the manifest it read, and its boundary is not
  before the manifest's. With it boundaries are monotone.
- `Boundaries` carries the argument about time. A boundary `b` is `Settled` when the clock is
  `Skew + Lag` past it and every open transaction asked for its lock at least `Lag` after it. A settled
  boundary stays settled: a later lock request is at most `Skew` behind the clock. `LocksRead` says that
  between the two readings every writer the refresh did not see began after it looked, so the boundary it
  takes is settled when the margin covers the gap (`CutIsSettled`). The boundaries of the manifest, the
  view, the refresh and every query are settled (`BoundariesSettled`), so every row still to be
  committed is after them.
- `Contents` says what digest and snapshots hold: `store[s].rows` is `Live` of the digest's rows. It needs
  `Boundaries`, because a commit then changes no part of the journal up to a boundary
  (`SettledJournal`), and the lemma `ApplyLive`: `Apply(Live(R), D) = Live(R \cup D)` when every row of
  `D` is younger than every row of `R`. This is why an incremental build equals a full one.

`ExactQueries` adds an invariant on the queries: the snapshot a query's view names and the rows it read
after the view's boundary make up the journal of its epoch. `FreshQueries` adds that every
snapshot a node's process may have mapped holds the journal (`NodesHold`), and that one which is not older than
the snapshot somebody asks for reaches the boundary that goes with it (`SnapshotsReach`). Searched under the
rows a query read after its boundary, such a snapshot gives the rows of the epoch or newer committed ones
(`FreshResult`).

`VVMarkProofs` proves, for all sessions, whatever they see of each other, and all bounds, from
`MarkConstants` (numbers are natural, `Sees` relates sessions, and "none" is no session's name):

| theorem | states |
|---|---|
| `MarkTypes` | `[]TypeOK` |
| `YoungIsMarked` | `[]RunningIsMarked` |
| `OneYoungRefresh` | `[]SingleRefresh` |

The invariant is `TypeOK /\ Judged /\ RunningIsMarked`. `RunningIsMarked` is not inductive alone: another
call's UPDATE uses what it judged steps before. `Judged` says that this is still true then: the time it
keeps a mark is at least `MinKeep`, and a session it called gone is its own or is still gone, because
sessions do not come back. So the mark of a young refresh passes none of the three conditions
(`YoungMarkKept`), and since the row has room for one mark, two refreshes are never both young.

`VVNodeCacheProofs` proves, for any number of threads, ids and loads and every time of trust, from
`NodeCacheConstants` (the bounds are natural, `Trust` is positive, and "free" is no thread's name):

| theorem | states |
|---|---|
| `NodeCacheTypes` | `[]TypeOK` |
| `ActiveIsThere` | `[]ActiveResolves` |
| `FileOutlivesOneLoad` | `[]OneLoadOfGrace` |
| `NoStaleSnapshot` | `[]NoticedInTime` |

`DirInv` ties the steps of a load to the directory: after the rename its file is there, after the swap it
is the active one, and until the swap `prev`, read before the rename, is what `ACTIVE` names. `GraceInv`
counts the swaps since a thread read `ACTIVE`: with none its file is the active one, with one it is the `prev`
of that load, which the sweep keeps. `TimeInv` says that the time stamped on what a process knows of
`ACTIVE`, taken before the lock was, is not later than the last time that snapshot was the active one.

`VVDistributionProofs` proves, for any nodes, any ways to form subclusters of them, and any number of
snapshots and faults, from `DistributionConstants` (subclusters cover the nodes, the bounds are natural):

| theorem | states | assumes |
|---|---|---|
| `DistributionTypes` | `[]TypeOK` | `DistributionConstants` |
| `SteadyServe` | `[]SteadyNodesServe` | the same |
| `PatchesFindTheirBase` | `[]PatchFindsBase` | the same |
| `ViewsFollow` | `[]DeltaViewCurrent` | and `MaxGen <= 1` |
| `ChainsReplay` | `[]ChainReplays` | and `MaxGen <= 1` |
| `RepairsRestore` | `[]RepairRestores` | and `MaxGen <= 1` |

`MaxGen <= 1` is one registration of the name. It cannot be dropped: when the name is unregistered, which
removes the pieces, and registered again while a refresh loads, that refresh's UPDATE by name writes its
snapshot into the new row, whose chain then has no pieces (TLC finds it in eight steps with `MaxGen = 2`). And when
both happen between the reading of the row in `make_views_core` (`procedures.sql:43-46`) and its `CREATE VIEW`, the new
index gets views that ask for a snapshot of the old one (TLC finds that in ten steps). The theorems without the
assumption hold in these cases too, with the refresh of the old row as the only one that runs; whether a second one
beside it would disturb them is not modelled (the new row carries no mark).

- `IdsInv`: no view, row or reading has an id above the last one taken, which is the one a refresh loads.
- `SteadyInv`: a steady node is not behind the manifest, the views, or what `make_views` has read and not shown yet.
  Once it has loaded for the refresh that runs it is at that refresh's snapshot, so the record moves the manifest to
  where the steady nodes already are.
- `PatchInv` carries what `RefreshDecide` saw, that every node has the base, to the node's load: whatever
  changes a cache in between disturbs the refresh.
- `ChainInv`: a refresh that runs has read the row that is there, or that row is gone for good. Until it records
  it holds the manifest's chain and its stored piece continues it, and what it prunes to afterwards is the
  manifest's chain. A chain made longer by such a piece replays (`ChainGrows`).
- `ViewsInv`: between the reading of the row and the views only that row's end can come, as nothing but a record moves
  the manifest and the refresh is past its own; the snapshot read is still the active one when the views are made.
- `RepairInv` follows a `load_all` along the chain: every node has the member it loads, or the member before.
  With `ChainInv` the piece it needs is stored and its base is there.

`VVOptionsProofs` proves, for any nodes, directories, sessions, option values and calls, from `OptionsConstants`:

| theorem | states | assumes |
|---|---|---|
| `OptionsTypeCorrect` | `[]TypeOK` | `OptionsConstants` |
| `OptionsAreApplied` | `[]OptionsApplied` | and `EveryNode` |
| `QueriesAnsweredWhileMoving` | `AnswersWhileMoving` | and `EveryNode` |

`EveryNode` is a database with one cluster: a statement reaches every node, as in the run Options. It cannot be
dropped: after a move made from one subcluster the nodes of another have neither the directory nor the
redirect until `load_all` runs there (`README.md:1467`, and OptionsLoadAll). The invariant is `FilesInv /\ Loaded /\ Asked`.
`FilesInv` says which `OPTIONS` files a call has written already (`Pushed`), and that a call that ended well left
every redirect and value as the manifest has it (`Applied`). `Loaded`: the directory of the index, the one a session
is led to and the one a call has loaded to the end have the active snapshot on every node, or are recorded as
`behind`. `Asked`: a query between `OPTIONS` and `ACTIVE` is at a directory that answers it.

`VVIncrementalProofs` proves, for all ids, vectors, growths, block and chunk sizes, from `LayoutAssumption`
(finitely many ids, numbers like the vectors; a chunk is a whole number of blocks; the two marks of a batch for
"left alone" and "deleted" are no vectors; the bound on positions admits the first snapshot, which has one per id
at most):

| theorem | states |
|---|---|
| `NodesAssemble` | `[]NodesAssembleIt` |
| `PatchRunsAreSound` | `[]RunsAreSound` |
| `TypeCorrect` | `[]TypeOK`: every file a build writes passes the checks of a load, its id order above all |
| `IncrementalAnswers` | `AnswersChanges`: the refinement of VVContents |
| `WaysAgree` | `BothWaysAgree`: the build in place and the copying build write the same bytes |
| `LookupsAlwaysAgree` | `[]LookupsAgree`: the one-pass lookup finds what `find` finds |

For the first two the invariant `Inv` adds to them that the file has the cells of its layout (`IsFile`). The
argument has three parts. The build in place touches only cells of the ranges it names (`InPlaceIs`). The runs of the diff cover
every cell that differs within those ranges, lie in one chunk each and apart from each other, and the first holds the
header (`DiffServes`): every differing block belongs to the run of a first block (`RunFound`), a run ends
(`RunEnds`) in the chunk it started in because a chunk is a whole number of blocks (`RunInChunk`,
`BlockEndsInChunk`), and the header differs because a build that changes anything changes the count or the number
of tombstones. And the XOR of the base's sum with the words of the runs, before and after, is the sum of the new
file, because no word is in two runs and none outside of them changed (`SealIsChecksum`).

The other four need `SnapshotInv` (theorem `SnapshotInvariant`), which says more of the newest file: it opens as a
snapshot whose id order names every position once and has, behind the first place of an id, only lower positions,
all of them dead (`Opens`, `InOrder`), and every cell behind its positions, or in a section without content, is 0
(`Clean`). `TypeOK` alone is not inductive: without the first part `find` may lead anywhere and the next build kills
the wrong positions, without the second a build in place leaves cells that a copying build would have written as 0.
The argument goes from the lookup to the file:

1. The binary search ends at the first place that is not below the id (`LowerBoundIs`, by the least interval on which
   it does not), so in such an order `find` returns the live position of an id, or -1 if it has none (`FindIs`).
2. The places that `merge_id_index` gives the entries of the base and the appended ids are all places, each
   taken once, in the order of the ids, an appended id in front of the base's entries of its own (`PlacesMerge`, a count over both
   sequences; `MergedIs`).
3. So the next snapshot (`Grown`) is again in order: the positions it leaves behind an appended id are dead, because
   the plan killed the live one (`GrownInOrder`), and it answers the batch, and what the base answers where the
   batch says nothing (`GrownAnswers`).
4. Both ways to build leave each cell of each section as the plan has it (`Written`; `InPlaceWritten`,
   `CopiedWritten`), because the sections do not overlap (`LayersAre`). A file written so opens as `Grown`
   (`WrittenIs`), and two of them under headers of one layout are the same file (`FilesAlike`, `SameFile`).
   The full build sorts its rows and starts such a chain (`FullWritten`, `FullAnswers`).
5. The gallop from any place that is not behind the split of an id ends at that split (`GallopIs`), and the split of one id is
   not behind that of the next, so the pass over ascending ids leads where single searches do (`FindSortedIs`). The
   fold of the pass is the recursive function the library's definition unfolds to (`PassFound` says there is one).

`VVGraphProofs` proves, for any number of threads, any vector sets, any M and range size, with cancellation,
exceptions and extensions, from `VectorSets` (finitely many points with integer coordinates and a level each):

| theorem | states |
|---|---|
| `GraphTypeCorrect` | `[]TypeOK` |
| `LateNodesAreHidden` | `[]LateNodesHidden` |
| `EveryPositionIsIn` | `[]EveryPositionIn` |
| `RepairLinksEveryMissed` | a repair step always makes a link (`EveryMissedLinked`, defined with the proof) |
| `RepairLeavesNone` | a repair whose last pass made no link leaves `Unreachable` empty (`NothingMadeNoneLeft`) |

Three inductive invariants. `Inv` describes a thread by the phase of its insert (`FrameOK`), the lists by their
bounds (`GraphOK`), that no two threads own a position (`Disjoint`), the entry point and its level (`EntryOK`,
`Tops`), the global lock (`LockOK`), what each stage of a build has behind it (`Stages`), and what the repair has
reached (`RepairOK`). A position is hidden on a level while its insert has not linked it there; that nothing becomes
hidden again (`Grows`) is proved once and used by every action. `Whole` says what makes a list not empty: while
position 0 is alone every insert starts from it (`AloneOK`), and afterwards a search that starts at a linked node
finds one (`NonEmpty`). It needs that the neighbour heuristic chooses someone when there is someone (`SelectIs`).
`PassOK` says of a pass that what it has reached holds the entry point, and is what a walk visits until the pass
makes a link. That it makes one for each missed position rests on the search: each candidate expanded lowers the
number of candidates and unseen positions together (`ExpandWorks`), so the search ends (`LoopFound`) with a beam that
is not empty and inside what the repair has reached (`LoopReturns`, `SearchedIs`): `continue` in `repair()` is never
taken. `NoneUnreachable` itself does not follow for every constant: a link may take another's place
(`Replaced`), a later pass has to mend that, and after `MaxPasses` passes the repair gives up; that 16 passes
are enough is what TLC checks on the instances.

`VVSearchProofs` proves, for every set of calls and every order of their rows:

| theorem | states | assumes |
|---|---|---|
| `SearchTypeCorrect` | `[]TypeOK` | `CallShapes` |
| `NewestRowsAreKept` | `[]NewestRowsKept` | `CallShapes` |
| `WantedSnapshotAnswers` | `[]WantedSnapshot` | `CallShapes` |
| `ExactAnswers` | `[]ExactAnswer`: the k best rows, ties by id, of exactly the rows the call is about | and `CallRows` |

The invariant is `Views /\ Journaled /\ Lists`. `Views`: `wanted` is the newest snapshot id of the rows
read so far, and not newer than the snapshot held once the search begins. `Journaled`: the entry of every id is that of its newest row, and the slots of live
entries and the free slots are apart (`OfferedKeeps`: one more row keeps this, whether it is older, a delete, or a
vector that takes its id's slot, a free one or a new one). `Lists`: in the end there is one list of answers per query.

`ExactAnswers` is about the result of the whole search engine, so most of its proof is about operators. The centre is
`IsBest(h, C, k)`: h is in the order of `closer()`, has k members at most, and whoever of C is not in it
comes behind a full h.

1. A set has one list of its k best (`BestUnique`), and the definition the answers are compared with gives it
   (`BestIsSorted`). Here the ids must differ: `closer()` breaks ties by id and by nothing else.
2. One more neighbour offered to a heap keeps `IsBest` (`OfferBest`), so a scan of a block leaves the k best of
   what was there and the block (`ScanBest`); members beyond the radius never get in. Merging the k best of
   two sets gives the k best of their union (`MergeIsBest`).
3. The units of the row split cover every row once, whatever the number of threads (`UnitsAre`), each unit is
   some thread's, and so the merged heaps are the k best of all rows (`HeapsBest`, `FlatSearchBest`), as they are when
   the queries are split. The journal's answers are merged into the snapshot's the same way (`MergedBest`).
4. Therefore the plan does not matter: all rows, the allowed ones only, or the blocks of a flat snapshot and of the
   journal in one search (`PlainBest`, `ExactBest`).
5. What remains is that a call searches the right rows. On top of the invariant above, `Asked`: once started, a call
   has valid settings and queries. `ReadSoFar`: the allow-list and the journal of `vsearch` are those of the rows read.
   `KnnSoFar`: the answers of `vknn` so far are each query's k best. `ScanSoFar`: the rows of `vscan` read so far are in
   the heaps or in the block that waits. `SearchDone`: the answers of `vsearch` stay what they were.

`vscan` and `vsearch` answer when their rows end, and the rows the journal hides in the snapshot are those whose
ids it has an entry for, which is where `NewestRowsKept` is needed: a row that is not the newest must
neither answer nor hide.

Induction over data, as far as these proofs need it, is by least counterexample: a set of numbers has a least member
(`LeastNat`, from the well-foundedness of the naturals), so a first block out of a run, or a first rank without a
choice, leads to a contradiction.

Model-checked only:

- **liveness** (`NeverStuck`, `BuildEnds`), which is beyond the prover here;
- **approximate searches**: `ApproximateAnswer`, about what a walk of a graph and the rescored candidates of a code
  scan may lose: its proof would need of a walk what `IsBest` is for a scan, over beams, stamps and reach;
- **VVGraph**: `NoneUnreachable` for a repair that uses its passes up (see `RepairLeavesNone`), and
  `FullWidthFindsAll`, which fails.

## 7. What is not modelled

- **Arithmetic**: the four metrics, normalisation and SIMD kernels are floating-point arithmetic; recall is
  a measurement. The graph and the searches use one exact key. The range of the codes comes from the
  minimum and maximum of the training rows, not from quantiles of a sample.
- **Candidates without a key**: `closer()` is no order on NaN, and what `std::sort` does with it is the
  library's; VVSearch has such vectors on the exact paths. `exact_below`, which only tests set, is left out.
- **Equal versions of adds of one id** with different vectors: which one wins depends on the order of the
  rows, and the calls of `MCSearch` have none. The views never pass two rows with one id and version unless
  the journal holds them.
- **Procedures that overlap a move** of the cache directory (VVOptions runs one at a time); **two
  subclusters** in VVOptions outside OptionsLoadAll: after a move made from one of them the other's nodes
  have no redirect until `load_all` runs there (`README.md:1467`).
- **Validation of option values, and build options**, which act at the next refresh.
- **Journal replicas** (`apply_replica`): planned.
- **Two vloads of one index on one node**: declared unsupported by the design.
- **A name unregistered and registered again while its refresh runs**: the model has the step, with one
  refresh at a time (in the code the new row has no mark, so that a second refresh may start beside the old one); the
  properties of chains, repairs and views are stated for one registration: nothing says what should happen.
- **A refresh called before `register_index` has returned**: `Register` is one step, from the row to the views.
- **Formats, parsing, sizing, status, installation, memory**: no protocol; unit tests reach them.
- **A build's memory, sq8 and graph sections of a file, alignment and the limit of 2^32 positions** in
  VVIncremental; **threads that cannot be started** and **metrics other than L2** in VVGraph (VVFlat allows any
  split of the work, that of fewer threads included).

## 8. Plan

Done so far: the modules above, most important first (freshness, distribution, cache, mark, builder, graph,
search, options), and the proofs about each of them. Next, in this order:

1. **Proofs**: `ApproximateAnswer` of VVSearch; how many passes the repair of VVGraph needs.
2. **Composition**: VVDistribution's load step against VVNodeCache's steps as a refinement (a load is one
   atomic change of files and `ACTIVE`, up to a crash).
3. **VVReplica**: `apply_replica` for several indexes over one journal.
4. **VVIncremental**: the code section and the positions of appended rows in it, with `Range8` of VVFlat.
