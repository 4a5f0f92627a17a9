------------------------------- MODULE VVGraph -------------------------------
(***************************************************************************)
(* The HNSW graph of a snapshot: threads insert positions at the same time *)
(* (hnsw.cpp, Builder), one thread repairs what they left unreachable, an  *)
(* incremental build deletes and adds to the graph, and queries walk it.   *)
(*                                                                         *)
(* A step is what a thread does under one lock: it copies one list of      *)
(* links while it searches, or writes one list while it connects.  What it *)
(* does between two locks touches nothing another thread reads.  Vectors   *)
(* are points of a plane and the key is the L2 key, the square of the      *)
(* distance; heaps are sets of positions under the total order nearer().   *)
(***************************************************************************)
EXTENDS Integers, Sequences, FiniteSets

CONSTANTS
    Threads,        \* the threads of an incremental build
    BuildThreads,   \* the threads of a full build
    Caller,         \* the thread that called the build: it inserts too, and polls
    NoThread,       \* nobody holds the global lock
    Sets,           \* vector sets: where the vectors lie, their levels, how many a full build has
    M,              \* links a new node gets on each level; lists hold M, on level 0 twice M
    EfConstruction, \* candidates an insert keeps; never fewer than M
    RangeSize,          \* positions a thread takes at a time (64 in the code)
    MaxPasses,      \* passes of the repair (16 in the code)
    MaxDead         \* bound: positions that die before the incremental build

ASSUME GraphConstants ==
    /\ Caller \in BuildThreads /\ BuildThreads \subseteq Threads /\ NoThread \notin Threads
    /\ M \in Nat \ {0} /\ EfConstruction \in Nat \ {0} /\ RangeSize \in Nat \ {0}
    /\ MaxPasses \in Nat \ {0} /\ MaxDead \in Nat

\* A vector set holds positions 0, 1, ..., the first base of them for the full build, which has at least one.
ASSUME VectorSets ==
    \A s \in Sets :
        LET n == Cardinality(DOMAIN s.at)
        IN  /\ IsFiniteSet(DOMAIN s.at)
            /\ s \in [base : 1 .. n, at : [0 .. n - 1 -> Int \X Int], level : [0 .. n - 1 -> Nat]]

VARIABLES
    set,            \* the vector set of this behaviour
    dead,           \* its tombstoned positions
    count,          \* its positions: those of the full build, then all
    links,          \* links[p][l]: the neighbours of position p on level l
    entry, top,     \* the entry point and its level; -1 before the first insert
    lock,           \* the thread that holds the global lock
    next,           \* the next range nobody took
    cutoff,         \* "no"; why no new range starts: "cancelled", "error"
    thread,         \* program counter and local variables of each thread
    repair,         \* the repair's
    stage           \* what happens now: "build", "extend", ...

vars == <<set, dead, count, links, entry, top, lock, next, cutoff, thread, repair, stage>>
graphVars == <<set, dead, count, stage>>

Positions == 0 .. count - 1
AllPositions == DOMAIN set.at
Ef == IF EfConstruction < M THEN M ELSE EfConstruction
Capacity(level) == IF level = 0 THEN 2 * M ELSE M

------------------------------------------------------------------------------
(* Distances and the walks over the links.                                 *)

Key(u, v) == (u[1] - v[1]) * (u[1] - v[1]) + (u[2] - v[2]) * (u[2] - v[2])

\* The order of candidates seen from q: the key, then the position.
Nearer(q, a, b) ==
    LET ka == Key(q, set.at[a])
        kb == Key(q, set.at[b])
    IN  ka < kb \/ (ka = kb /\ a < b)
Nearest(q, S) == CHOOSE x \in S : \A y \in S \ {x} : Nearer(q, x, y)
Farthest(q, S) == CHOOSE x \in S : \A y \in S \ {x} : Nearer(q, y, x)
Ordered(q, S) ==
    [i \in 1 .. Cardinality(S) |-> CHOOSE x \in S : Cardinality({y \in S : Nearer(q, y, x)}) = i - 1]

MembersOf(seq) == {seq[i] : i \in DOMAIN seq}

MoveAround(q, cur, list) ==                     \* mutant: an equally near neighbour is a move, too
    LET others == {x \in MembersOf(list) : Key(q, set.at[x]) <= Key(q, set.at[cur])}
    IN  IF others = {} THEN cur ELSE Nearest(q, others)
\* One move on an upper level: the nearest of cur and its neighbours.
MoveOf(q, cur, list) == Nearest(q, {cur} \cup MembersOf(list))

\* The n nearest of S.
Best(q, S, n) == {x \in S : Cardinality({y \in S : Nearer(q, y, x)}) < n}

\* The beam of one search of a level: cand to expand, top the nearest kept, seen the visited.
Beam(ep, keep, skip) == [cand |-> {ep}, top |-> {ep} \cap keep, seen |-> {ep} \cup skip]
BeamEnds(b, q, ef) ==
    \/ b.cand = {}
    \/ Cardinality(b.top) >= ef /\ Nearer(q, Farthest(q, b.top), Nearest(q, b.cand))

\* The links of the nearest candidate, in the order of its list: a fresh neighbour becomes a candidate when
\* fewer than ef of those kept before it are nearer; only those in keep are kept.
Expand(b, q, ef, keep, level) ==
    LET c == Nearest(q, b.cand)
        list == links[c][level]
        fresh == {i \in DOMAIN list : list[i] \notin b.seen}
        before(i) == b.top \cup (keep \cap {list[j] : j \in {k \in fresh : k < i}})
        near == {i \in fresh : Cardinality({y \in before(i) : Nearer(q, y, list[i])}) < ef}
        found == {list[i] : i \in fresh}
    IN  [cand |-> (b.cand \ {c}) \cup {list[i] : i \in near},
         top |-> Best(q, b.top \cup (keep \cap found), ef),
         seen |-> b.seen \cup found]

\* A whole search of a level whose lists nobody changes meanwhile.
Searched(q, ep, level, ef, keep) ==
    LET beams == [cand : SUBSET Positions, top : SUBSET Positions, seen : SUBSET Positions]
        search[b \in beams] ==
            IF BeamEnds(b, q, ef) THEN b.top ELSE search[Expand(b, q, ef, keep, level)]
    IN  search[Beam(ep, keep, {})]

\* The neighbour heuristic on S: the nearest first, each one kept that is nearer to the base at q than to
\* every one kept before it; at most n.  A set of fewer than n is kept whole.
Select(q, S, n) ==
    LET c == Ordered(q, S)
        keeps[i \in DOMAIN c] ==
            \A j \in 1 .. i - 1 : keeps[j] => Key(set.at[c[i]], set.at[c[j]]) >= Key(q, set.at[c[i]])
        kept == {c[i] : i \in {j \in DOMAIN c : keeps[j]}}
    IN  IF Cardinality(S) < n THEN c ELSE Ordered(q, Best(q, kept, n))

\* What a walk over level 0 of a graph visits from the positions in todo, those in seen passed by: what is in
\* every set that holds todo and, with a position, its links.
Walked(graph, seen, todo) ==
    LET closed == {S \in SUBSET AllPositions : /\ todo \ seen \subseteq S
                                               /\ \A x \in S : MembersOf(graph[x][0]) \ seen \subseteq S}
    IN  seen \cup {x \in AllPositions : \A S \in closed : x \in S}

\* Live positions that no walk over level 0 from the entry point visits.
Unreachable == (Positions \ dead) \ Walked(links, {}, {entry})

------------------------------------------------------------------------------
(* The threads (parallel_ranges).                                          *)

Ended == [pc |-> "ended", p |-> 0, upto |-> 0, level |-> 0, cur |-> 0,
          beam |-> [cand |-> {}, top |-> {}, seen |-> {}], sel |-> <<>>, i |-> 0]
Taking == [Ended EXCEPT !.pc = "take"]
Inserting(p, upto) == [Ended EXCEPT !.pc = "start", !.p = p, !.upto = upto]

\* The caller of a full build inserts position 0 before the threads start.
First == IF stage = "build" THEN 1 ELSE set.base
RangesDown == (count - First) \div RangeSize         \* mutant: the last range only when it is a full one
Ranges == (count - First + RangeSize - 1) \div RangeSize

\* A thread takes the next range, or finds that there is none.  The threads of a full build start once
\* the first position is in.
Take(t) ==
    LET begin == First + next * RangeSize
        end == IF begin + RangeSize < count THEN begin + RangeSize ELSE count
    IN  /\ thread[t].pc = "take" /\ top >= 0
        /\ next' = next + 1
        /\ thread' = [thread EXCEPT ![t] = IF next >= Ranges THEN Ended ELSE Inserting(begin, end)]
        /\ UNCHANGED <<graphVars, links, entry, top, lock, cutoff, repair>>

\* The caller finds that the statement was cancelled: no new range starts.
Cancel ==
    /\ thread[Caller].pc = "take" /\ top >= 0
    /\ cutoff' = IF cutoff = "no" THEN "cancelled" ELSE cutoff
    /\ next' = Ranges
    /\ thread' = [thread EXCEPT ![Caller] = Ended]
    /\ UNCHANGED <<graphVars, links, entry, top, lock, repair>>

\* An insert throws: its thread ends, the global lock with it, and no new range starts.  When it is the first
\* one, before there are threads, the build ends.
Throws(t) ==
    /\ thread[t].pc \in {"start", "greedy", "search", "own", "back"}
    /\ cutoff = "no"
    /\ cutoff' = "error"
    /\ next' = Ranges
    /\ lock' = IF lock = t THEN NoThread ELSE lock
    /\ thread' = [u \in Threads |-> IF u = t \/ top < 0 THEN Ended ELSE thread[u]]
    /\ UNCHANGED <<graphVars, links, entry, top, repair>>

------------------------------------------------------------------------------
(* An insert (Builder::insert).                                            *)

LevelOf(t) == set.level[thread[t].p]
\* The highest level on which the insert searches and links.
LowTop(t, start) == IF LevelOf(t) < start THEN LevelOf(t) ELSE start

\* The thread goes down to a level: greedy above the node's own, a beam search on its own.
At(r, level, cur) ==
    IF level > set.level[r.p] THEN [r EXCEPT !.pc = "greedy", !.level = level, !.cur = cur]
    ELSE [r EXCEPT !.pc = "search", !.level = level, !.cur = cur,
                   !.beam = Beam(cur, (Positions \ dead) \ {r.p}, {r.p})]

Finished(r) == IF r.p + 1 < r.upto THEN Inserting(r.p + 1, r.upto) ELSE Taking

\* The entry point is read under the global lock, which is kept when the node becomes the new one.
Start(t) ==
    LET r == thread[t]
    IN  /\ r.pc = "start" /\ lock = NoThread
        /\ IF top < 0
           THEN /\ entry' = r.p /\ top' = set.level[r.p]
                /\ thread' = [thread EXCEPT ![t] = Finished(r)]
                /\ UNCHANGED lock
           ELSE /\ thread' = [thread EXCEPT ![t] = At([r EXCEPT !.sel = [l \in 0 .. LowTop(t, top) |-> <<>>]], top, entry)]
                /\ lock' = IF set.level[r.p] > top THEN t ELSE NoThread
                /\ UNCHANGED <<entry, top>>
        /\ UNCHANGED <<graphVars, links, next, cutoff, repair>>

\* greedy(): one look at the links of cur.
Greedy(t) ==
    LET r == thread[t]
        q == set.at[r.p]
        best == MoveOf(q, r.cur, links[r.cur][r.level])
    IN  /\ r.pc = "greedy"
        /\ thread' = [thread EXCEPT ![t] = IF best # r.cur THEN [r EXCEPT !.cur = best]
                                           ELSE At(r, r.level - 1, r.cur)]
        /\ UNCHANGED <<graphVars, links, entry, top, lock, next, cutoff, repair>>

SearchLinks(t) ==                               \* mutant: each level is linked right after its search
    LET r == thread[t]
        q == set.at[r.p]
        b == Expand(r.beam, q, Ef, (Positions \ dead) \ {r.p}, r.level)
        sel == Select(q, b.top, M)
        cur == IF sel = <<>> THEN r.cur ELSE sel[1]
    IN  /\ r.pc = "search"
        /\ thread' = [thread EXCEPT ![t] =
               IF ~BeamEnds(b, q, Ef) THEN [r EXCEPT !.beam = b]
               ELSE IF r.level > 0 THEN At(r, r.level - 1, cur)
               ELSE [r EXCEPT !.pc = "own", !.beam = Ended.beam, !.cur = 0]]
        /\ links' = IF BeamEnds(b, q, Ef) THEN [links EXCEPT ![r.p][r.level] = sel] ELSE links
        /\ UNCHANGED <<graphVars, entry, top, lock, next, cutoff, repair>>
\* search_layer(): one candidate expanded.  A level that is done gives the neighbours for it, and its
\* nearest one is where the search of the next level starts; with every level done, the node is linked.
Search(t) ==
    LET r == thread[t]
        q == set.at[r.p]
        b == Expand(r.beam, q, Ef, (Positions \ dead) \ {r.p}, r.level)
        sel == Select(q, b.top, M)
        cur == IF sel = <<>> THEN r.cur ELSE sel[1]
        chosen == [r EXCEPT !.sel[r.level] = sel]
    IN  /\ r.pc = "search"
        /\ thread' = [thread EXCEPT ![t] =
               IF ~BeamEnds(b, q, Ef) THEN [r EXCEPT !.beam = b]
               ELSE IF r.level > 0 THEN At(chosen, r.level - 1, cur)
               ELSE [chosen EXCEPT !.pc = "own", !.beam = Ended.beam, !.cur = 0]]
        /\ UNCHANGED <<graphVars, links, entry, top, lock, next, cutoff, repair>>

\* connect(), the node's own list; links already there are merged in.
ConnectOwn(t) ==
    LET r == thread[t]
        q == set.at[r.p]
        all == (MembersOf(r.sel[r.level]) \cup MembersOf(links[r.p][r.level])) \ {r.p}
    IN  /\ r.pc = "own"
        /\ links' = [links EXCEPT ![r.p][r.level] =
                        IF Cardinality(all) > Capacity(r.level) THEN Select(q, all, Capacity(r.level))
                        ELSE Ordered(q, all)]
        /\ thread' = [thread EXCEPT ![t] = [r EXCEPT !.pc = "back", !.i = 1]]
        /\ UNCHANGED <<graphVars, entry, top, lock, next, cutoff, repair>>

WithLinkLong(list, nb, p, capacity) ==          \* mutant: a list holds one more than its room
    LET q == set.at[nb]
    IN  IF p \in MembersOf(list) THEN list
        ELSE IF Len(list) <= capacity THEN Append(list, p)
        ELSE Select(q, MembersOf(list) \cup {p}, capacity)
\* The list of nb with a link to p: appended, or chosen with the heuristic when the list is full.
WithLink(list, nb, p, capacity) ==
    LET q == set.at[nb]
    IN  IF p \in MembersOf(list) THEN list
        ELSE IF Len(list) < capacity THEN Append(list, p)
        ELSE Select(q, MembersOf(list) \cup {p}, capacity)

\* connect(), the list of the next neighbour.
ConnectBack(t) ==
    LET r == thread[t]
    IN  /\ r.pc = "back" /\ r.i <= Len(r.sel[r.level])
        /\ LET nb == r.sel[r.level][r.i]
           IN  links' = [links EXCEPT ![nb][r.level] = WithLink(@, nb, r.p, Capacity(r.level))]
        /\ thread' = [thread EXCEPT ![t].i = r.i + 1]
        /\ UNCHANGED <<graphVars, entry, top, lock, next, cutoff, repair>>

\* A level is linked: the level above follows, or the insert ends, with the node as the new entry point
\* when it holds the lock.
LevelLinked(t) ==
    LET r == thread[t]
    IN  /\ r.pc = "back" /\ r.i > Len(r.sel[r.level])
        /\ IF r.level + 1 \in DOMAIN r.sel
           THEN /\ thread' = [thread EXCEPT ![t] = [r EXCEPT !.pc = "own", !.level = r.level + 1, !.i = 0]]
                /\ UNCHANGED <<entry, top, lock>>
           ELSE /\ thread' = [thread EXCEPT ![t] = Finished(r)]
                /\ IF lock = t THEN entry' = r.p /\ top' = set.level[r.p] /\ lock' = NoThread
                   ELSE UNCHANGED <<entry, top, lock>>
        /\ UNCHANGED <<graphVars, links, next, cutoff, repair>>

------------------------------------------------------------------------------
(* The repair (Builder::repair), and what is around the inserts.           *)

NoRepair == [pass |-> 0, p |-> 0, seen |-> {}, made |-> 0, last |-> -1]
RepairPass(pass) == [NoRepair EXCEPT !.pass = pass, !.seen = Walked(links, {}, {entry})]

\* Every thread ended: a cancelled build or one that failed is thrown away, as is one cancelled now.
Join ==
    /\ stage \in {"build", "extend"}
    /\ \A t \in Threads : thread[t].pc = "ended"
    /\ \/ /\ stage' = "refused"
          /\ UNCHANGED repair
       \/ /\ cutoff = "no"
          /\ stage' = IF stage = "build" THEN "repair" ELSE "repair again"
          /\ repair' = RepairPass(0)
    /\ UNCHANGED <<set, dead, count, links, entry, top, lock, next, cutoff, thread>>

\* Live positions this pass has still to link.
Missed == {p \in Positions \ dead : p >= repair.p /\ p \notin repair.seen}

\* The farthest link of x gives way to p: the first of the farthest in its list.
Replaced(x, p) ==
    LET list == links[x][0]
        away(i) == Key(set.at[x], set.at[list[i]])
        far == CHOOSE i \in DOMAIN list :
                  /\ \A j \in DOMAIN list : away(j) <= away(i)
                  /\ \A j \in 1 .. i - 1 : away(j) < away(i)
    IN  [links EXCEPT ![x][0][far] = p]

LinksFrom(p) ==                                 \* mutant: the missed node links to the reachable one
    LET q == set.at[p]
        found == Searched(q, entry, 0, Ef, Positions)
    IN  IF Len(links[p][0]) < Capacity(0) THEN [links EXCEPT ![p][0] = Append(@, Nearest(q, found))] ELSE links
\* The links with one to p: from the nearest reachable node with room that a search for p finds, else from
\* the node linked just before when it is as near as the farthest found, else in the place of the nearest
\* node's farthest link.
LinksTo(p) ==
    LET q == set.at[p]
        found == Searched(q, entry, 0, Ef, Positions)
        reached == {c \in found \cap repair.seen : c # p}
        room == {c \in reached : Len(links[c][0]) < Capacity(0)}
        last == repair.last
    IN  IF reached = {} THEN links
        ELSE IF room # {} THEN [links EXCEPT ![Nearest(q, room)][0] = Append(@, p)]
        ELSE IF /\ last >= 0 /\ last \in repair.seen
                /\ Len(links[last][0]) < Capacity(0)
                /\ Key(q, set.at[Farthest(q, found)]) >= Key(set.at[last], q)
             THEN [links EXCEPT ![last][0] = Append(@, p)]
        ELSE Replaced(Nearest(q, reached), p)

\* The lowest position the walk missed is linked, and what it leads to is reached.
RepairLink ==
    /\ stage \in {"repair", "repair again"} /\ Missed # {}
    /\ LET p == CHOOSE x \in Missed : \A y \in Missed : x <= y
           linked == LinksTo(p)
       IN  /\ links' = linked
           /\ repair' = IF linked = links THEN [repair EXCEPT !.p = p + 1]
                        ELSE [repair EXCEPT !.p = p + 1, !.made = @ + 1, !.last = p,
                                            !.seen = Walked(linked, repair.seen, {p})]
    /\ UNCHANGED <<graphVars, entry, top, lock, next, cutoff, thread>>

\* A pass that linked nothing is the last one.
RepairPassEnds ==
    /\ stage \in {"repair", "repair again"} /\ Missed = {}
    /\ IF repair.made = 0 \/ repair.pass = MaxPasses - 1
       THEN /\ stage' = IF stage = "repair" THEN "built" ELSE "extended"
            /\ repair' = NoRepair
       ELSE /\ repair' = RepairPass(repair.pass + 1)
            /\ UNCHANGED stage
    /\ UNCHANGED <<set, dead, count, links, entry, top, lock, next, cutoff, thread>>

\* An incremental build (hnsw_extend): positions died, others were appended.  A live node of the top level
\* takes the place of a dead entry point.
Extend ==
    /\ stage = "built"
    /\ stage' = "extend"
    /\ \E died \in SUBSET Positions :
          LET others == {p \in Positions \ died : set.level[p] = top}
          IN  /\ Cardinality(died) <= MaxDead
              /\ dead' = died
              /\ entry' = IF entry \in died /\ others # {} THEN CHOOSE p \in others : \A x \in others : p <= x
                          ELSE entry
    /\ count' = Cardinality(AllPositions)
    /\ next' = 0
    /\ thread' = [t \in Threads |-> Taking]
    /\ UNCHANGED <<set, links, top, lock, cutoff, repair>>

------------------------------------------------------------------------------
Init ==
    /\ set \in Sets
    /\ dead = {}
    /\ count = set.base
    /\ links = [p \in AllPositions |-> [l \in 0 .. set.level[p] |-> <<>>]]
    /\ entry = 0 /\ top = -1
    /\ lock = NoThread
    /\ next = 0
    /\ cutoff = "no"
    /\ thread = [t \in Threads |-> IF t = Caller THEN Inserting(0, 1)
                                   ELSE IF t \in BuildThreads THEN Taking ELSE Ended]
    /\ repair = NoRepair
    /\ stage = "build"

Step(t) ==
    Take(t) \/ Start(t) \/ Greedy(t) \/ Search(t) \/ ConnectOwn(t) \/ ConnectBack(t) \/ LevelLinked(t)

Next ==
    \/ \E t \in Threads : Step(t) \/ Throws(t)
    \/ Cancel \/ Join \/ RepairLink \/ RepairPassEnds \/ Extend

\* When Step(t) is enabled, and when a step outside the threads is: stated so that TLC need not try them.
Runnable(t) ==
    CASE thread[t].pc = "take" -> top >= 0
      [] thread[t].pc = "start" -> lock = NoThread
      [] thread[t].pc = "ended" -> FALSE
      [] OTHER -> TRUE
Joinable ==
    \/ stage \in {"build", "extend"} /\ \A t \in Threads : thread[t].pc = "ended"
    \/ stage \in {"repair", "repair again"}

\* Weak fairness of each thread and of what follows the join: the operating system runs every thread.
Fairness ==
    /\ \A t \in Threads : []<>~Runnable(t) \/ []<><<Step(t)>>_vars
    /\ []<>~Joinable \/ []<><<Join \/ RepairLink \/ RepairPassEnds>>_vars

Spec == Init /\ [][Next]_vars /\ Fairness

------------------------------------------------------------------------------
(* Queries (search_one).                                                   *)

\* Where the descent through the upper levels ends.
Descent(q) ==
    LET move[k \in Nat, cur \in AllPositions, level \in Nat] ==
            IF level = 0 THEN cur
            ELSE LET best == MoveOf(q, cur, links[cur][level])
                 IN  IF k = 0 \/ best = cur THEN move[count, cur, level - 1]
                     ELSE move[k - 1, best, level]
    IN  move[count, entry, top]

\* The positions a query at q finds with a candidate list of ef.
Found(q, ef) == Searched(q, Descent(q), 0, ef, Positions \ dead)

------------------------------------------------------------------------------
(* Properties.                                                             *)

\* Every variable stays in its type, and the graph passes the checks of a load (hnsw_open with verify) at
\* every moment of a build: no list too long, no link to the node itself, twice to one node or to a node
\* that is not on that level, and the entry point is on the top level.
TypeOK ==
    /\ set \in Sets /\ dead \subseteq Positions /\ entry \in Positions
    /\ lock \in Threads \cup {NoThread} /\ cutoff \in {"no", "cancelled", "error"}
    /\ stage \in {"build", "repair", "built", "extend", "repair again", "extended", "refused"}
    /\ top >= 0 => set.level[entry] = top
    /\ stage \in {"built", "extended"} => \A p \in Positions : set.level[p] <= top
    /\ \A p \in AllPositions : \A l \in DOMAIN links[p] :
          LET list == links[p][l]
          IN  /\ Len(list) <= Capacity(l) /\ Cardinality(MembersOf(list)) = Len(list)
              /\ \A x \in MembersOf(list) : x \in Positions \ {p} /\ l <= set.level[x]

\* The two phases of an insert: while a node searches no link leads to it, a node linked on a level has its
\* own lists on that level and every level below, and connect() finds its own list empty.
LateNodesHidden ==
    \A t \in Threads :
        LET r == thread[t]
            linked == IF r.pc = "back" THEN 0 .. r.level ELSE IF r.pc = "own" THEN 0 .. r.level - 1 ELSE {}
        IN  r.pc \in {"start", "greedy", "search", "own", "back"} =>
               \A l \in (0 .. set.level[r.p]) \ linked :
                   /\ links[r.p][l] = <<>>
                   /\ \A x \in Positions : l \in DOMAIN links[x] => r.p \notin MembersOf(links[x][l])

\* A graph that is kept has every position in it: none is skipped where ranges meet, no two threads insert
\* the same one, and a build that was cancelled or failed in one thread does not pass for a whole one.  (A
\* position whose search finds dead ones only gets no neighbours, so the check asks for no dead ones.)
EveryPositionIn ==
    /\ stage \in {"repair", "repair again"} /\ dead = {} /\ count > 1 =>
          \A p \in Positions : links[p][0] # <<>>
    /\ \A t \in Threads : \A u \in Threads \ {t} :
          ~{thread[t].pc, thread[u].pc} \cap {"take", "ended"} = {} \/ thread[t].p # thread[u].p

\* The repair leaves no live position that a walk over level 0 from the entry point misses, whatever the
\* inserts pruned and whichever nodes are dead.
NoneUnreachable == stage \in {"built", "extended"} => Unreachable = {}

\* Every build ends: no thread waits for ever for the global lock and no greedy walk turns in circles.
BuildEnds ==
    /\ stage = "build" ~> stage \in {"built", "refused"}
    /\ stage = "extend" ~> stage \in {"extended", "refused"}

\* What the design says of the repair: with it, a search with ef = count finds exactly what the flat
\* search finds, every live vector.
FullWidthFindsAll ==
    stage \in {"built", "extended"} =>
        \A x \in Positions \ dead : Found(set.at[x], count) = Positions \ dead
==============================================================================
