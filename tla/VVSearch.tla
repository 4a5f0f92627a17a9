------------------------------- MODULE VVSearch -------------------------------
(***************************************************************************)
(* One call of a search function: vsearch over the rows of a view, vknn    *)
(* over query vectors, vscan over a table (vsearch.cpp, vknn.cpp,          *)
(* vscan.cpp, the settings of udx_common.h).  Vertica hands the rows over  *)
(* in any order; a load may move ACTIVE to the next snapshot meanwhile.    *)
(*                                                                         *)
(* A row is [qid, qvec, id, vec, del, ver, sid], NULL columns None; vknn   *)
(* reads qvec, vscan id and vec.  BadVec is a vector with the wrong number *)
(* of elements.                                                            *)
(***************************************************************************)
EXTENDS VVFlat

CONSTANTS
    Calls,          \* the calls: [kind, params, session, given, filtered, rows, snaps, misses]
    Pools,          \* what the process may have kept of visited arrays
    BadVec,
    BlockRows,      \* rows of a block of vscan (4096 in the code)
    MaxK, MaxEf,    \* the highest k (16384) and ef_search (100000)
    LongDims,       \* elements from which balanced doubles its candidates (512)
    EfBest, EfBalanced, EfFast,     \* the presets (400, 100, 32)
    Cores,
    MaxUnits        \* bound: units that threads share freely

ASSUME SearchConstants ==
    {BlockRows, MaxK, MaxEf, EfBest, EfBalanced, EfFast, Cores, MaxUnits} \subseteq Nat \ {0}

\* A given vector is a vector; a view gives every row its snapshot's id.
ASSUME CallShapes ==
    /\ None \notin Nat \cup {"argument", "row", "stale", "changed", "no query"}
    /\ \A c \in Calls :
        /\ c.kind \in {"vsearch", "vknn", "vscan"}
        /\ c.given \in Seq(ToSet(c.given)) /\ None \notin ToSet(c.given)
        /\ c.snaps \in Seq(ToSet(c.snaps))
        /\ \A r \in c.rows : r.sid \in Nat /\ r.ver \in Nat \cup {None}

\* Vectors are numbers or Huge; ids are numbers, unique in an index and in a table.  Of two adds of one version
\* either may win (README, Restrictions), so they add one vector.
Vecs == Int \cup {Huge}
Threaded(levels) == "threads" \in DOMAIN levels => levels["threads"] \in Nat
ASSUME CallRows ==
    \A c \in Calls :
        /\ ToSet(c.given) \subseteq Vecs \cup {BadVec} /\ Threaded(c.params) /\ Threaded(c.session)
        /\ IsFiniteSet(c.rows)
        /\ \A r \in c.rows : r.id \in Int \cup {None} /\ {r.vec, r.qvec} \subseteq Vecs \cup {BadVec, None}
        /\ \A r, s \in c.rows :
              r.id = s.id /\ None \notin {r.id, r.vec, s.vec} =>
                 /\ c.kind = "vscan" => r = s
                 /\ c.kind = "vsearch" /\ r.ver = s.ver => r.vec = s.vec
        /\ c.snaps # <<>>
        /\ \A i \in DOMAIN c.snaps :
              /\ Threaded(c.snaps[i].options) /\ c.snaps[i].rows \in Seq([id : Int, vec : Vecs])
              /\ \A p, q \in DOMAIN c.snaps[i].rows \ c.snaps[i].dead :
                    c.snaps[i].rows[p].id = c.snaps[i].rows[q].id => p = q

VARIABLES
    call,           \* what was called
    active,         \* the snapshot that ACTIVE names: a position in call.snaps
    held,           \* the snapshot the call holds, 0 before it opened one
    settings,       \* its tuning values, read once
    unread, wanted, \* input rows to come; the highest snapshot_id so far
    queries, allow, \* queries [qid, vec] in order; ids of the allow-list
    journal,        \* [entry, slots, free]: the newest row of every id, its vectors, slots to use again
    block,          \* vscan: rows not searched yet
    out,            \* the answer of every query
    pool,           \* visited arrays kept between searches
    pc, why         \* where the call is; why it failed

vars == <<call, active, held, settings, unread, wanted, queries, allow, journal, block, out, pool, pc, why>>

Set == call.snaps[held]
EmptyJournal == [entry |-> <<>>, slots |-> <<>>, free |-> <<>>]

Init ==
    /\ call \in Calls /\ pool \in Pools
    /\ active = 1 /\ held = 0 /\ settings = <<>> /\ unread = call.rows /\ wanted = 0
    /\ queries = <<>> /\ allow = {} /\ journal = EmptyJournal /\ block = <<>> /\ out = <<>>
    /\ pc = "open" /\ why = None

Fail(cause) == pc' = "failed" /\ why' = cause

------------------------------------------------------------------------------
(* Settings: the call's, else the session's, else the index's, else the default.                     *)

Found(levels, name, builtin) == IF name \in DOMAIN levels THEN levels[name] ELSE builtin
Value(index, name, builtin) == Found(call.params, name, Found(call.session, name, Found(index, name, builtin)))
Given(name, builtin) == Found(call.params, name, builtin)
Threads(n) == IF n = 0 THEN Cores ELSE n

SearchSettings(index) ==
    LET precision == Value(index, "precision", "balanced")
    IN  [k |-> Value(index, "k", 10), precision |-> precision, ef |-> Value(index, "ef_search", 0),
         exact |-> Value(index, "exact", FALSE) \/ precision = "exact",
         rescore |-> Value(index, "rescore", precision # "fast"),
         preset |-> Value(index, "oversampling", None) = None,
         oversampling |-> Value(index, "oversampling",
                                CASE precision = "best" -> 4 [] precision = "balanced" -> 2 [] OTHER -> 1),
         threads |-> Threads(Value(index, "threads", 0)), radius |-> Given("radius", None),
         apply |-> Value(index, "freshness", "snapshot") = "exact"]

InRange(s) == s.k \in 1 .. MaxK /\ s.ef \in 0 .. MaxEf /\ s.oversampling \in 1 .. 100

Ef(s) ==
    CASE s.ef > 0 -> s.ef
      [] s.ef = 0 /\ s.precision = "best" -> EfBest
      [] s.ef = 0 /\ s.precision = "balanced" -> EfBalanced
      [] OTHER -> IF s.radius # None THEN EfFast ELSE Most(2 * s.k, EfFast)

Plan(s, set, filtered, positions) ==
    [graph |-> set.graph /\ ~s.exact, ef |-> Ef(s), codes |-> set.trained > 0 /\ ~s.exact,
     rescore |-> s.rescore,
     oversampling |-> IF s.preset /\ s.precision = "balanced" /\ set.dims >= LongDims THEN 4 ELSE s.oversampling,
     filtered |-> filtered, allow |-> IF filtered THEN positions ELSE {}]

Describe(qs) ==
    [queries |-> [i \in DOMAIN qs |-> qs[i].vec], k |-> settings.k, radius |-> settings.radius,
     threads |-> settings.threads]

------------------------------------------------------------------------------
(* Opening the snapshot, reading the rows.                                  *)

\* vsearch and vknn hold ACTIVE's snapshot or, for a while, one it named before.
Open ==
    /\ pc = "open" /\ call.kind # "vscan"
    /\ held' \in 1 .. active
    /\ settings' = SearchSettings(call.snaps[held'].options)
    /\ IF ~InRange(settings') \/ BadVec \in ToSet(call.given) THEN Fail("argument") /\ UNCHANGED queries
       ELSE /\ pc' = "read" /\ UNCHANGED why
            /\ queries' = IF call.kind = "vknn" THEN <<>>
                           ELSE [i \in DOMAIN call.given |-> [qid |-> 0, vec |-> call.given[i]]]
    /\ UNCHANGED <<call, active, unread, wanted, allow, journal, block, out, pool>>

Load ==
    /\ active < Len(call.snaps) /\ pc \in {"open", "read"}
    /\ active' = active + 1
    /\ UNCHANGED <<call, held, settings, unread, wanted, queries, allow, journal, block, out, pool, pc, why>>

IsQuery(r) == r.qid # None \/ r.qvec # None
IsAllowed(r) == ~IsQuery(r) /\ r.id # None /\ r.vec = None /\ r.del = None
IsJournal(r) == ~IsQuery(r) /\ r.id # None /\ (r.vec # None \/ r.del = TRUE)

\* Journal.offer: a row newer than its id's, or a delete of the same version, takes the entry.
Version(r) == IF r.ver = None THEN -1 ELSE r.ver
NewerOrSame(r, e) == Version(r) >= e.ver        \* mutant: the last of equal versions wins
Newer(r, e) == Version(r) > e.ver \/ (Version(r) = e.ver /\ r.del = TRUE /\ ~e.del)
Changed(f, x, value) == [y \in DOMAIN f \cup {x} |-> IF y = x THEN value ELSE f[y]]
Offered(j, r) ==
    LET known == r.id \in DOMAIN j.entry
        old == IF known THEN j.entry[r.id].slot ELSE None
        slot == CASE old # None -> old
                  [] old = None /\ j.free # <<>> -> Last(j.free)
                  [] OTHER -> Len(j.slots) + 1
        entry(at) == Changed(j.entry, r.id, [ver |-> Version(r), del |-> r.del = TRUE, slot |-> at])
    IN  CASE known /\ ~Newer(r, j.entry[r.id]) -> j
          [] (known => Newer(r, j.entry[r.id])) /\ r.del = TRUE ->
               [j EXCEPT !.entry = entry(None), !.free = IF old = None THEN @ ELSE Append(@, old)]
          [] OTHER ->
               [entry |-> entry(slot),
                slots |-> IF slot > Len(j.slots) THEN Append(j.slots, r.vec) ELSE [j.slots EXCEPT ![slot] = r.vec],
                free |-> IF old = None /\ j.free # <<>> THEN Front(j.free) ELSE j.free]

RowError(r) ==
    \/ IsQuery(r) /\ (r.qid = None \/ r.qvec = None \/ r.qvec = BadVec)
    \/ ~IsQuery(r) /\ r.id = None /\ (r.vec # None \/ r.del # None \/ r.ver # None)
    \/ ~IsQuery(r) /\ r.id # None /\ r.vec = None /\ r.del = FALSE
    \/ IsJournal(r) /\ settings.apply /\ BadVec \in ToSet(Offered(journal, r).slots)

VSearchRow ==
    /\ pc = "read" /\ call.kind = "vsearch"
    /\ \E r \in unread :
        /\ unread' = unread \ {r}
        /\ wanted' = Most(wanted, r.sid)
        /\ IF RowError(r) THEN Fail("row") /\ UNCHANGED <<queries, allow, journal>>
           ELSE /\ queries' = IF IsQuery(r) THEN Append(queries, [qid |-> r.qid, vec |-> r.qvec]) ELSE queries
                /\ allow' = IF IsAllowed(r) THEN allow \cup {r.id} ELSE allow
                /\ journal' = IF IsJournal(r) /\ settings.apply THEN Offered(journal, r) ELSE journal
                /\ UNCHANGED <<pc, why>>
    /\ UNCHANGED <<call, active, held, settings, block, out, pool>>

NeverStale(sid) == FALSE                         \* mutant: what the second open found is not looked at
Stale(sid) == sid < wanted
\* All rows read: the view may belong to a newer snapshot than the one held.
VSearchReopen ==
    /\ pc = "read" /\ call.kind = "vsearch" /\ unread = {}
    /\ held' = IF held < wanted THEN active ELSE held
    /\ CASE Stale(held') -> Fail("stale")
         [] ~Stale(held') /\ call.snaps[held'].dims # Set.dims -> Fail("changed")
         [] OTHER -> IF queries = <<>> THEN Fail("no query") ELSE pc' = "search" /\ UNCHANGED why
    /\ UNCHANGED <<call, active, settings, unread, wanted, queries, allow, journal, block, out, pool>>

------------------------------------------------------------------------------
(* Searching.                                                               *)

Turns == [1 .. MaxUnits -> 1 .. settings.threads]
PositionsOf(set, ids) == {p \in DOMAIN set.rows : set.rows[p].id \in ids}

\* Journal.apply: its ids hide the snapshot's, and its live rows come beside them.
LiveAdds(j, filtered, allowed) ==
    LET live == {id \in DOMAIN j.entry : ~j.entry[id].del}
        ids == Sorted(IF filtered THEN live \cap allowed ELSE live, <)
    IN  [i \in DOMAIN ids |-> [id |-> ids[i], vec |-> j.slots[j.entry[ids[i]].slot]]]

VSearchSearch ==
    /\ pc = "search" /\ call.kind = "vsearch"
    /\ LET filtered == allow # {} \/ call.filtered
           skip == Set.dead \cup PositionsOf(Set, DOMAIN journal.entry)
           plan == Plan(settings, Set, filtered, PositionsOf(Set, allow))
       IN  \E found \in {IndexSearch(Describe(queries), Set, plan, skip, LiveAdds(journal, filtered, allow),
                                     turn, call.misses, pool) : turn \in Turns} :
            out' = found.out /\ pool' = found.pool
    /\ pc' = "done"
    /\ UNCHANGED <<call, active, held, settings, unread, wanted, queries, allow, journal, block, why>>

\* vknn: every row is searched before the next is read; a row without a vector takes the query parameter.
VKnnRow ==
    /\ pc = "read" /\ call.kind = "vknn"
    /\ \E r \in unread :
        LET vec == IF r.qvec # None THEN r.qvec ELSE IF call.given = <<>> THEN None ELSE call.given[1]
            one == <<[qid |-> r.qid, vec |-> vec]>>
        IN  /\ unread' = unread \ {r}
            /\ CASE vec = None -> UNCHANGED <<queries, out, pool, pc, why>>
                 [] vec = BadVec -> Fail("row") /\ UNCHANGED <<queries, out, pool>>
                 [] OTHER ->
                      /\ \E found \in {IndexSearch(Describe(one), Set, Plan(settings, Set, FALSE, {}), Set.dead, <<>>,
                                                   turn, call.misses, pool) : turn \in Turns} :
                            out' = out \o found.out /\ pool' = found.pool
                      /\ queries' = queries \o one /\ UNCHANGED <<pc, why>>
    /\ UNCHANGED <<call, active, held, settings, wanted, allow, journal, block>>

NoAnswers(qs) == <<>>                            \* mutant: the answers of a table without rows are not there
NoneYet(qs) == [i \in DOMAIN qs |-> <<>>]
\* vscan has no index: its settings come from the call alone.
VScanOpen ==
    /\ pc = "open" /\ call.kind = "vscan"
    /\ settings' = [k |-> Given("k", 10), radius |-> Given("radius", None), threads |-> Threads(Given("threads", 1))]
    /\ IF settings'.k \notin 1 .. MaxK \/ call.given = <<>> \/ BadVec \in ToSet(call.given)
       THEN Fail("argument") /\ UNCHANGED <<queries, out>>
       ELSE /\ pc' = "read" /\ UNCHANGED why
            /\ queries' = [i \in DOMAIN call.given |-> [qid |-> i, vec |-> call.given[i]]]
            /\ out' = NoneYet(call.given)
    /\ UNCHANGED <<call, active, held, unread, wanted, allow, journal, block, pool>>

Flushed(rows, turn) ==
    IF rows = <<>> THEN out ELSE Merged(Describe(queries), out, [rows |-> rows, skip |-> {}, coded |-> None], turn)

\* A full block is searched and merged into the answers so far.
VScanRow ==
    /\ pc = "read" /\ call.kind = "vscan"
    /\ \E r \in unread :
        LET rows == IF None \in {r.id, r.vec} THEN block ELSE Append(block, [id |-> r.id, vec |-> r.vec])
            full == Len(rows) = BlockRows
        IN  /\ unread' = unread \ {r}
            /\ IF r.id # None /\ r.vec = BadVec THEN Fail("row") /\ UNCHANGED <<block, out>>
               ELSE /\ block' = IF full THEN <<>> ELSE rows
                    /\ \E turn \in Turns : out' = IF full THEN Flushed(rows, turn) ELSE out
                    /\ UNCHANGED <<pc, why>>
    /\ UNCHANGED <<call, active, held, settings, wanted, queries, allow, journal, pool>>

VScanEnd ==
    /\ pc = "read" /\ call.kind = "vscan" /\ unread = {}
    /\ \E turn \in Turns : out' = Flushed(block, turn)
    /\ block' = <<>> /\ pc' = "done"
    /\ UNCHANGED <<call, active, held, settings, unread, wanted, queries, allow, journal, pool, why>>

VKnnEnd ==
    /\ pc = "read" /\ call.kind = "vknn" /\ unread = {}
    /\ pc' = "done"
    /\ UNCHANGED <<call, active, held, settings, unread, wanted, queries, allow, journal, block, out, pool, why>>

\* isCanceled: the call returns without an error.
Cancel ==
    /\ pc \in {"read", "search"} /\ pc' = "cancelled"
    /\ UNCHANGED <<call, active, held, settings, unread, wanted, queries, allow, journal, block, out, pool, why>>

Next ==
    \/ Open \/ Load \/ VSearchRow \/ VSearchReopen \/ VSearchSearch
    \/ VKnnRow \/ VKnnEnd \/ VScanOpen \/ VScanRow \/ VScanEnd \/ Cancel

Spec == Init /\ [][Next]_vars

------------------------------------------------------------------------------
(* Properties.                                                              *)

\* Every variable stays in its type, a failed call has its reason, and a call that ends has an answer, maybe an
\* empty one, for every query it was given.
TypeOK ==
    /\ call \in Calls /\ active \in DOMAIN call.snaps \cup {1} /\ held \in 0 .. active
    /\ unread \subseteq call.rows /\ wanted \in Nat
    /\ \A i \in DOMAIN queries : queries[i].vec # None
    /\ pc \in {"open", "read", "search", "done", "failed", "cancelled"}
    /\ (pc = "failed") = (why # None)
    /\ pc = "done" => Len(out) = Len(queries)

JournalRows == IF settings.apply THEN {r \in call.rows : IsJournal(r)} ELSE {}
IsNewest(rows, r) ==
    \A s \in rows : s.id = r.id =>
        Version(s) < Version(r) \/ (Version(s) = Version(r) /\ (r.del = TRUE \/ s.del # TRUE))
NewestRows(rows) == {CHOOSE r \in rows : r.id = id /\ IsNewest(rows, r) : id \in {r.id : r \in rows}}
Filtered == call.kind = "vsearch" /\ (call.filtered \/ \E r \in call.rows : IsAllowed(r))
AllowedId(id) == Filtered => \E r \in call.rows : IsAllowed(r) /\ r.id = id

\* What a call must search: positions of the snapshot it holds, and rows beside it.
Searched ==
    CASE call.kind = "vscan" -> {}
      [] call.kind = "vknn" -> DOMAIN Set.rows \ Set.dead
      [] OTHER -> {p \in DOMAIN Set.rows \ Set.dead :
                     AllowedId(Set.rows[p].id) /\ \A r \in JournalRows : r.id # Set.rows[p].id}
Beside ==
    CASE call.kind = "vscan" -> {r \in call.rows : r.id # None /\ r.vec # None}
      [] call.kind = "vknn" -> {}
      [] OTHER -> {r \in NewestRows(JournalRows) : r.del # TRUE /\ AllowedId(r.id)}

CallPlan ==
    IF call.kind = "vscan" THEN [graph |-> FALSE, codes |-> FALSE, filtered |-> FALSE, allow |-> {}]
    ELSE Plan(settings, Set, Filtered, {p \in DOMAIN Set.rows : AllowedId(Set.rows[p].id)})
Approximate ==
    /\ CallPlan.graph \/ CallPlan.codes
    /\ ~(CallPlan.filtered /\ FewAllowed(Describe(queries), Set, CallPlan, DOMAIN Set.rows \ Searched))
CodeRange == IF CallPlan.codes THEN Range8(Set) ELSE None

\* The rows with the key they must be returned with, and the k best of them.
Scored(q) ==
    LET reported == IF Approximate /\ CallPlan.codes /\ ~CallPlan.rescore THEN CodeRange ELSE None
    IN  {x \in {[key |-> KeyOf(reported, q, Set.rows[p].vec), id |-> Set.rows[p].id] : p \in Searched}
               \cup {[key |-> KeyOf(None, q, r.vec), id |-> r.id] : r \in Beside} :
            x.key # NaN /\ Within(settings, x.key)}
BestOf(q) == Upto(Sorted(Scored(q), Closer), settings.k)

\* A search that scores every row answers every query with the k closest of exactly the rows the call
\* is about, ties by id: whatever order they came in, whichever threads took them, however a filter
\* was answered (flat.h: "depends on nothing but the data"; vsearch.cpp, vknn.cpp, vscan.cpp).
ExactAnswer ==
    pc = "done" /\ ~Approximate => \A i \in DOMAIN out : out[i] = BestOf(queries[i].vec)

\* The positions in front of p where candidates are chosen.
Ahead(q, p) ==
    LET key(x) == KeyOf(CodeRange, q, Set.rows[x].vec)
    IN  {x \in Searched : /\ CallPlan.graph => x \in Set.reach
                          /\ key(x) # NaN /\ (key(x) < key(p) \/ (key(x) = key(p) /\ x < p))}
\* Candidates that are sure to be kept: with codes a range walk may stop at its first beam.
Width ==
    LET s == IF CallPlan.codes THEN CandidateSearch(Describe(queries), Set, CallPlan) ELSE Describe(queries)
    IN  IF CallPlan.graph /\ CallPlan.codes /\ s.radius # None THEN Least(CallPlan.ef, s.k) ELSE s.k

\* An approximate search returns rows it may return, once each, in order and with their keys, and what it
\* misses of the k best was no candidate: out of the walk's reach, or behind as many as are kept.  Rows of
\* the journal are never missed (search.h, hnsw.cpp walk).
ApproximateAnswer ==
    pc = "done" /\ Approximate =>
        \A i \in DOMAIN out :
            LET q == queries[i].vec
            IN  /\ ToSet(out[i]) \subseteq Scored(q) /\ Len(out[i]) <= settings.k
                /\ \A j \in 1 .. Len(out[i]) - 1 : Closer(out[i][j], out[i][j + 1])
                /\ \A x \in ToSet(BestOf(q)) \ ToSet(out[i]) :
                    \E p \in Searched :
                        /\ Set.rows[p].id = x.id
                        /\ \/ CallPlan.graph /\ (p \notin Set.reach \/ p \in call.misses)
                           \/ Cardinality(Ahead(q, p)) >= Width

\* Of the journal rows read so far each id keeps its newest, a delete before an add of the same version, and
\* the vectors of two ids never share a slot (vsearch.cpp Journal: slots are used again).
NewestRowsKept ==
    LET rows == JournalRows \ unread
        live == {id \in DOMAIN journal.entry : ~journal.entry[id].del}
        slot(id) == journal.entry[id].slot
    IN  pc \in {"read", "search", "done"} /\ call.kind = "vsearch" =>
        /\ DOMAIN journal.entry = {r.id : r \in rows}
        /\ \A id \in DOMAIN journal.entry : \E r \in rows :
            /\ r.id = id /\ IsNewest(rows, r)
            /\ id \in live <=> r.del # TRUE
            /\ id \in live => journal.slots[slot(id)] = r.vec
        /\ \A id \in live : slot(id) \notin ToSet(journal.free)
        /\ \A a, b \in live : slot(a) = slot(b) => a = b

\* A call never answers from a snapshot older than one of its rows belongs to, and calls the cache stale
\* only when a row does (vsearch.cpp: the view is newer than the snapshot this process holds).
WantedSnapshot ==
    /\ pc = "done" => \A r \in call.rows : call.kind = "vsearch" => r.sid <= held
    /\ why = "stale" => \E r \in call.rows : r.sid > held
==============================================================================
