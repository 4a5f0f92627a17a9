----------------------------- MODULE VVFreshness -----------------------------
(***************************************************************************)
(* Freshness: what an exact query finds while writers commit rows with     *)
(* timestamp versions and a refresh moves the delta boundary.              *)
(*                                                                         *)
(*   writers    transactions on the journal table: an insert lock, rows    *)
(*              whose version is a clock reading, commit or rollback       *)
(*   refresher  vvector.refresh_index_run, one step per statement that     *)
(*              another session can come between                           *)
(*   query      vsearch over the _delta view with freshness 'exact'        *)
(*                                                                         *)
(* One refresh of an index runs at a time (the refresh mark).  The node    *)
(* caches are reduced to the snapshots that were active on each node; the  *)
(* loading of files is a model of its own.                                 *)
(***************************************************************************)
EXTENDS VVJournal, Integers, FiniteSets

CONSTANTS
    Writers,        \* sessions that write to the journal
    Nodes,          \* the database nodes, each with a snapshot cache
    Readers,        \* sessions that run exact queries
    Margin,         \* manifest.ver_margin: how far the boundary stays back
    Skew,           \* how far the clock of a writer's node may be behind the refresher's
    Lag,            \* how long before its lock request a statement may take its version (SYSDATE)
    Gap,            \* how long the refresher may stay between its lock and its clock reading
    VerifyEvery,    \* manifest.verify_every; 0 = never
    Tamper,         \* journal rows may be deleted or rewritten behind vvector's back
    MaxTime,        \* bound: the clock stops here
    MaxRows,        \* bound: journal rows, committed or not
    MaxSid          \* bound: snapshot ids taken from the sequence

ASSUME FreshnessConstants ==
    /\ Margin \in Nat /\ Skew \in Nat /\ Lag \in Nat /\ Gap \in Nat
    /\ VerifyEvery \in Nat /\ Tamper \in BOOLEAN
    /\ MaxTime \in Nat /\ MaxRows \in Nat /\ MaxSid \in Nat

VARIABLES
    now,            \* the clock of the refresher
    txn,            \* txn[w]: the open transaction of writer w
    journal,        \* the committed rows of the source table
    man,            \* the manifest row of the index
    store,          \* store[s]: what snapshot s holds
    lastSid,        \* vvector.snapshot_seq
    active,         \* active[n]: the snapshot in the ACTIVE file of node n, 0 = none
    seen,           \* seen[n]: every snapshot a process of node n may have mapped
    view,           \* the _delta view: its sentinel's snapshot id and its boundary
    ref,            \* the refresher: program counter and local variables
    query,          \* query[q]: the exact query of reader q
    clean           \* history: no row was tampered with since the active boundary was verified

vars == <<now, txn, journal, man, store, lastSid, active, seen, view, ref, query, clean>>

Sids == 1..MaxSid

Closed == [open |-> FALSE, lockAt |-> 0, rows |-> {}]
NoRun == [pc |-> "idle", prev |-> 0, from |-> 0, digest |-> {}, since |-> 0, held |-> FALSE, writer |-> 0,
          readAt |-> 0, v |-> 0, full |-> FALSE, verify |-> FALSE, next |-> {}, sid |-> 0]
NoQuery == [pc |-> "idle", sid |-> 0, from |-> 0, rows |-> {}, epoch |-> {}, used |-> 0, result |-> {}]

OpenWriters == {w \in Writers : txn[w].open}
AllRows == journal \cup UNION {txn[w].rows : w \in Writers}

Init ==
    /\ now = 0
    /\ txn = [w \in Writers |-> Closed]
    /\ journal = {}
    /\ man = [active |-> 0, from |-> 0, digest |-> {}, since |-> 0]
    /\ store = [s \in Sids |-> [rows |-> {}, upto |-> 0]]
    /\ lastSid = 0
    /\ active = [n \in Nodes |-> 0]
    /\ seen = [n \in Nodes |-> {}]
    /\ view = [sid |-> 0, from |-> 0]
    /\ ref = NoRun
    /\ query = [q \in Readers |-> NoQuery]
    /\ clean = TRUE

journalVars == <<now, txn, journal>>
indexVars == <<man, store, lastSid, active, seen, view>>

------------------------------------------------------------------------------
(* Writers and the clock.                                                  *)

\* The clock moves.  Between the refresher's lock reading and its clock reading at most Gap passes.
Tick ==
    /\ now < MaxTime
    /\ ref.pc = "locks" => now < ref.readAt + Gap
    /\ now' = now + 1
    /\ UNCHANGED <<txn, journal, indexVars, ref, query, clean>>

\* A writer's first INSERT asks for the table's insert lock at time t of its node's clock: v_monitor.locks
\* shows it from now on.
LockTable(w, t) ==
    /\ ~txn[w].open
    /\ t <= now /\ now <= t + Skew
    /\ txn' = [txn EXCEPT ![w] = [open |-> TRUE, lockAt |-> t, rows |-> {}]]
    /\ UNCHANGED <<now, journal, indexVars, ref, query, clean>>

\* An INSERT evaluates its version: after the lock request (CLOCK_TIMESTAMP), or at the start of the
\* statement, up to Lag before it (SYSDATE).
WriteRow(w, i, v, d) ==
    /\ txn[w].open
    /\ v + Lag > txn[w].lockAt /\ v <= now
    /\ LET r == [id |-> i, ver |-> v, del |-> d] IN
       /\ r \notin AllRows /\ Cardinality(AllRows) < MaxRows
       /\ txn' = [txn EXCEPT ![w].rows = @ \cup {r}]
    /\ UNCHANGED <<now, journal, indexVars, ref, query, clean>>

Commit(w) ==
    /\ txn[w].open
    /\ journal' = journal \cup txn[w].rows
    /\ txn' = [txn EXCEPT ![w] = Closed]
    /\ UNCHANGED <<now, indexVars, ref, query, clean>>

Rollback(w) ==
    /\ txn[w].open
    /\ txn' = [txn EXCEPT ![w] = Closed]
    /\ UNCHANGED <<now, journal, indexVars, ref, query, clean>>

\* Behind vvector's back: a committed row is deleted (a physical DELETE, a dropped partition) or a row is
\* written with an old version by hand; a physical UPDATE is the one and then the other.  Only while no
\* refresh runs: nothing is stated about changes made between two statements of one refresh.
TamperWith(r) ==
    /\ Tamper
    /\ ref.pc = "idle"
    /\ \/ r \in journal /\ journal' = journal \ {r}
       \/ /\ r \notin AllRows /\ r.ver <= now /\ Cardinality(AllRows) < MaxRows
          /\ journal' = journal \cup {r}
    /\ clean' = FALSE
    /\ UNCHANGED <<now, txn, indexVars, ref, query>>

------------------------------------------------------------------------------
(* The refresh.                                                            *)

\* The manifest row, read once.
RefreshBegin ==
    /\ ref.pc = "idle"
    /\ lastSid < MaxSid
    /\ ref' = [NoRun EXCEPT !.pc = "begun", !.prev = man.active, !.from = man.from,
                            !.digest = man.digest, !.since = man.since]
    /\ UNCHANGED <<journalVars, indexVars, query, clean>>

\* w_since, the earliest lock request of an open writer: a statement of its own.
ReadLocks ==
    /\ ref.pc = "begun"
    /\ \/ /\ OpenWriters = {}
          /\ ref' = [ref EXCEPT !.pc = "locks", !.readAt = now]
       \/ \E w \in OpenWriters :
          /\ \A u \in OpenWriters : txn[w].lockAt <= txn[u].lockAt
          /\ ref' = [ref EXCEPT !.pc = "locks", !.readAt = now, !.held = TRUE, !.writer = txn[w].lockAt]
    /\ UNCHANGED <<journalVars, indexVars, query, clean>>

\* LEAST(clock, w_since).
CutNoWriters == now             \* mutant: open writers do not hold the boundary back
Cut == IF ref.held THEN ref.writer ELSE now

\* Cut - margin, and never before the previous boundary.
BoundaryNoMargin == IF Cut > ref.from THEN Cut ELSE ref.from           \* mutant: the margin is forgotten
BoundaryMayDrop == IF Cut > Margin THEN Cut - Margin ELSE 0            \* mutant: the previous boundary is
BoundaryUnchecked == Cut - Margin                                      \* mutant: so is the first one's floor
NewBoundary == IF Cut > ref.from + Margin THEN Cut - Margin ELSE ref.from

TakeBoundary ==
    /\ ref.pc = "locks"
    /\ ref' = [ref EXCEPT !.pc = "boundary", !.v = NewBoundary]
    /\ UNCHANGED <<journalVars, indexVars, query, clean>>

\* A full build is needed when there is no snapshot to continue, or some node does not hold it.
NoBase == ref.prev = 0 \/ \E n \in Nodes : active[n] # ref.prev

\* verify_every N: every N-th refresh looks at all rows up to the previous boundary.
VerifyDue == VerifyEvery > 0 /\ ref.since + 1 >= VerifyEvery

\* The verification: the rows up to the previous boundary are not those the last refresh counted.  A
\* digest is the set of rows it sums over.
NeverChanged == FALSE                                                  \* mutant: the digests are not compared
JournalChanged == Upto(journal, ref.from) # ref.digest

\* Without it the digest is carried forward by the rows between the two boundaries.
NothingCarried == ref.digest                                           \* mutant: those rows are left out
Carried == ref.digest \cup Between(journal, ref.from, ref.v)

\* Full or incremental, and the digest of the rows up to the new boundary.  forced stands for the reasons
\* that lie in the options: mode full, changed build options, another format version, tombstone_ratio,
\* rebuild_every.
Decide(forced) ==
    LET rebuild == forced \/ NoBase
        verify == rebuild \/ VerifyDue
    IN
    /\ ref.pc = "boundary"
    /\ ref' = [ref EXCEPT !.pc = "decided", !.verify = verify,
                          !.full = rebuild \/ (verify /\ JournalChanged),
                          !.next = IF verify THEN Upto(journal, ref.v) ELSE Carried]
    /\ UNCHANGED <<journalVars, indexVars, query, clean>>

\* What vbuild makes of the source query's rows.
BuiltPastBoundary ==            \* mutant: a full build reads the rows after the boundary too
    IF ref.full THEN Live(journal)
    ELSE Apply(store[ref.prev].rows, Between(journal, ref.from, ref.v))
Built ==
    IF ref.full THEN Live(Upto(journal, ref.v))
    ELSE Apply(store[ref.prev].rows, Between(journal, ref.from, ref.v))

\* The snapshot is built and its pieces are stored, unless nothing changed (incremental: the active
\* snapshot is kept) or there is nothing to build (full: an error).
Build ==
    /\ ref.pc = "decided"
    /\ lastSid' = lastSid + 1
    /\ \/ /\ ref.full /\ Built = {}
          /\ ref' = NoRun
          /\ UNCHANGED store
       \/ /\ ~ref.full /\ Built = store[ref.prev].rows
          /\ ref' = [ref EXCEPT !.pc = "keep"]
          /\ UNCHANGED store
       \/ /\ IF ref.full THEN Built # {} ELSE Built # store[ref.prev].rows
          /\ store' = [store EXCEPT ![lastSid + 1] = [rows |-> Built, upto |-> ref.v]]
          /\ ref' = [ref EXCEPT !.pc = "load", !.sid = lastSid + 1]
    /\ UNCHANGED <<journalVars, man, active, seen, view, query, clean>>

Since == IF ref.verify THEN 0 ELSE ref.since + 1

\* No vector changed: only the boundary and the digest move.
KeepSnapshot ==
    /\ ref.pc = "keep"
    /\ man' = [man EXCEPT !.from = ref.v, !.digest = ref.next, !.since = Since]
    /\ store' = [store EXCEPT ![ref.prev].upto = ref.v]
    /\ ref' = [ref EXCEPT !.pc = "views"]
    /\ clean' = (clean \/ ref.verify)
    /\ UNCHANGED <<journalVars, lastSid, active, seen, view, query>>

\* vload on one node; the nodes do not wait for each other.
LoadNode(n) ==
    /\ ref.pc = "load"
    /\ active[n] # ref.sid
    /\ active' = [active EXCEPT ![n] = ref.sid]
    /\ seen' = [seen EXCEPT ![n] = @ \cup {ref.sid}]
    /\ UNCHANGED <<journalVars, man, store, lastSid, view, ref, query, clean>>

\* Every node has loaded it: the manifest names the new snapshot.
RecordSnapshot ==
    /\ ref.pc = "load"
    /\ \A n \in Nodes : active[n] = ref.sid
    /\ man' = [active |-> ref.sid, from |-> ref.v, digest |-> ref.next, since |-> Since]
    /\ ref' = [ref EXCEPT !.pc = "views"]
    /\ clean' = (clean \/ ref.verify)
    /\ UNCHANGED <<journalVars, store, lastSid, active, seen, view, query>>

\* The _delta view is made from the manifest row; the refresh ends.
MakeView ==
    /\ ref.pc = "views"
    /\ view' = [sid |-> man.active, from |-> man.from]
    /\ ref' = NoRun
    /\ UNCHANGED <<journalVars, man, store, lastSid, active, seen, query, clean>>

\* An error, a cancelled or a killed session, between any two statements.
RefreshFails ==
    /\ ref.pc # "idle"
    /\ ref' = NoRun
    /\ UNCHANGED <<journalVars, indexVars, query, clean>>

------------------------------------------------------------------------------
(* An exact query.                                                         *)

\* The statement is planned: the view's definition is taken.
QueryPlan(q) ==
    /\ query[q].pc = "idle"
    /\ view.sid # 0
    /\ query' = [query EXCEPT ![q] = [NoQuery EXCEPT !.pc = "planned", !.sid = view.sid, !.from = view.from]]
    /\ UNCHANGED <<journalVars, indexVars, ref, clean>>

\* The statement's read epoch: the delta rows vsearch will be given.  epoch is kept as history.
QueryRead(q) ==
    /\ query[q].pc = "planned"
    /\ query' = [query EXCEPT ![q].pc = "read", ![q].rows = After(journal, query[q].from), ![q].epoch = journal]
    /\ UNCHANGED <<journalVars, indexVars, ref, clean>>

\* mutant: any mapped snapshot will do.
QuerySearchAny(q, n) ==
    /\ query[q].pc = "read"
    /\ \E s \in seen[n] :
          query' = [query EXCEPT ![q].pc = "done", ![q].used = s, ![q].result = Apply(store[s].rows, query[q].rows)]
    /\ UNCHANGED <<journalVars, indexVars, ref, clean>>

\* vsearch on node n, over a snapshot its process has mapped or the one ACTIVE names; one that is older
\* than the view's snapshot id is read again, and refused when it still is.
QuerySearch(q, n) ==
    /\ query[q].pc = "read"
    /\ \E s \in seen[n] :
          /\ s >= query[q].sid
          /\ query' = [query EXCEPT ![q].pc = "done", ![q].used = s,
                                    ![q].result = Apply(store[s].rows, query[q].rows)]
    /\ UNCHANGED <<journalVars, indexVars, ref, clean>>

\* The result is out (or the statement fails); the next one may start.
QueryEnd(q) ==
    /\ query[q].pc # "idle"
    /\ query' = [query EXCEPT ![q] = NoQuery]
    /\ UNCHANGED <<journalVars, indexVars, ref, clean>>

------------------------------------------------------------------------------
Versions == 1..MaxTime

WriterStep(w) ==
    \/ \E t \in 0..MaxTime : LockTable(w, t)
    \/ \E i \in Ids, v \in Versions, d \in BOOLEAN : WriteRow(w, i, v, d)
    \/ Commit(w) \/ Rollback(w)

Tampering == \E i \in Ids, v \in Versions, d \in BOOLEAN : TamperWith([id |-> i, ver |-> v, del |-> d])

RefreshStep ==
    \/ RefreshBegin \/ ReadLocks \/ TakeBoundary
    \/ \E forced \in BOOLEAN : Decide(forced)
    \/ Build \/ KeepSnapshot
    \/ \E n \in Nodes : LoadNode(n)
    \/ RecordSnapshot \/ MakeView \/ RefreshFails

QueryStep(q) ==
    \/ QueryPlan(q) \/ QueryRead(q) \/ QueryEnd(q)
    \/ \E n \in Nodes : QuerySearch(q, n)

Next ==
    \/ Tick
    \/ \E w \in Writers : WriterStep(w)
    \/ Tampering
    \/ RefreshStep
    \/ \E q \in Readers : QueryStep(q)

Spec == Init /\ [][Next]_vars

------------------------------------------------------------------------------
(* Properties.                                                             *)

Transaction == [open : BOOLEAN, lockAt : Nat, rows : SUBSET Row]
Manifest == [active : Nat, from : Nat, digest : SUBSET Row, since : Nat]
Snapshot == [rows : SUBSET Row, upto : Nat]
View == [sid : Nat, from : Nat]
Run == [pc : {"idle", "begun", "locks", "boundary", "decided", "keep", "load", "views"}, prev : Nat, from : Nat,
        digest : SUBSET Row, since : Nat, held : BOOLEAN, writer : Nat, readAt : Nat, v : Nat, full : BOOLEAN,
        verify : BOOLEAN, next : SUBSET Row, sid : Nat]
Query == [pc : {"idle", "planned", "read", "done"}, sid : Nat, from : Nat, rows : SUBSET Row, epoch : SUBSET Row,
          used : Nat, result : SUBSET Row]

\* Every variable stays in its type.
TypeOK ==
    /\ now \in Nat /\ lastSid \in Nat /\ clean \in BOOLEAN
    /\ txn \in [Writers -> Transaction]
    /\ journal \in SUBSET Row
    /\ man \in Manifest /\ view \in View /\ ref \in Run
    /\ store \in [Sids -> Snapshot]
    /\ active \in [Nodes -> Nat] /\ seen \in [Nodes -> SUBSET Sids]
    /\ query \in [Readers -> Query]

\* The active snapshot holds exactly the live rows of the journal up to the manifest's boundary: no row is
\* committed later with a version the boundary has passed, and a physical change is found by the
\* verification (clean: by the last refresh that verified).
ActiveHoldsJournal ==
    clean /\ man.active # 0 => store[man.active].rows = Live(Upto(journal, man.from))

\* A row may still be committed only with a version after the boundary every reader relies on.
NoRowBehindBoundary ==
    \A w \in Writers : \A r \in txn[w].rows : r.ver > man.from /\ r.ver > view.from

\* An exact query returns, for every id, the row the journal had when the statement read it or a newer
\* committed one: nothing older, nothing missing, no deleted row, no row twice, although the snapshot of a
\* refresh that is still running (or failed) may already be active on the node.
ExactFresh ==
    \A q \in Readers : LET x == query[q] IN x.pc = "done" =>
        /\ x.result \subseteq journal
        /\ \A r \in x.result : ~r.del /\ \A e \in x.epoch : ~Beats(e, r)
        /\ \A r, s \in x.result : r.id = s.id => r = s
        /\ \A l \in Live(x.epoch) :
              \/ \E r \in x.result : r.id = l.id
              \/ \E d \in journal \ x.epoch : d.del /\ Beats(d, l)

\* With the very snapshot its view names, the result is the consolidated journal of the read epoch.
ExactAtEpoch ==
    \A q \in Readers : LET x == query[q] IN
        x.pc = "done" /\ x.used = x.sid => x.result = Live(x.epoch)

\* The digest in the manifest is that of the rows the active snapshot was made from, so a later physical
\* change of any of them changes it.
DigestCoversSnapshot ==
    man.active # 0 => store[man.active].rows = Live(man.digest)

\* The delta boundary never moves back, neither in the manifest nor in the view.
BoundaryMonotone == [][man'.from >= man.from /\ view'.from >= view.from]_vars
==============================================================================
