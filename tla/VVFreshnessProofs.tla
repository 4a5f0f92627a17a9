-------------------------- MODULE VVFreshnessProofs --------------------------
(***************************************************************************)
(* Theorems about VVFreshness, for every set of ids, writers, nodes and    *)
(* readers and every value of the bounds.                                  *)
(*                                                                         *)
(* Outline.  Types carries the types and the order of snapshot ids.        *)
(* Boundaries says that every boundary somebody relies on is settled: no   *)
(* open or future transaction can still commit a row behind it.  Contents  *)
(* says what the manifest's digest and the stored snapshots hold; it needs *)
(* Boundaries, because a commit changes no settled part of the journal.    *)
(***************************************************************************)
EXTENDS VVFreshness, NaturalsInduction, WellFoundedInduction, TLAPS

------------------------------------------------------------------------------
(* Types.                                                                  *)

\* Snapshot ids are taken in order, and a refresh names only ids that were taken.
SidOrder ==
    /\ lastSid \in 0..MaxSid
    /\ man.active \in 0..lastSid
    /\ ref.pc # "idle" => ref.prev \in 0..lastSid
    /\ ref.pc \in {"begun", "locks", "boundary", "decided"} => lastSid < MaxSid
    /\ ref.pc = "decided" /\ ~ref.full => ref.prev # 0
    /\ ref.pc = "keep" => ref.prev # 0
    /\ ref.pc = "load" => ref.sid \in 1..lastSid

Types == TypeOK /\ SidOrder

\* What Apply, Live and the parts of a journal return is a set of rows.
LEMMA JournalTypes ==
    /\ \A R \in SUBSET Row : Live(R) \in SUBSET Row
    /\ \A R, D \in SUBSET Row : Apply(R, D) \in SUBSET Row
    /\ \A R \in SUBSET Row, b \in Nat : Upto(R, b) \in SUBSET Row
    /\ \A R \in SUBSET Row, b \in Nat : After(R, b) \in SUBSET Row
    /\ \A R \in SUBSET Row, lo, hi \in Nat : Between(R, lo, hi) \in SUBSET Row
BY DEF Live, Apply, Upto, After, Between

\* What each kind of step leaves alone.
LEMMA Frames ==
    /\ Tick => UNCHANGED <<txn, journal, indexVars, ref, query, clean>>
    /\ \A w \in Writers : WriterStep(w) => UNCHANGED <<now, indexVars, ref, query, clean>>
    /\ Tampering => UNCHANGED <<now, txn, indexVars, ref, query>>
    /\ RefreshStep => UNCHANGED <<journalVars, query>>
    /\ \A q \in Readers : QueryStep(q) => UNCHANGED <<journalVars, indexVars, ref, clean>>
<1>1. Tick => UNCHANGED <<txn, journal, indexVars, ref, query, clean>>
  BY DEF Tick
<1>2. ASSUME NEW w \in Writers, WriterStep(w) PROVE UNCHANGED <<now, indexVars, ref, query, clean>>
  BY <1>2 DEF WriterStep, LockTable, WriteRow, Commit, Rollback
<1>3. Tampering => UNCHANGED <<now, txn, indexVars, ref, query>>
  BY DEF Tampering, TamperWith
<1>4. RefreshStep => UNCHANGED <<journalVars, query>>
  BY DEF RefreshStep, RefreshBegin, ReadLocks, TakeBoundary, Decide, Build, KeepSnapshot, LoadNode, RecordSnapshot,
         MakeView, RefreshFails
<1>5. ASSUME NEW q \in Readers, QueryStep(q) PROVE UNCHANGED <<journalVars, indexVars, ref, clean>>
  BY <1>5 DEF QueryStep, QueryPlan, QueryRead, QuerySearch, QueryEnd
<1> QED
  BY <1>1, <1>2, <1>3, <1>4, <1>5

\* Every step keeps the types (snapshot ids included).
LEMMA TypesStep == Types /\ [Next]_vars => Types'
<1> SUFFICES ASSUME Types, [Next]_vars PROVE Types'
  OBVIOUS
<1> USE FreshnessConstants
<1>1. CASE Tick
  BY <1>1 DEF Tick, Types, TypeOK, SidOrder, indexVars
<1>2. ASSUME NEW w \in Writers, NEW t \in 0..MaxTime, LockTable(w, t) PROVE Types'
  BY <1>2 DEF LockTable, Transaction, Types, TypeOK, SidOrder, indexVars
<1>3. ASSUME NEW w \in Writers, NEW i \in Ids, NEW v \in Versions, NEW d \in BOOLEAN, WriteRow(w, i, v, d) PROVE Types'
  <2> DEFINE r == [id |-> i, ver |-> v, del |-> d]
  <2>1. r \in Row
    BY DEF Row, Versions
  <2>2. txn' = [txn EXCEPT ![w].rows = @ \cup {r}]
    BY <1>3 DEF WriteRow
  <2> HIDE DEF r
  <2> QED
    BY <1>3, <2>1, <2>2 DEF WriteRow, Transaction, Types, TypeOK, SidOrder, indexVars
<1>4. ASSUME NEW w \in Writers, Commit(w) PROVE Types'
  BY <1>4 DEF Commit, Closed, Transaction, Types, TypeOK, SidOrder, indexVars
<1>5. ASSUME NEW w \in Writers, Rollback(w) PROVE Types'
  BY <1>5 DEF Rollback, Closed, Transaction, Types, TypeOK, SidOrder, indexVars
<1>6. ASSUME NEW r \in Row, TamperWith(r) PROVE Types'
  BY <1>6 DEF TamperWith, Types, TypeOK, SidOrder, indexVars
<1>7. CASE RefreshBegin
  BY <1>7 DEF RefreshBegin, NoRun, Run, Manifest, Types, TypeOK, SidOrder, journalVars, indexVars
<1>8. CASE ReadLocks
  <2>1. \A w \in OpenWriters : txn[w].lockAt \in Nat
    BY DEF OpenWriters, Transaction, Types, TypeOK
  <2>2. now \in Nat /\ ref \in Run
    BY DEF Types, TypeOK
  <2>3. ref' \in Run /\ ref.pc = "begun" /\ ref'.pc = "locks" /\ ref'.prev = ref.prev
    BY <1>8, <2>1, <2>2, ZenonT(40) DEF ReadLocks, Run
  <2> QED
    BY <1>8, <2>3 DEF ReadLocks, Types, TypeOK, SidOrder, journalVars, indexVars
<1>9. CASE TakeBoundary
  <2>1. NewBoundary \in Nat
    BY DEF NewBoundary, Cut, Run, Types, TypeOK
  <2> QED
    BY <1>9, <2>1 DEF TakeBoundary, Run, Types, TypeOK, SidOrder, journalVars, indexVars
<1>10. ASSUME NEW forced \in BOOLEAN, Decide(forced) PROVE Types'
  <2>1. /\ Upto(journal, ref.v) \in SUBSET Row
        /\ Carried \in SUBSET Row
    BY JournalTypes DEF Carried, Run, Types, TypeOK
  <2>2. ~(forced \/ NoBase) => ref.prev # 0
    BY DEF NoBase
  <2>3. /\ ref.pc = "boundary"
        /\ ref' = [ref EXCEPT !.pc = "decided", !.verify = forced \/ NoBase \/ VerifyDue,
                              !.full = forced \/ NoBase \/ ((forced \/ NoBase \/ VerifyDue) /\ JournalChanged),
                              !.next = IF forced \/ NoBase \/ VerifyDue THEN Upto(journal, ref.v) ELSE Carried]
        /\ UNCHANGED <<journalVars, indexVars, query, clean>>
    BY <1>10 DEF Decide
  <2>4. /\ NoBase \in BOOLEAN /\ VerifyDue \in BOOLEAN /\ JournalChanged \in BOOLEAN
    BY DEF NoBase, VerifyDue, JournalChanged
  <2> QED
    BY <2>1, <2>2, <2>3, <2>4 DEF Run, Types, TypeOK, SidOrder, journalVars, indexVars
<1>11. CASE Build
  <2>1. lastSid + 1 \in Sids /\ ref.pc = "decided"
    BY <1>11 DEF Build, Types, TypeOK, SidOrder, Sids
  <2>2. Built \in SUBSET Row
    <3>1. journal \in SUBSET Row /\ ref.v \in Nat /\ ref.from \in Nat
      BY DEF Run, Types, TypeOK
    <3>2. ~ref.full => store[ref.prev].rows \in SUBSET Row
      BY <2>1 DEF Snapshot, Types, TypeOK, SidOrder, Sids
    <3>3. /\ Upto(journal, ref.v) \in SUBSET Row
          /\ Between(journal, ref.from, ref.v) \in SUBSET Row
      BY <3>1, JournalTypes
    <3>4. /\ Live(Upto(journal, ref.v)) \in SUBSET Row
          /\ ~ref.full => Apply(store[ref.prev].rows, Between(journal, ref.from, ref.v)) \in SUBSET Row
      BY <3>2, <3>3, JournalTypes
    <3> QED
      BY <3>4 DEF Built
  <2>3. store' \in [Sids -> Snapshot]
    <3>1. [rows |-> Built, upto |-> ref.v] \in Snapshot
      BY <2>2 DEF Run, Snapshot, Types, TypeOK
    <3> QED
      BY <1>11, <3>1 DEF Build, Types, TypeOK
  <2>4. ref' \in Run /\ lastSid' = lastSid + 1
        /\ \/ ref'.pc = "idle"
           \/ ref'.pc = "keep" /\ ref'.prev = ref.prev /\ ~ref.full
           \/ ref'.pc = "load" /\ ref'.prev = ref.prev /\ ref'.sid = lastSid + 1
    <3>1. ref \in Run /\ lastSid \in Nat
      BY DEF Types, TypeOK
    <3>2. NoRun \in Run /\ NoRun.pc = "idle"
      BY DEF NoRun, Run
    <3>3. /\ lastSid' = lastSid + 1
          /\ \/ ref' = NoRun
             \/ ref' = [ref EXCEPT !.pc = "keep"] /\ ~ref.full
             \/ ref' = [ref EXCEPT !.pc = "load", !.sid = lastSid + 1]
      BY <1>11 DEF Build
    <3>4. [ref EXCEPT !.pc = "keep"] \in Run
      BY <3>1 DEF Run
    <3>5. \A s \in Nat : [ref EXCEPT !.pc = "load", !.sid = s] \in Run
      BY <3>1 DEF Run
    <3>6. lastSid + 1 \in Nat
      BY <3>1
    <3>7. /\ [ref EXCEPT !.pc = "keep"].pc = "keep"
          /\ [ref EXCEPT !.pc = "keep"].prev = ref.prev
          /\ [ref EXCEPT !.pc = "load", !.sid = lastSid + 1].pc = "load"
          /\ [ref EXCEPT !.pc = "load", !.sid = lastSid + 1].prev = ref.prev
          /\ [ref EXCEPT !.pc = "load", !.sid = lastSid + 1].sid = lastSid + 1
      BY <3>1 DEF Run
    <3> QED
      BY <3>2, <3>3, <3>4, <3>5, <3>6, <3>7
  <2>5. lastSid \in 0..MaxSid /\ lastSid < MaxSid
    BY <2>1 DEF Types, SidOrder
  <2>6. TypeOK'
    BY <1>11, <2>3, <2>4 DEF Build, Types, TypeOK, journalVars
  <2>7. SidOrder'
    BY <1>11, <2>1, <2>4, <2>5 DEF Build, Types, SidOrder, TypeOK
  <2> QED
    BY <2>6, <2>7 DEF Types
<1>12. CASE KeepSnapshot
  <2>1. Since \in Nat
    BY DEF Since, Run, Types, TypeOK
  <2> QED
    BY <1>12, <2>1 DEF KeepSnapshot, Manifest, Snapshot, Run, Types, TypeOK, SidOrder, journalVars
<1>13. ASSUME NEW n \in Nodes, LoadNode(n) PROVE Types'
  BY <1>13, SMTT(20) DEF LoadNode, Run, Types, TypeOK, SidOrder, journalVars, Sids
<1>14. CASE RecordSnapshot
  <2>1. Since \in Nat
    BY DEF Since, Run, Types, TypeOK
  <2> QED
    BY <1>14, <2>1 DEF RecordSnapshot, Manifest, Run, Types, TypeOK, SidOrder, journalVars
<1>15. CASE MakeView
  BY <1>15 DEF MakeView, NoRun, Run, View, Manifest, Types, TypeOK, SidOrder, journalVars
<1>16. CASE RefreshFails
  BY <1>16 DEF RefreshFails, NoRun, Run, Types, TypeOK, SidOrder, journalVars, indexVars
<1>17. ASSUME NEW q \in Readers, QueryPlan(q) PROVE Types'
  BY <1>17 DEF QueryPlan, NoQuery, Query, View, Types, TypeOK, SidOrder, journalVars, indexVars
<1>18. ASSUME NEW q \in Readers, QueryRead(q) PROVE Types'
  <2>1. After(journal, query[q].from) \in SUBSET Row
    BY JournalTypes DEF Query, Types, TypeOK
  <2> DEFINE delta == After(journal, query[q].from)
  <2>2. /\ query' = [query EXCEPT ![q].pc = "read", ![q].rows = delta, ![q].epoch = journal]
        /\ delta \in SUBSET Row /\ journal \in SUBSET Row
    BY <1>18, <2>1 DEF QueryRead, Types, TypeOK
  <2> HIDE DEF delta
  <2>3. query' \in [Readers -> Query]
    <3>1. query \in [Readers -> Query]
      BY DEF Types, TypeOK
    <3>2. query' = [query EXCEPT ![q] = [@ EXCEPT !.pc = "read", !.rows = delta, !.epoch = journal]]
      BY <2>2, <3>1
    <3>3. [query[q] EXCEPT !.pc = "read", !.rows = delta, !.epoch = journal] \in Query
      BY <2>2, <3>1 DEF Query
    <3> QED
      BY <3>1, <3>2, <3>3
  <2> QED
    BY <1>18, <2>3 DEF QueryRead, Types, TypeOK, SidOrder, journalVars, indexVars
<1>19. ASSUME NEW q \in Readers, NEW n \in Nodes, QuerySearch(q, n) PROVE Types'
  <2>1. PICK s \in seen[n] :
            query' = [query EXCEPT ![q].pc = "done", ![q].used = s, ![q].result = Apply(store[s].rows, query[q].rows)]
    BY <1>19 DEF QuerySearch
  <2>2. s \in Sids /\ s \in Nat
    BY DEF Types, TypeOK, Sids
  <2>3. Apply(store[s].rows, query[q].rows) \in SUBSET Row
    BY <2>2, JournalTypes DEF Query, Snapshot, Types, TypeOK
  <2> DEFINE found == Apply(store[s].rows, query[q].rows)
  <2>4. query' = [query EXCEPT ![q] = [@ EXCEPT !.pc = "done", !.used = s, !.result = found]]
    BY <2>1 DEF Types, TypeOK
  <2>5. found \in SUBSET Row
    BY <2>3
  <2> HIDE DEF found
  <2>6. query' \in [Readers -> Query]
    BY <2>2, <2>4, <2>5, ZenonT(40) DEF Query, Types, TypeOK
  <2> QED
    BY <1>19, <2>6 DEF QuerySearch, Types, TypeOK, SidOrder, journalVars, indexVars
<1>20. ASSUME NEW q \in Readers, QueryEnd(q) PROVE Types'
  BY <1>20 DEF QueryEnd, NoQuery, Query, Types, TypeOK, SidOrder, journalVars, indexVars
<1>21. CASE UNCHANGED vars
  BY <1>21 DEF vars, Types, TypeOK, SidOrder
<1>22. \A i \in Ids, v \in Versions, d \in BOOLEAN : [id |-> i, ver |-> v, del |-> d] \in Row
  BY DEF Row, Versions
<1> QED
  BY <1>1, <1>2, <1>3, <1>4, <1>5, <1>6, <1>7, <1>8, <1>9, <1>10, <1>11, <1>12, <1>13, <1>14, <1>15, <1>16,
     <1>17, <1>18, <1>19, <1>20, <1>21, <1>22 DEF Next, WriterStep, Tampering, RefreshStep, QueryStep

\* The initial state has the types.
LEMMA InitTypes == Init => Types
BY FreshnessConstants DEF Init, Types, TypeOK, SidOrder, Closed, NoRun, NoQuery, Transaction, Manifest, Snapshot,
   View, Run, Query, Sids

\* Type correctness: every variable stays in its type, whatever the interleaving.
THEOREM TypeCorrect == Spec => []TypeOK
<1>1. Types => TypeOK
  BY DEF Types
<1> QED
  BY <1>1, InitTypes, TypesStep, PTL DEF Spec

------------------------------------------------------------------------------
(* The boundary never moves back.                                          *)

\* A refresh works on the manifest row it read until it writes it, and its new boundary is not an older one.
RunFollowsManifest ==
    /\ view.from <= man.from
    /\ ref.pc \notin {"idle", "views"} =>
          ref.from = man.from /\ ref.prev = man.active /\ ref.digest = man.digest
    /\ ref.pc \in {"boundary", "decided", "keep", "load"} => ref.from <= ref.v

\* What one step does to the two boundaries, and that RunFollowsManifest is kept.
LEMMA BoundaryStep ==
    ASSUME Types, RunFollowsManifest, [Next]_vars
    PROVE  RunFollowsManifest' /\ man.from <= man'.from /\ view.from <= view'.from
<1> DEFINE Goal == RunFollowsManifest' /\ man.from <= man'.from /\ view.from <= view'.from
<1>0. /\ man \in Manifest /\ man.from \in Nat /\ view.from \in Nat
      /\ ref \in Run /\ ref.from \in Nat /\ ref.v \in Nat
  BY DEF Types, TypeOK, Manifest, View, Run
<1>1. CASE UNCHANGED <<man, view, ref>>
  BY <1>0, <1>1 DEF RunFollowsManifest
<1>2. ASSUME UNCHANGED <<man, view>>, ref' = NoRun PROVE Goal
  BY <1>0, <1>2 DEF RunFollowsManifest, NoRun
<1>3. CASE RefreshBegin
  BY <1>0, <1>3 DEF RefreshBegin, indexVars, RunFollowsManifest, NoRun
<1>4. CASE ReadLocks
  <2>1. UNCHANGED <<man, view>> /\ ref.pc = "begun" /\ ref'.pc = "locks"
        /\ ref'.from = ref.from /\ ref'.prev = ref.prev /\ ref'.digest = ref.digest
    BY <1>0, <1>4 DEF ReadLocks, indexVars, Run
  <2> QED
    BY <1>0, <2>1 DEF RunFollowsManifest
<1>5. CASE TakeBoundary
  <2>1. Cut \in Nat /\ Margin \in Nat
    BY FreshnessConstants DEF Cut, Types, TypeOK, Run
  <2>2. ref.from <= NewBoundary
    BY <1>0, <2>1 DEF NewBoundary
  <2>3. UNCHANGED <<man, view>> /\ ref.pc = "locks" /\ ref'.pc = "boundary" /\ ref'.v = NewBoundary
        /\ ref'.from = ref.from /\ ref'.prev = ref.prev /\ ref'.digest = ref.digest
    BY <1>0, <1>5 DEF TakeBoundary, indexVars, Run
  <2> QED
    BY <1>0, <2>2, <2>3 DEF RunFollowsManifest
<1>6. ASSUME NEW forced \in BOOLEAN, Decide(forced) PROVE Goal
  <2>1. UNCHANGED <<man, view>> /\ ref.pc = "boundary" /\ ref'.pc = "decided" /\ ref'.v = ref.v
        /\ ref'.from = ref.from /\ ref'.prev = ref.prev /\ ref'.digest = ref.digest
    BY <1>0, <1>6 DEF Decide, indexVars, Run
  <2> QED
    BY <1>0, <2>1 DEF RunFollowsManifest
<1>7. CASE Build
  <2>1. UNCHANGED <<man, view>>
    BY <1>7 DEF Build
  <2>2. CASE ref' = NoRun
    BY <1>2, <2>1, <2>2
  <2>3. CASE ref' # NoRun
    <3>1. ref.pc = "decided" /\ ref'.pc \in {"keep", "load"} /\ ref'.v = ref.v
          /\ ref'.from = ref.from /\ ref'.prev = ref.prev /\ ref'.digest = ref.digest
      BY <1>0, <1>7, <2>3 DEF Build, Run
    <3> QED
      BY <1>0, <2>1, <3>1 DEF RunFollowsManifest
  <2> QED
    BY <2>2, <2>3
<1>8. CASE KeepSnapshot \/ RecordSnapshot
  <2>1. /\ UNCHANGED view /\ man'.from = ref.v
        /\ ref.pc \in {"keep", "load"} /\ ref'.pc = "views"
    <3>1. CASE KeepSnapshot
      BY <1>0, <3>1 DEF KeepSnapshot, Run, Manifest
    <3>2. CASE RecordSnapshot
      BY <1>0, <3>2 DEF RecordSnapshot, Run, Manifest
    <3> QED
      BY <1>8, <3>1, <3>2
  <2> QED
    BY <1>0, <2>1 DEF RunFollowsManifest
<1>9. CASE MakeView
  BY <1>0, <1>9 DEF MakeView, NoRun, RunFollowsManifest
<1>10. CASE RefreshFails
  BY <1>2, <1>10 DEF RefreshFails, indexVars
<1>11. Next => \/ UNCHANGED <<man, view, ref>>
               \/ RefreshBegin \/ ReadLocks \/ TakeBoundary \/ (\E forced \in BOOLEAN : Decide(forced))
               \/ Build \/ KeepSnapshot \/ RecordSnapshot \/ MakeView \/ RefreshFails
  BY Frames DEF Next, RefreshStep, LoadNode, indexVars
<1> QED
  BY <1>1, <1>3, <1>4, <1>5, <1>6, <1>7, <1>8, <1>9, <1>10, <1>11 DEF vars

\* The delta boundary of an index never moves back, in the manifest and in the view: a refresh takes the
\* larger of the previous boundary and the cut, whatever clocks, locks and failures do.
THEOREM BoundariesAdvance == Spec => BoundaryMonotone
<1> DEFINE Inv == Types /\ RunFollowsManifest
<1>1. Init => Inv
  BY InitTypes DEF Init, RunFollowsManifest, NoRun
<1>2. Inv /\ [Next]_vars => Inv'
  BY TypesStep, BoundaryStep
<1>3. Inv /\ [Next]_vars => [man'.from >= man.from /\ view'.from >= view.from]_vars
  <2> SUFFICES ASSUME Inv, [Next]_vars PROVE man'.from >= man.from /\ view'.from >= view.from
    OBVIOUS
  <2>1. Types'
    BY TypesStep
  <2>2. man.from \in Nat /\ view.from \in Nat /\ man'.from \in Nat /\ view'.from \in Nat
    BY <2>1 DEF Types, TypeOK, Manifest, View
  <2> QED
    BY <2>2, BoundaryStep
<1> HIDE DEF Inv
<1> QED
  BY <1>1, <1>2, <1>3, PTL DEF Spec, BoundaryMonotone

------------------------------------------------------------------------------
(* No row is committed behind a boundary.                                  *)

\* The margin covers what the cut cannot see: writers that take their lock after the refresh looked.
MarginCovers == Margin >= Skew + Lag + Gap

\* A boundary is settled: no row that is still to be committed has a version up to b.
Settled(b) == b = 0 \/ (b + Skew + Lag <= now /\ \A w \in OpenWriters : b + Lag <= txn[w].lockAt)

\* The rows of open transactions are younger than their locks.
OpenRows ==
    /\ \A w \in OpenWriters : txn[w].lockAt <= now
    /\ \A w \in Writers : \A r \in txn[w].rows : txn[w].open /\ txn[w].lockAt < r.ver + Lag

\* Between the two readings of a refresh: the writer it saw is the first one, or came after the lock reading.
LocksRead ==
    /\ ref.pc = "begun" => ~ref.held
    /\ ref.pc = "locks" =>
        /\ ref.readAt <= now /\ now <= ref.readAt + Gap
        /\ ref.held => ref.writer <= ref.readAt
        /\ \A w \in OpenWriters : (ref.held /\ ref.writer <= txn[w].lockAt) \/ ref.readAt <= txn[w].lockAt + Skew

\* Every boundary in use is settled.
BoundariesSettled ==
    /\ Settled(man.from) /\ Settled(view.from) /\ Settled(ref.v)
    /\ \A q \in Readers : Settled(query[q].from)

Boundaries == OpenRows /\ LocksRead /\ BoundariesSettled

\* What a step does to the clock and to the open transactions: time passes, and a transaction that was not
\* open before it takes a lock no earlier than the clock of its node allows.
LEMMA WritersStep ==
    ASSUME Types, OpenRows, [Next]_vars
    PROVE  /\ now <= now'
           /\ \A w \in OpenWriters' :
                 \/ w \in OpenWriters /\ txn'[w].lockAt = txn[w].lockAt
                 \/ now <= txn'[w].lockAt + Skew
           /\ OpenRows'
<1> DEFINE Same(w) == w \in OpenWriters /\ txn'[w].lockAt = txn[w].lockAt
           Goal == /\ now <= now'
                   /\ \A w \in OpenWriters' : Same(w) \/ now <= txn'[w].lockAt + Skew
                   /\ OpenRows'
<1>0. /\ now \in Nat /\ Skew \in Nat /\ Lag \in Nat
      /\ txn \in [Writers -> Transaction]
      /\ \A w \in Writers : txn[w].lockAt \in Nat
  BY FreshnessConstants DEF Types, TypeOK, Transaction
<1>1. CASE UNCHANGED <<now, txn>>
  BY <1>0, <1>1 DEF OpenRows, OpenWriters
<1>2. CASE Tick
  BY <1>0, <1>2 DEF Tick, OpenRows, OpenWriters
<1>3. ASSUME NEW w \in Writers, NEW t \in 0..MaxTime, LockTable(w, t) PROVE Goal
  BY <1>0, <1>3 DEF LockTable, OpenRows, OpenWriters, Transaction
<1>4. ASSUME NEW w \in Writers, NEW i \in Ids, NEW v \in Versions, NEW d \in BOOLEAN, WriteRow(w, i, v, d) PROVE Goal
  <2> DEFINE r == [id |-> i, ver |-> v, del |-> d]
  <2>1. /\ txn' = [txn EXCEPT ![w].rows = @ \cup {r}] /\ txn[w].open /\ now' = now
        /\ txn[w].lockAt < r.ver + Lag
    BY <1>0, <1>4 DEF WriteRow, Versions
  <2> HIDE DEF r
  <2>2. \A u \in Writers : /\ txn'[u].open = txn[u].open
                           /\ txn'[u].lockAt = txn[u].lockAt
                           /\ txn'[u].rows \subseteq txn[u].rows \cup (IF u = w THEN {r} ELSE {})
    BY <1>0, <2>1 DEF Transaction
  <2> QED
    BY <1>0, <2>1, <2>2 DEF OpenRows, OpenWriters
<1>5. ASSUME NEW w \in Writers, Commit(w) \/ Rollback(w) PROVE Goal
  <2>1. txn' = [txn EXCEPT ![w] = Closed] /\ now' = now
    BY <1>5 DEF Commit, Rollback
  <2> QED
    BY <1>0, <2>1 DEF Closed, OpenRows, OpenWriters
<1>6. Next => \/ UNCHANGED <<now, txn>>
              \/ Tick
              \/ \E w \in Writers :
                    \/ \E t \in 0..MaxTime : LockTable(w, t)
                    \/ \E i \in Ids, v \in Versions, d \in BOOLEAN : WriteRow(w, i, v, d)
                    \/ Commit(w) \/ Rollback(w)
  BY Frames DEF Next, WriterStep, journalVars
<1> QED
  BY <1>1, <1>2, <1>3, <1>4, <1>5, <1>6 DEF vars

\* A settled boundary stays settled.
LEMMA StaysSettled ==
    ASSUME Types, OpenRows, [Next]_vars, NEW b \in Nat, Settled(b)
    PROVE  Settled(b)'
<1>1. /\ now \in Nat /\ now' \in Nat /\ Skew \in Nat /\ Lag \in Nat
      /\ \A w \in Writers : txn[w].lockAt \in Nat /\ txn'[w].lockAt \in Nat
  BY TypesStep, FreshnessConstants DEF Types, TypeOK, Transaction
<1> QED
  BY <1>1, WritersStep DEF Settled, OpenWriters

\* The boundary a refresh takes is settled: the writer that was first at the lock reading holds it back, and
\* whoever came later is covered by the margin.
LEMMA CutIsSettled ==
    ASSUME Types, Boundaries, RunFollowsManifest, MarginCovers, ref.pc = "locks"
    PROVE  Settled(NewBoundary)
<1>1. /\ now \in Nat /\ Skew \in Nat /\ Lag \in Nat /\ Gap \in Nat /\ Margin \in Nat
      /\ ref.from \in Nat /\ ref.writer \in Nat /\ ref.readAt \in Nat
      /\ \A w \in OpenWriters : txn[w].lockAt \in Nat
  BY FreshnessConstants DEF Types, TypeOK, Transaction, Run, OpenWriters
<1>2. CASE NewBoundary = ref.from
  BY <1>2 DEF RunFollowsManifest, Boundaries, BoundariesSettled
<1>3. CASE NewBoundary # ref.from
  <2>1. /\ Cut \in Nat /\ NewBoundary = Cut - Margin /\ Cut <= now
        /\ \A w \in OpenWriters : Cut <= txn[w].lockAt + Skew + Gap
    BY <1>1, <1>3 DEF NewBoundary, Cut, Boundaries, LocksRead
  <2> QED
    BY <1>1, <2>1 DEF Settled, MarginCovers
<1> QED
  BY <1>2, <1>3

\* The two readings of a refresh: whoever takes a lock between them is not much older than the first one.
LEMMA LocksReadStep ==
    ASSUME Types, OpenRows, LocksRead, [Next]_vars
    PROVE  LocksRead'
<1>0. /\ now \in Nat /\ now' \in Nat /\ ref \in Run /\ ref.readAt \in Nat /\ ref.writer \in Nat
      /\ Gap \in Nat /\ Skew \in Nat
      /\ \A w \in Writers : txn[w].lockAt \in Nat /\ txn'[w].lockAt \in Nat
  BY TypesStep, FreshnessConstants DEF Types, TypeOK, Transaction, Run
<1>1. CASE ReadLocks
  <2>1. UNCHANGED <<now, txn>>
    BY <1>1 DEF ReadLocks, journalVars
  <2>2. CASE OpenWriters = {} /\ ref' = [ref EXCEPT !.pc = "locks", !.readAt = now]
    <3>1. ref.pc = "begun" /\ ref'.pc = "locks" /\ ref'.readAt = now /\ ref'.held = ref.held
      BY <1>0, <1>1, <2>2 DEF ReadLocks, Run
    <3>2. OpenWriters' = OpenWriters
      BY <2>1 DEF OpenWriters
    <3> QED
      BY <1>0, <2>1, <2>2, <3>1, <3>2 DEF LocksRead
  <2>3. ASSUME NEW w \in OpenWriters, \A u \in OpenWriters : txn[w].lockAt <= txn[u].lockAt,
               ref' = [ref EXCEPT !.pc = "locks", !.readAt = now, !.held = TRUE, !.writer = txn[w].lockAt]
        PROVE  LocksRead'
    <3>1. ref'.readAt = now /\ ref'.held /\ ref'.writer = txn[w].lockAt
      BY <1>0, <2>3 DEF Run
    <3> QED
      BY <1>0, <2>1, <2>3, <3>1 DEF LocksRead, OpenRows, OpenWriters
  <2> QED
    BY <1>1, <2>2, <2>3 DEF ReadLocks
<1>2. CASE UNCHANGED ref
  <2>1. Tick \/ UNCHANGED now
    BY Frames DEF Next, journalVars, vars
  <2> QED
    BY <1>0, <1>2, <2>1, WritersStep DEF Tick, LocksRead, OpenWriters
<1>3. CASE RefreshBegin
  BY <1>3 DEF RefreshBegin, NoRun, LocksRead
<1>4. CASE ref'.pc \notin {"begun", "locks"}
  BY <1>4 DEF LocksRead
<1>5. RefreshStep => RefreshBegin \/ ReadLocks \/ UNCHANGED ref \/ ref'.pc \notin {"begun", "locks"}
  <2> SUFFICES ASSUME RefreshStep, ~RefreshBegin, ~ReadLocks, ref' # ref PROVE ref'.pc \notin {"begun", "locks"}
    OBVIOUS
  <2>1. CASE TakeBoundary \/ (\E forced \in BOOLEAN : Decide(forced))
    BY <1>0, <2>1 DEF TakeBoundary, Decide, Run
  <2>2. CASE KeepSnapshot \/ RecordSnapshot \/ MakeView \/ RefreshFails
    BY <1>0, <2>2 DEF KeepSnapshot, RecordSnapshot, MakeView, RefreshFails, NoRun, Run
  <2>3. CASE Build
    <3>1. CASE ref' = NoRun
      BY <3>1 DEF NoRun
    <3>2. CASE ref' # NoRun
      BY <1>0, <2>3, <3>2 DEF Build, Run
    <3> QED
      BY <3>1, <3>2
  <2> QED
    BY <2>1, <2>2, <2>3 DEF RefreshStep, LoadNode
<1> QED
  BY <1>1, <1>2, <1>3, <1>4, <1>5, Frames DEF Next, vars

\* Where the boundaries in use come from.
LEMMA BoundarySources ==
    ASSUME Types, [Next]_vars
    PROVE  /\ man'.from \in {man.from, ref.v}
           /\ view'.from \in {view.from, man.from}
           /\ ref'.v \in {ref.v, 0} \/ (ref.pc = "locks" /\ ref'.v = NewBoundary)
           /\ \A q \in Readers : query'[q].from \in {query[q].from, 0, view.from}
<1>0. man \in Manifest /\ view \in View /\ ref \in Run /\ query \in [Readers -> Query]
  BY DEF Types, TypeOK
<1>1. man'.from \in {man.from, ref.v}
  <2>1. UNCHANGED man \/ KeepSnapshot \/ RecordSnapshot
    BY Frames DEF Next, RefreshStep, RefreshBegin, ReadLocks, TakeBoundary, Decide, Build, LoadNode, MakeView,
       RefreshFails, indexVars, vars
  <2>2. CASE KeepSnapshot
    BY <1>0, <2>2 DEF KeepSnapshot, Manifest
  <2>3. CASE RecordSnapshot
    BY <2>3 DEF RecordSnapshot
  <2> QED
    BY <2>1, <2>2, <2>3
<1>2. view'.from \in {view.from, man.from}
  <2>1. UNCHANGED view \/ MakeView
    BY Frames DEF Next, RefreshStep, RefreshBegin, ReadLocks, TakeBoundary, Decide, Build, KeepSnapshot, LoadNode,
       RecordSnapshot, RefreshFails, indexVars, vars
  <2> QED
    BY <1>0, <2>1 DEF MakeView
<1>3. ref'.v \in {ref.v, 0} \/ (ref.pc = "locks" /\ ref'.v = NewBoundary)
  <2>1. CASE UNCHANGED ref \/ ref' = NoRun
    BY <2>1 DEF NoRun
  <2>2. CASE RefreshBegin
    BY <2>2 DEF RefreshBegin, NoRun
  <2>3. CASE ReadLocks
    BY <1>0, <2>3 DEF ReadLocks, Run
  <2>4. CASE TakeBoundary
    BY <1>0, <2>4 DEF TakeBoundary, Run
  <2>5. CASE \E forced \in BOOLEAN : Decide(forced)
    BY <1>0, <2>5 DEF Decide, Run
  <2>6. CASE Build
    BY <1>0, <2>1, <2>6 DEF Build, Run
  <2>7. CASE KeepSnapshot \/ RecordSnapshot
    BY <1>0, <2>7 DEF KeepSnapshot, RecordSnapshot, Run
  <2> QED
    BY <2>1, <2>2, <2>3, <2>4, <2>5, <2>6, <2>7, Frames
    DEF Next, RefreshStep, LoadNode, MakeView, RefreshFails, vars
<1>4. \A q \in Readers : query'[q].from \in {query[q].from, 0, view.from}
  <2>1. UNCHANGED query \/ \E r \in Readers : QueryStep(r)
    BY Frames DEF Next, vars
  <2>2. ASSUME NEW r \in Readers, QueryStep(r), NEW q \in Readers
        PROVE  query'[q].from \in {query[q].from, 0, view.from}
    <3>1. CASE QueryPlan(r) \/ QueryEnd(r)
      <4> DEFINE planned == [NoQuery EXCEPT !.pc = "planned", !.sid = view.sid, !.from = view.from]
      <4>1. query' = [query EXCEPT ![r] = NoQuery] \/ query' = [query EXCEPT ![r] = planned]
        BY <3>1 DEF QueryPlan, QueryEnd
      <4>2. NoQuery.from = 0 /\ planned.from = view.from
        BY DEF NoQuery
      <4> HIDE DEF planned
      <4> QED
        BY <1>0, <4>1, <4>2
    <3>2. CASE QueryRead(r)
      BY <1>0, <3>2 DEF QueryRead, Query
    <3>3. ASSUME NEW n \in Nodes, QuerySearch(r, n) PROVE query'[q].from = query[q].from
      BY <1>0, <3>3 DEF QuerySearch, Query
    <3> QED
      BY <2>2, <3>1, <3>2, <3>3 DEF QueryStep
  <2> QED
    BY <2>1, <2>2
<1> QED
  BY <1>1, <1>2, <1>3, <1>4

\* Every step keeps the boundaries settled; the only new one is the cut of a refresh.
LEMMA BoundariesStep ==
    ASSUME Types, RunFollowsManifest, Boundaries, MarginCovers, [Next]_vars
    PROVE  Boundaries'
<1>0. /\ man.from \in Nat /\ view.from \in Nat /\ ref.v \in Nat /\ 0 \in Nat
      /\ \A q \in Readers : query[q].from \in Nat
      /\ ref'.v \in Nat
  BY TypesStep DEF Types, TypeOK, Manifest, View, Run, Query
<1>1. OpenRows' /\ LocksRead'
  BY WritersStep, LocksReadStep DEF Boundaries
<1>2. /\ Settled(man.from) /\ Settled(view.from) /\ Settled(ref.v) /\ Settled(0)
      /\ \A q \in Readers : Settled(query[q].from)
      /\ ref.pc = "locks" => Settled(NewBoundary)
  BY CutIsSettled DEF Boundaries, BoundariesSettled, Settled
<1>3. \A b \in Nat : Settled(b) => Settled(b)'
  BY StaysSettled DEF Boundaries
<1>4. Settled(man.from)'
  BY <1>0, <1>2, <1>3, BoundarySources
<1>5. Settled(view.from)'
  BY <1>0, <1>2, <1>3, BoundarySources
<1>6. Settled(ref.v)'
  BY <1>0, <1>2, <1>3, BoundarySources
<1>7. \A q \in Readers : Settled(query[q].from)'
  BY <1>0, <1>2, <1>3, BoundarySources
<1> QED
  BY <1>1, <1>4, <1>5, <1>6, <1>7 DEF Boundaries, BoundariesSettled

\* Every row still to be committed is younger than a settled boundary.
LEMMA OpenRowsAfter ==
    ASSUME Types, OpenRows, NEW b \in Nat, Settled(b), NEW w \in Writers, NEW r \in txn[w].rows
    PROVE  r.ver > b
<1>1. /\ r.ver \in Nat \ {0} /\ txn[w].lockAt \in Nat /\ now \in Nat /\ Lag \in Nat
      /\ txn[w].open /\ txn[w].lockAt < r.ver + Lag
  BY FreshnessConstants DEF Types, TypeOK, Transaction, Row, OpenRows
<1> QED
  BY <1>1 DEF Settled, OpenWriters

------------------------------------------------------------------------------
(* What the manifest's digest and the snapshots hold.                      *)

\* Newer journal rows over a consolidated journal give the consolidated journal.
LEMMA ApplyLive ==
    ASSUME NEW R \in SUBSET Row, NEW D \in SUBSET Row,
           \A r \in R, d \in D : r.ver < d.ver
    PROVE  Apply(Live(R), D) = Live(R \cup D)
<1>0. \A r \in R \cup D : r.ver \in Nat
  BY DEF Row
<1>1. ASSUME NEW s \in Apply(Live(R), D) PROVE s \in Live(R \cup D)
  BY <1>0, <1>1 DEF Apply, Live, Beats
<1>2. ASSUME NEW s \in Live(R \cup D) PROVE s \in Apply(Live(R), D)
  <2>1. CASE s \in D
    BY <1>2, <2>1 DEF Apply, Live
  <2>2. CASE s \in R
    <3>1. s \in Live(R)
      BY <1>2, <2>2 DEF Live
    <3>2. \A d \in D : d.id # s.id
      BY <1>0, <1>2, <2>2 DEF Live, Beats
    <3> QED
      BY <3>1, <3>2 DEF Apply
  <2> QED
    BY <1>2, <2>1, <2>2 DEF Live
<1> QED
  BY <1>1, <1>2

\* No step but tampering changes the journal up to a settled boundary.
LEMMA SettledJournal ==
    ASSUME Types, OpenRows, [Next]_vars, ~Tampering, NEW b \in Nat, Settled(b)
    PROVE  /\ Upto(journal', b) = Upto(journal, b)
           /\ \A lo \in Nat : Between(journal', lo, b) = Between(journal, lo, b)
<1>1. UNCHANGED journal \/ \E w \in Writers : journal' = journal \cup txn[w].rows
  BY Frames DEF Next, WriterStep, LockTable, WriteRow, Commit, Rollback, journalVars, vars
<1>2. ASSUME NEW w \in Writers, journal' = journal \cup txn[w].rows
      PROVE  /\ Upto(journal', b) = Upto(journal, b)
             /\ \A lo \in Nat : Between(journal', lo, b) = Between(journal, lo, b)
  <2>1. \A r \in txn[w].rows : r.ver \in Nat /\ r.ver > b
    BY OpenRowsAfter DEF Types, TypeOK, Transaction, Row
  <2> QED
    BY <1>2, <2>1 DEF Upto, Between
<1> QED
  BY <1>1, <1>2

\* What a running refresh knows of the journal: next is the digest it will record with the boundary v.
NextDigest ==
    ref.pc \in {"decided", "keep", "load"} =>
        /\ \A r \in ref.next : r.ver <= ref.v
        /\ clean \/ ref.verify => ref.next = Upto(journal, ref.v)

\* What is built, before and after it is built.
BuildHolds ==
    /\ ref.pc = "decided" => IF ref.full THEN ref.verify ELSE ref.next = man.digest \cup Between(journal, ref.from, ref.v)
    /\ ref.pc = "keep" => store[man.active].rows = Live(ref.next)
    /\ ref.pc = "load" => store[ref.sid].rows = Live(ref.next)

ManifestHolds ==
    /\ \A r \in man.digest : r.ver <= man.from
    /\ clean => man.digest = Upto(journal, man.from)
    /\ DigestCoversSnapshot

Contents == NextDigest /\ BuildHolds /\ ManifestHolds

\* Snapshots that were built do not change.
LEMMA StoreStep ==
    ASSUME Types, [Next]_vars, NEW s \in 1..lastSid
    PROVE  store'[s].rows = store[s].rows
<1>0. store \in [Sids -> Snapshot] /\ s \in Sids /\ lastSid \in Nat /\ s # lastSid + 1
  <2>1. store \in [Sids -> Snapshot] /\ lastSid \in 0..MaxSid /\ MaxSid \in Nat
    BY FreshnessConstants DEF Types, TypeOK, SidOrder
  <2> QED
    BY <2>1 DEF Sids
<1>1. UNCHANGED <<store, lastSid>> \/ Build \/ KeepSnapshot
  BY Frames DEF Next, RefreshStep, RefreshBegin, ReadLocks, TakeBoundary, Decide, LoadNode, RecordSnapshot,
     MakeView, RefreshFails, indexVars, vars
<1>2. CASE Build
  <2>1. lastSid' = lastSid + 1 /\ (UNCHANGED store \/ \E x \in {[rows |-> Built, upto |-> ref.v]} :
                                                        store' = [store EXCEPT ![lastSid + 1] = x])
    BY <1>2 DEF Build
  <2> QED
    BY <1>0, <2>1
<1>3. CASE KeepSnapshot
  <2>1. store' = [store EXCEPT ![ref.prev].upto = ref.v] /\ lastSid' = lastSid
    BY <1>3 DEF KeepSnapshot
  <2> QED
    BY <1>0, <2>1 DEF Snapshot
<1> QED
  BY <1>0, <1>1, <1>2, <1>3

\* A step that leaves the manifest alone leaves what it stands for alone.
LEMMA ManifestKept ==
    ASSUME Types, OpenRows, Settled(man.from), ManifestHolds, [Next]_vars, ~Tampering, UNCHANGED <<man, clean>>
    PROVE  ManifestHolds'
<1>1. man.from \in Nat /\ man.active \in Nat /\ man.active \in 0..lastSid
  BY DEF Types, TypeOK, SidOrder, Manifest
<1>2. Upto(journal', man.from) = Upto(journal, man.from)
  BY <1>1, SettledJournal
<1>3. man.active # 0 => store'[man.active].rows = store[man.active].rows
  <2>1. man.active # 0 => man.active \in 1..lastSid
    BY <1>1 DEF Types, TypeOK
  <2> QED
    BY <2>1, StoreStep
<1> QED
  BY <1>2, <1>3 DEF ManifestHolds, DigestCoversSnapshot

\* A step of somebody else does not change what a running refresh knows.
LEMMA RunKept ==
    ASSUME Types, RunFollowsManifest, OpenRows, Settled(ref.v), NextDigest, BuildHolds,
           [Next]_vars, ~Tampering, UNCHANGED <<man, ref, clean>>
    PROVE  NextDigest' /\ BuildHolds'
<1>1. /\ ref.v \in Nat /\ ref.from \in Nat /\ lastSid \in Nat
      /\ ref.pc = "keep" => man.active \in 1..lastSid
      /\ ref.pc = "load" => ref.sid \in 1..lastSid
  BY DEF Types, TypeOK, SidOrder, Run, RunFollowsManifest
<1>2. /\ Upto(journal', ref.v) = Upto(journal, ref.v)
      /\ Between(journal', ref.from, ref.v) = Between(journal, ref.from, ref.v)
  BY <1>1, SettledJournal
<1>3. /\ ref.pc = "keep" => store'[man.active].rows = store[man.active].rows
      /\ ref.pc = "load" => store'[ref.sid].rows = store[ref.sid].rows
  BY <1>1, StoreStep
<1> QED
  BY <1>2, <1>3 DEF NextDigest, BuildHolds

\* The decision of a refresh: what it records as the digest, and that an incremental build may start from
\* the active snapshot.
LEMMA DecideStep ==
    ASSUME Types, RunFollowsManifest, NextDigest, BuildHolds, ManifestHolds, NEW forced \in BOOLEAN, Decide(forced)
    PROVE  NextDigest' /\ BuildHolds'
<1> DEFINE rebuild == forced \/ NoBase
           verify == rebuild \/ VerifyDue
           full == rebuild \/ (verify /\ JournalChanged)
<1>1. /\ ref.pc = "boundary" /\ ref \in Run /\ ref.v \in Nat /\ ref.from \in Nat /\ ref.from <= ref.v
      /\ ref.from = man.from /\ ref.digest = man.digest /\ journal \in SUBSET Row
      /\ UNCHANGED <<man, journal, clean>>
  BY DEF Decide, Types, TypeOK, Run, RunFollowsManifest, journalVars, indexVars
<1>2. ref'.pc = "decided" /\ ref'.v = ref.v /\ ref'.from = ref.from /\ ref'.verify = verify /\ ref'.full = full
      /\ ref'.next = IF verify THEN Upto(journal, ref.v) ELSE Carried
  <2>1. ref' = [ref EXCEPT !.pc = "decided", !.verify = verify, !.full = full,
                           !.next = IF verify THEN Upto(journal, ref.v) ELSE Carried]
    BY DEF Decide
  <2> HIDE DEF verify, full
  <2> QED
    BY <1>1, <2>1 DEF Run
<1>3. full => verify
  OBVIOUS
<1>4. verify /\ ~full => ref.digest = Upto(journal, ref.from)
  BY DEF JournalChanged
<1>5. clean => ref.digest = Upto(journal, ref.from)
  BY <1>1 DEF ManifestHolds
<1> HIDE DEF verify, full, rebuild
<1>6. Upto(journal, ref.v) = Upto(journal, ref.from) \cup Between(journal, ref.from, ref.v)
  <2>1. \A r \in journal : r.ver \in Nat
    BY <1>1 DEF Row
  <2> QED
    BY <1>1, <2>1 DEF Upto, Between
<1>7. \A r \in Upto(journal, ref.v) : r.ver <= ref.v
  BY DEF Upto
<1>8. \A r \in Carried : r.ver <= ref.v
  <2>1. \A r \in man.digest : r.ver \in Nat /\ r.ver <= ref.v
    <3>1. \A r \in man.digest : r.ver \in Nat /\ r.ver <= man.from
      BY DEF ManifestHolds, Types, TypeOK, Manifest, Row
    <3> QED
      BY <1>1, <3>1
  <2> QED
    BY <1>1, <2>1 DEF Carried, Between
<1>9. NextDigest'
  BY <1>1, <1>2, <1>5, <1>6, <1>7, <1>8 DEF NextDigest, Carried
<1>10. BuildHolds'
  BY <1>1, <1>2, <1>3, <1>4, <1>6 DEF BuildHolds, Carried
<1> QED
  BY <1>9, <1>10

\* The build: a full one holds the journal up to the new boundary, an incremental one the active snapshot
\* with the rows between the two boundaries applied, which is the same as long as the digest covers both.
LEMMA BuildStep ==
    ASSUME Types, RunFollowsManifest, NextDigest, BuildHolds, ManifestHolds, Build
    PROVE  NextDigest' /\ BuildHolds'
<1>1. /\ ref.pc = "decided" /\ ref \in Run /\ ref.v \in Nat /\ ref.from \in Nat
      /\ ref.from = man.from /\ ref.prev = man.active /\ lastSid + 1 \in Sids
      /\ man.digest \in SUBSET Row /\ journal \in SUBSET Row /\ store \in [Sids -> Snapshot]
      /\ ~ref.full => ref.prev # 0
      /\ UNCHANGED <<man, journal, clean>> /\ lastSid' = lastSid + 1
  <2>1. ref.pc = "decided" /\ lastSid < MaxSid /\ lastSid \in Nat /\ MaxSid \in Nat
    BY FreshnessConstants DEF Build, Types, TypeOK, SidOrder
  <2> QED
    BY <2>1 DEF Build, Types, TypeOK, SidOrder, Run, Manifest, RunFollowsManifest, journalVars, Sids
<1>2. Built = Live(ref.next)
  <2>1. CASE ref.full
    BY <1>1, <2>1 DEF Built, BuildHolds, NextDigest
  <2>2. CASE ~ref.full
    <3>1. store[ref.prev].rows = Live(man.digest)
      BY <1>1, <2>2 DEF ManifestHolds, DigestCoversSnapshot
    <3>2. Between(journal, ref.from, ref.v) \in SUBSET Row
      BY <1>1, JournalTypes
    <3>3. \A r \in man.digest, d \in Between(journal, ref.from, ref.v) : r.ver < d.ver
      <4>1. \A r \in man.digest : r.ver \in Nat /\ r.ver <= ref.from
        BY <1>1 DEF ManifestHolds, Row
      <4>2. \A d \in Between(journal, ref.from, ref.v) : d.ver \in Nat /\ d.ver > ref.from
        BY <1>1 DEF Between, Row
      <4> QED
        BY <1>1, <4>1, <4>2
    <3>4. Apply(Live(man.digest), Between(journal, ref.from, ref.v)) = Live(ref.next)
      BY <1>1, <2>2, <3>2, <3>3, ApplyLive DEF BuildHolds
    <3> QED
      BY <2>2, <3>1, <3>4 DEF Built
  <2> QED
    BY <2>1, <2>2
<1>3. CASE ref' = NoRun
  BY <1>3 DEF NoRun, NextDigest, BuildHolds
<1>4. CASE ref' = [ref EXCEPT !.pc = "keep"] /\ Built = store[ref.prev].rows /\ UNCHANGED store
  <2>1. ref'.pc = "keep" /\ ref'.next = ref.next /\ ref'.v = ref.v /\ ref'.verify = ref.verify
    BY <1>1, <1>4 DEF Run
  <2> QED
    BY <1>1, <1>2, <1>4, <2>1 DEF NextDigest, BuildHolds
<1>5. CASE /\ store' = [store EXCEPT ![lastSid + 1] = [rows |-> Built, upto |-> ref.v]]
           /\ ref' = [ref EXCEPT !.pc = "load", !.sid = lastSid + 1]
  <2>1. ref'.pc = "load" /\ ref'.sid = lastSid + 1 /\ ref'.next = ref.next /\ ref'.v = ref.v /\ ref'.verify = ref.verify
    BY <1>1, <1>5 DEF Run
  <2>2. store'[lastSid + 1].rows = Built
    BY <1>1, <1>5
  <2> QED
    BY <1>1, <1>2, <2>1, <2>2 DEF NextDigest, BuildHolds
<1> QED
  BY <1>3, <1>4, <1>5 DEF Build

\* Every step keeps the contents: only the two steps that write the manifest change what it stands for.
LEMMA ContentsStep ==
    ASSUME Types, RunFollowsManifest, Boundaries, Contents, [Next]_vars
    PROVE  Contents'
<1>0. /\ OpenRows /\ Settled(man.from) /\ Settled(ref.v)
      /\ NextDigest /\ BuildHolds /\ ManifestHolds
  BY DEF Boundaries, BoundariesSettled, Contents
<1>1. CASE Tampering
  <2>1. ref.pc = "idle" /\ clean' = FALSE /\ UNCHANGED <<man, store, ref>>
    BY <1>1 DEF Tampering, TamperWith, indexVars
  <2> QED
    BY <1>0, <2>1 DEF Contents, NextDigest, BuildHolds, ManifestHolds, DigestCoversSnapshot
<1>2. CASE KeepSnapshot
  <2>1. /\ ref.pc = "keep" /\ UNCHANGED journal /\ ref' = [ref EXCEPT !.pc = "views"]
        /\ man' = [man EXCEPT !.from = ref.v, !.digest = ref.next, !.since = Since]
        /\ clean' = (clean \/ ref.verify)
    BY <1>2 DEF KeepSnapshot, journalVars
  <2>2. /\ man'.from = ref.v /\ man'.digest = ref.next /\ man'.active = man.active
        /\ ref'.pc = "views" /\ man.active \in 1..lastSid
    BY <2>1 DEF Types, TypeOK, SidOrder, Manifest, Run, RunFollowsManifest
  <2>3. store'[man.active].rows = store[man.active].rows
    BY <2>2, StoreStep
  <2>4. ManifestHolds'
    BY <1>0, <2>1, <2>2, <2>3 DEF NextDigest, BuildHolds, ManifestHolds, DigestCoversSnapshot
  <2> QED
    BY <2>2, <2>4 DEF Contents, NextDigest, BuildHolds
<1>3. CASE RecordSnapshot
  <2>1. /\ ref.pc = "load" /\ UNCHANGED <<journal, store>> /\ ref' = [ref EXCEPT !.pc = "views"]
        /\ man' = [active |-> ref.sid, from |-> ref.v, digest |-> ref.next, since |-> Since]
        /\ clean' = (clean \/ ref.verify)
    BY <1>3 DEF RecordSnapshot, journalVars
  <2>2. man'.from = ref.v /\ man'.digest = ref.next /\ man'.active = ref.sid /\ ref'.pc = "views"
    BY <2>1 DEF Types, TypeOK, Run
  <2>3. ManifestHolds'
    BY <1>0, <2>1, <2>2 DEF NextDigest, BuildHolds, ManifestHolds, DigestCoversSnapshot
  <2> QED
    BY <2>2, <2>3 DEF Contents, NextDigest, BuildHolds
<1>4. CASE ~Tampering /\ UNCHANGED <<man, clean>>
  <2>1. ManifestHolds'
    BY <1>0, <1>4, ManifestKept
  <2>2. CASE UNCHANGED ref
    BY <1>0, <1>4, <2>1, <2>2, RunKept DEF Contents
  <2>3. CASE \E forced \in BOOLEAN : Decide(forced)
    BY <1>0, <2>1, <2>3, DecideStep DEF Contents
  <2>4. CASE Build
    BY <1>0, <2>1, <2>4, BuildStep DEF Contents
  <2>5. CASE ref'.pc \notin {"decided", "keep", "load"}
    BY <2>1, <2>5 DEF Contents, NextDigest, BuildHolds
  <2>6. CASE KeepSnapshot \/ RecordSnapshot
    BY <1>2, <1>3, <2>6
  <2>7. RefreshBegin \/ ReadLocks \/ TakeBoundary \/ MakeView \/ RefreshFails => ref'.pc \notin {"decided", "keep", "load"}
    <3>1. ref \in Run
      BY DEF Types, TypeOK
    <3>2. RefreshBegin => ref'.pc = "begun"
      BY DEF RefreshBegin, NoRun
    <3>3. ReadLocks => ref'.pc = "locks"
      BY <3>1 DEF ReadLocks, Run
    <3>4. TakeBoundary => ref'.pc = "boundary"
      BY <3>1 DEF TakeBoundary, Run
    <3>5. MakeView \/ RefreshFails => ref'.pc = "idle"
      BY DEF MakeView, RefreshFails, NoRun
    <3> QED
      BY <3>2, <3>3, <3>4, <3>5
  <2> QED
    BY <1>4, <2>2, <2>3, <2>4, <2>5, <2>6, <2>7, Frames DEF Next, RefreshStep, LoadNode, vars
<1>5. Tampering \/ KeepSnapshot \/ RecordSnapshot \/ (~Tampering /\ UNCHANGED <<man, clean>>)
  BY Frames DEF Next, RefreshStep, RefreshBegin, ReadLocks, TakeBoundary, Decide, Build, LoadNode, MakeView,
     RefreshFails, indexVars, vars
<1> QED
  BY <1>1, <1>2, <1>3, <1>4, <1>5

------------------------------------------------------------------------------
(* The theorems.                                                           *)

\* The inductive invariant.
IInv == Types /\ RunFollowsManifest /\ Boundaries /\ Contents

\* The initial state satisfies the inductive invariant.
LEMMA InitIInv == Init => IInv
<1> SUFFICES ASSUME Init PROVE RunFollowsManifest /\ Boundaries /\ Contents
  BY InitTypes DEF IInv
<1>1. RunFollowsManifest /\ Boundaries
  BY DEF Init, RunFollowsManifest, Boundaries, OpenRows, LocksRead, BoundariesSettled, Settled, OpenWriters,
     Closed, NoRun, NoQuery
<1>2. Contents
  BY DEF Init, Contents, NextDigest, BuildHolds, ManifestHolds, DigestCoversSnapshot, Upto, NoRun
<1> QED
  BY <1>1, <1>2

\* Every step keeps the inductive invariant.
LEMMA IInvStep == ASSUME MarginCovers PROVE IInv /\ [Next]_vars => IInv'
BY TypesStep, BoundaryStep, BoundariesStep, ContentsStep DEF IInv

\* A row may still be committed only with a version after the boundary of the manifest and after that of
\* the view, when the margin is at least the clock skew plus the lag of a statement's version plus the time
\* a refresh may take between its two readings.
THEOREM NoRowLost == ASSUME MarginCovers PROVE Spec => []NoRowBehindBoundary
<1>1. IInv => NoRowBehindBoundary
  BY OpenRowsAfter DEF IInv, NoRowBehindBoundary, Boundaries, BoundariesSettled, Types, TypeOK, Manifest, View
<1> QED
  BY <1>1, InitIInv, IInvStep, PTL DEF Spec

\* The digest in the manifest is that of the rows the active snapshot was made from, tampering or not.
THEOREM DigestCovers == ASSUME MarginCovers PROVE Spec => []DigestCoversSnapshot
<1>1. IInv => DigestCoversSnapshot
  BY DEF IInv, Contents, ManifestHolds
<1> QED
  BY <1>1, InitIInv, IInvStep, PTL DEF Spec

\* The active snapshot holds the live rows of the journal up to the manifest's boundary, unless somebody
\* changed rows behind vvector's back since the last refresh that verified.
THEOREM SnapshotHoldsJournal == ASSUME MarginCovers PROVE Spec => []ActiveHoldsJournal
<1>1. IInv => ActiveHoldsJournal
  BY DEF IInv, Contents, ManifestHolds, DigestCoversSnapshot, ActiveHoldsJournal
<1> QED
  BY <1>1, InitIInv, IInvStep, PTL DEF Spec

------------------------------------------------------------------------------
(* An exact query with the snapshot its view names.                        *)

ViewHolds ==
    /\ view.sid \in 0..lastSid
    /\ view.sid # 0 => store[view.sid].rows = Live(Upto(journal, view.from))

\* What a query has in hand when it was planned, when it has read its delta rows and when it is done.
QueryHolds(q) == LET x == query[q] IN
    /\ x.pc \in {"planned", "read"} => x.sid \in 1..lastSid
    /\ x.pc = "planned" => store[x.sid].rows = Live(Upto(journal, x.from))
    /\ x.pc = "read" => store[x.sid].rows = Live(Upto(x.epoch, x.from)) /\ x.rows = After(x.epoch, x.from)
    /\ x.pc = "done" /\ x.used = x.sid => x.result = Live(x.epoch)

Reads == clean /\ ViewHolds /\ \A q \in Readers : QueryHolds(q)

\* Snapshot ids are taken one at a time.
LEMMA SidsGrow == [Next]_vars => lastSid' \in {lastSid, lastSid + 1}
BY Frames DEF Next, RefreshStep, RefreshBegin, ReadLocks, TakeBoundary, Decide, Build, KeepSnapshot, LoadNode,
   RecordSnapshot, MakeView, RefreshFails, indexVars, vars

\* The view names a snapshot that holds the journal up to the view's boundary.
LEMMA ViewStep ==
    ASSUME IInv, clean, ViewHolds, [Next]_vars, ~Tampering
    PROVE  ViewHolds'
<1>0. /\ OpenRows /\ Settled(view.from) /\ ManifestHolds /\ Types
      /\ view \in View /\ view.sid \in 0..lastSid /\ view.from \in Nat
      /\ lastSid \in Nat /\ man.active \in 0..lastSid
  BY DEF IInv, Boundaries, BoundariesSettled, Contents, Types, TypeOK, SidOrder, View, ViewHolds
<1>1. CASE UNCHANGED view
  <2>1. view.sid # 0 => store'[view.sid].rows = store[view.sid].rows
    <3>1. view.sid # 0 => view.sid \in 1..lastSid
      BY <1>0
    <3> QED
      BY <1>0, <3>1, StoreStep
  <2>2. lastSid <= lastSid' /\ lastSid' \in Nat
    BY <1>0, SidsGrow
  <2>3. Upto(journal', view.from) = Upto(journal, view.from)
    BY <1>0, SettledJournal
  <2> QED
    BY <1>0, <1>1, <2>1, <2>2, <2>3 DEF ViewHolds
<1>2. CASE MakeView
  <2>1. /\ view' = [sid |-> man.active, from |-> man.from]
        /\ UNCHANGED <<journal, store, lastSid>>
    BY <1>2 DEF MakeView, journalVars
  <2> QED
    BY <1>0, <2>1 DEF ViewHolds, ManifestHolds, DigestCoversSnapshot
<1>3. UNCHANGED view \/ MakeView
  BY Frames DEF Next, RefreshStep, RefreshBegin, ReadLocks, TakeBoundary, Decide, Build, KeepSnapshot, LoadNode,
     RecordSnapshot, RefreshFails, indexVars, vars
<1> QED
  BY <1>1, <1>2, <1>3

\* A query nobody touches keeps what it has.
LEMMA QueryKept ==
    ASSUME IInv, [Next]_vars, ~Tampering, NEW q \in Readers, QueryHolds(q), query'[q] = query[q]
    PROVE  QueryHolds(q)'
<1>0. /\ OpenRows /\ Settled(query[q].from) /\ query[q].from \in Nat /\ Types /\ lastSid \in Nat
  BY DEF IInv, Boundaries, BoundariesSettled, Types, TypeOK, Query
<1>1. Upto(journal', query[q].from) = Upto(journal, query[q].from)
  BY <1>0, SettledJournal
<1>2. \A s \in 1..lastSid : store'[s].rows = store[s].rows
  BY <1>0, StoreStep
<1>3. 1..lastSid \subseteq 1..lastSid'
  BY <1>0, SidsGrow
<1> QED
  BY <1>1, <1>2, <1>3 DEF QueryHolds

\* Every step keeps what the queries have in hand.
LEMMA QueryHoldsStep ==
    ASSUME IInv, Reads, [Next]_vars, ~Tampering, NEW q \in Readers
    PROVE  QueryHolds(q)'
<1>0. /\ query \in [Readers -> Query] /\ journal \in SUBSET Row /\ Types
      /\ QueryHolds(q) /\ ViewHolds
  BY DEF IInv, Types, TypeOK, Reads
<1>1. CASE query'[q] = query[q]
  BY <1>0, <1>1, QueryKept
<1>2. CASE QueryPlan(q)
  <2> DEFINE planned == [NoQuery EXCEPT !.pc = "planned", !.sid = view.sid, !.from = view.from]
  <2>1. query'[q] = planned /\ view.sid # 0 /\ UNCHANGED <<journal, store, lastSid>>
    BY <1>0, <1>2 DEF QueryPlan, journalVars, indexVars
  <2>2. planned.pc = "planned" /\ planned.sid = view.sid /\ planned.from = view.from
    BY DEF NoQuery
  <2> HIDE DEF planned
  <2>3. view.sid \in 1..lastSid
    BY <1>0, <2>1 DEF ViewHolds, Types, TypeOK
  <2> QED
    BY <1>0, <2>1, <2>2, <2>3 DEF ViewHolds, QueryHolds
<1>3. CASE QueryRead(q)
  <2>1. /\ query[q].pc = "planned" /\ UNCHANGED <<store, lastSid>>
        /\ query'[q].pc = "read" /\ query'[q].rows = After(journal, query[q].from) /\ query'[q].epoch = journal
        /\ query'[q].sid = query[q].sid /\ query'[q].from = query[q].from
    BY <1>0, <1>3 DEF QueryRead, Query, indexVars
  <2> QED
    BY <1>0, <2>1 DEF QueryHolds
<1>4. ASSUME NEW n \in Nodes, QuerySearch(q, n) PROVE QueryHolds(q)'
  <2>1. PICK s \in seen[n] :
            query' = [query EXCEPT ![q].pc = "done", ![q].used = s,
                                   ![q].result = Apply(store[s].rows, query[q].rows)]
    BY <1>4 DEF QuerySearch
  <2>2. /\ query[q].pc = "read" /\ query'[q].pc = "done" /\ query'[q].used = s
        /\ query'[q].result = Apply(store[s].rows, query[q].rows)
        /\ query'[q].sid = query[q].sid /\ query'[q].epoch = query[q].epoch
    BY <1>0, <1>4, <2>1 DEF QuerySearch, Query
  <2> DEFINE E == query[q].epoch
             b == query[q].from
  <2>3. /\ store[query[q].sid].rows = Live(Upto(E, b)) /\ query[q].rows = After(E, b)
        /\ E \in SUBSET Row /\ b \in Nat
    BY <1>0, <2>2 DEF QueryHolds, Query
  <2> HIDE DEF E, b
  <2>4. /\ Upto(E, b) \in SUBSET Row /\ After(E, b) \in SUBSET Row
        /\ \A r \in Upto(E, b), d \in After(E, b) : r.ver < d.ver
        /\ Upto(E, b) \cup After(E, b) = E
    BY <2>3 DEF Upto, After, Row
  <2>5. Apply(Live(Upto(E, b)), After(E, b)) = Live(Upto(E, b) \cup After(E, b))
    BY <2>4, ApplyLive
  <2> QED
    BY <2>2, <2>3, <2>4, <2>5 DEF QueryHolds, E
<1>5. CASE QueryEnd(q)
  <2>1. query'[q] = NoQuery
    BY <1>0, <1>5 DEF QueryEnd
  <2> QED
    BY <2>1 DEF QueryHolds, NoQuery
<1>6. query'[q] = query[q] \/ QueryStep(q)
  <2>1. ASSUME NEW r \in Readers, QueryStep(r), r # q PROVE query'[q] = query[q]
    BY <1>0, <2>1 DEF QueryStep, QueryPlan, QueryRead, QuerySearch, QueryEnd
  <2> QED
    BY <2>1, Frames DEF Next, vars
<1> QED
  BY <1>1, <1>2, <1>3, <1>4, <1>5, <1>6 DEF QueryStep

\* With the snapshot its view names, an exact query returns the consolidated journal of its read epoch:
\* what the index holds up to the boundary and the delta rows after it are the whole journal, although the
\* boundary and the view move while queries run.  Nobody changes rows behind vvector's back.
THEOREM ExactQueries == ASSUME MarginCovers, Tamper = FALSE PROVE Spec => []ExactAtEpoch
<1> DEFINE Inv == IInv /\ Reads
<1>1. Init => Inv
  <2> SUFFICES ASSUME Init PROVE Reads
    BY InitIInv
  <2> QED
    BY DEF Init, Reads, ViewHolds, QueryHolds, NoQuery
<1>2. Inv /\ [Next]_vars => Inv'
  <2> SUFFICES ASSUME Inv, [Next]_vars PROVE Reads'
    BY IInvStep
  <2>1. ~Tampering
    BY DEF Tampering, TamperWith
  <2>2. clean'
    BY <2>1, Frames DEF Next, RefreshStep, RefreshBegin, ReadLocks, TakeBoundary, Decide, Build, KeepSnapshot,
       LoadNode, RecordSnapshot, MakeView, RefreshFails, vars, Reads
  <2>3. ViewHolds' /\ \A q \in Readers : QueryHolds(q)'
    BY <2>1, ViewStep, QueryHoldsStep DEF Reads
  <2> QED
    BY <2>2, <2>3 DEF Reads
<1>3. Inv => ExactAtEpoch
  BY DEF Reads, QueryHolds, ExactAtEpoch
<1> HIDE DEF Inv
<1> QED
  BY <1>1, <1>2, <1>3, PTL DEF Spec

------------------------------------------------------------------------------
(* An exact query with any snapshot its node may have.                     *)

\* A set of natural numbers that is not empty has a least one.
LEMMA LeastNat == ASSUME NEW T \in SUBSET Nat, T # {} PROVE \E x \in T : \A y \in T : x <= y
<1> DEFINE Less == {ss \in Nat \X Nat : ss[1] < ss[2]}
<1>1. IsWellFoundedOn(Less, Nat)
  BY NatLessThanWellFounded DEF OpToRel
<1>2. PICK x \in T : \A y \in T : ~(<<y, x>> \in Less)
  <2> HIDE DEF Less
  <2> QED
    BY <1>1, WFMin
<1>3. \A y \in T : ~(y < x)
  BY <1>2
<1> QED
  BY <1>3

\* Where versions are bounded, every id that has a row has a latest one.
LEMMA LatestRow ==
    ASSUME NEW U \in SUBSET Row, NEW u \in Nat, \A r \in U : r.ver <= u, NEW l \in U
    PROVE  \E m \in U : m.id = l.id /\ \A e \in U : ~Beats(e, m)
<1> DEFINE Same == {r \in U : r.id = l.id}
           T == {u - r.ver : r \in Same}
<1>1. \A r \in U : r.ver \in Nat /\ r.ver <= u
  BY DEF Row
<1>2. T \in SUBSET Nat
  BY <1>1
<1>3. u - l.ver \in T
  OBVIOUS
<1>4. PICK t \in T : \A y \in T : t <= y
  <2> HIDE DEF T
  <2> QED
    BY <1>2, <1>3, LeastNat
<1>5. PICK r \in Same : t = u - r.ver
  BY <1>4
<1>6. \A x \in Same : x.ver <= r.ver
  <2> TAKE x \in Same
  <2>1. t <= u - x.ver
    BY <1>4
  <2> QED
    BY <1>1, <1>5, <2>1
<1>7. CASE \E d \in Same : d.del /\ d.ver = r.ver
  BY <1>1, <1>6, <1>7 DEF Beats
<1>8. CASE \A d \in Same : ~(d.del /\ d.ver = r.ver)
  BY <1>1, <1>5, <1>6, <1>8 DEF Beats
<1> QED
  BY <1>7, <1>8

\* What ExactFresh says of one result R, for the rows E of the read epoch and the journal J now.
Fresh(R, E, J) ==
    /\ R \subseteq J
    /\ \A r \in R : ~r.del /\ \A e \in E : ~Beats(e, r)
    /\ \A r, s \in R : r.id = s.id => r = s
    /\ \A l \in Live(E) : (\E r \in R : r.id = l.id) \/ \E d \in J \ E : d.del /\ Beats(d, l)

\* A snapshot of the journal up to u and the rows of an earlier epoch after b, no later than u, are fresh:
\* the snapshot may know more than the epoch, and the delta rows it knows too replace themselves.
LEMMA FreshResult ==
    ASSUME NEW J \in SUBSET Row, NEW E \in SUBSET J, NEW u \in Nat, NEW b \in Nat, b <= u
    PROVE  Fresh(Apply(Live(Upto(J, u)), After(E, b)), E, J)
<1> DEFINE U == Upto(J, u)
           D == After(E, b)
           R == Apply(Live(U), D)
<1>1. \A r \in J : r.ver \in Nat /\ r.id \in Ids /\ r.del \in BOOLEAN
  BY DEF Row
<1>2. /\ U \subseteq J /\ D \subseteq E
      /\ \A r \in U : r.ver <= u
      /\ \A e \in E : e \notin D => e \in U
      /\ \A d \in D : d.ver > b
      /\ \A e \in E : e.ver > b => e \in D
  BY <1>1 DEF Upto, After
<1>3. \A r \in R : \/ r \in Live(D)
                   \/ r \in Live(U) /\ \A d \in D : d.id # r.id
  BY DEF Apply
<1>4. Live(D) \subseteq R
  BY DEF Apply
<1>5. \A m \in Live(U) : (\A d \in D : d.id # m.id) => m \in R
  BY DEF Apply
<1> HIDE DEF U, D, R
<1>6. R \subseteq J
  BY <1>2, <1>3 DEF Live
<1>7. ASSUME NEW r \in R PROVE ~r.del /\ \A e \in E : ~Beats(e, r)
  <2>1. CASE r \in Live(D)
    <3>1. r.ver > b /\ r \in J /\ ~r.del /\ \A d \in D : ~Beats(d, r)
      BY <1>2, <2>1 DEF Live
    <3>2. \A e \in E : Beats(e, r) => e.ver >= r.ver
      BY <1>1, <3>1 DEF Beats
    <3> QED
      BY <1>1, <1>2, <3>1, <3>2
  <2>2. CASE r \in Live(U) /\ \A d \in D : d.id # r.id
    <3>1. ~r.del /\ \A e \in U : ~Beats(e, r)
      BY <2>2 DEF Live
    <3>2. \A e \in E : Beats(e, r) => e \notin D
      BY <2>2 DEF Beats
    <3> QED
      BY <1>2, <3>1, <3>2
  <2> QED
    BY <1>3, <2>1, <2>2
<1>8. ASSUME NEW r \in R, NEW s \in R, r.id = s.id PROVE r = s
  <2>1. ~r.del /\ ~s.del /\ r \in Row /\ s \in Row
    BY <1>6, <1>7
  <2>2. r.ver \in Nat /\ s.ver \in Nat /\ ~(r.ver > s.ver) /\ ~(s.ver > r.ver)
    <3>1. r.ver \in Nat /\ s.ver \in Nat
      BY <1>1, <1>6
    <3>2. CASE r \in Live(D)
      <4>1. s \in Live(D)
        BY <1>3, <1>8, <3>2 DEF Live
      <4> QED
        BY <1>8, <3>1, <3>2, <4>1 DEF Live, Beats
    <3>3. CASE r \in Live(U) /\ \A d \in D : d.id # r.id
      <4>1. s \in Live(U)
        BY <1>3, <1>8, <3>3 DEF Live
      <4> QED
        BY <1>8, <3>1, <3>3, <4>1 DEF Live, Beats
    <3> QED
      BY <1>3, <3>2, <3>3
  <2> QED
    BY <1>8, <2>1, <2>2 DEF Row
<1>9. ASSUME NEW l \in Live(E)
      PROVE  (\E r \in R : r.id = l.id) \/ \E d \in J \ E : d.del /\ Beats(d, l)
  <2>1. l \in E /\ ~l.del /\ \A e \in E : ~Beats(e, l)
    BY DEF Live
  <2>2. CASE l \in D
    <3>1. l \in Live(D)
      BY <1>2, <2>1, <2>2 DEF Live
    <3> QED
      BY <1>4, <3>1
  <2>3. CASE l \notin D
    <3>1. l \in U
      BY <1>2, <2>1, <2>3
    <3>2. \A d \in D : d.id # l.id
      <4>1. ASSUME NEW d \in D, d.id = l.id PROVE FALSE
        <5>1. d.ver > b /\ ~(l.ver > b) /\ d \in E /\ d \in J /\ l \in J
          BY <1>2, <2>1, <2>3
        <5>2. d.ver > l.ver
          BY <1>1, <5>1
        <5> QED
          BY <2>1, <4>1, <5>1, <5>2 DEF Beats
      <4> QED
        BY <4>1
    <3>3. PICK m \in U : m.id = l.id /\ \A e \in U : ~Beats(e, m)
      <4>1. U \in SUBSET Row
        BY <1>2
      <4> QED
        BY <1>2, <3>1, <4>1, LatestRow
    <3>4. CASE ~m.del
      <4>1. m \in Live(U)
        BY <3>3, <3>4 DEF Live
      <4> QED
        BY <1>5, <3>2, <3>3, <4>1
    <3>5. CASE m.del
      <4>1. m \in J /\ l \in J /\ ~(l.ver > m.ver)
        BY <1>2, <3>1, <3>3 DEF Beats
      <4>2. Beats(m, l)
        BY <1>1, <2>1, <3>3, <3>5, <4>1 DEF Beats
      <4> QED
        BY <2>1, <3>5, <4>1, <4>2
    <3> QED
      BY <3>4, <3>5
  <2> QED
    BY <2>2, <2>3
<1> QED
  BY <1>6, <1>7, <1>8, <1>9 DEF Fresh, R, U, D

\* Snapshot s is the consolidated journal up to the boundary it was made for, or confirmed for since.
Holds(s) == store[s].rows = Live(Upto(journal, store[s].upto)) /\ Settled(store[s].upto)

\* Nodes load snapshots in the order they were made, and each of them holds the journal; a refresh that
\* continues a snapshot found every node with it.
NodesHold ==
    /\ \A n \in Nodes : active[n] \in 0..lastSid /\ \A s \in seen[n] : s <= active[n] /\ Holds(s)
    /\ (ref.pc = "decided" /\ ~ref.full) \/ ref.pc = "keep" => \A n \in Nodes : active[n] = ref.prev
    /\ ref.pc = "load" => ref.sid = lastSid /\ store[ref.sid].upto = ref.v

\* What is not older than the snapshot somebody asks for reaches the boundary that goes with it.
SnapshotsReach ==
    \A n \in Nodes : \A s \in seen[n] :
        /\ s >= man.active => store[s].upto >= man.from
        /\ view.sid # 0 /\ s >= view.sid => store[s].upto >= view.from
        /\ \A q \in Readers : query[q].pc \in {"planned", "read"} /\ s >= query[q].sid => store[s].upto >= query[q].from

\* A query has in hand a part of the journal of its epoch, and answers with fresh rows.
Answers ==
    \A q \in Readers : LET x == query[q] IN
        /\ x.pc \in {"planned", "read"} => x.from <= view.from
        /\ x.epoch \subseteq journal
        /\ x.pc = "read" => x.rows = After(x.epoch, x.from)
        /\ x.pc = "done" => Fresh(x.result, x.epoch, journal)

\* The facts about types the steps below use.
LEMMA FreshTypes ==
    ASSUME Types
    PROVE  /\ lastSid \in Nat /\ MaxSid \in Nat /\ lastSid <= MaxSid
           /\ journal \in SUBSET Row /\ man \in Manifest /\ view \in View /\ ref \in Run
           /\ store \in [Sids -> Snapshot] /\ active \in [Nodes -> Nat] /\ seen \in [Nodes -> SUBSET Sids]
           /\ query \in [Readers -> Query]
           /\ \A s \in Sids : s \in Nat /\ s >= 1 /\ store[s].upto \in Nat
           /\ man.active \in Nat /\ man.from \in Nat /\ view.sid \in Nat /\ view.from \in Nat
           /\ ref.prev \in Nat /\ ref.v \in Nat /\ ref.sid \in Nat
           /\ \A q \in Readers : query[q].sid \in Nat /\ query[q].from \in Nat
<1>1. /\ lastSid \in 0..MaxSid /\ MaxSid \in Nat
      /\ journal \in SUBSET Row /\ man \in Manifest /\ view \in View /\ ref \in Run
      /\ store \in [Sids -> Snapshot] /\ active \in [Nodes -> Nat] /\ seen \in [Nodes -> SUBSET Sids]
      /\ query \in [Readers -> Query]
  BY FreshnessConstants DEF Types, TypeOK, SidOrder
<1>2. \A s \in Sids : s \in Nat /\ s >= 1 /\ store[s].upto \in Nat
  BY <1>1 DEF Sids, Snapshot
<1>3. man.active \in Nat /\ man.from \in Nat /\ view.sid \in Nat /\ view.from \in Nat
  BY <1>1 DEF Manifest, View
<1>4. ref.prev \in Nat /\ ref.v \in Nat /\ ref.sid \in Nat
  BY <1>1 DEF Run
<1>5. \A q \in Readers : query[q].sid \in Nat /\ query[q].from \in Nat
  BY <1>1 DEF Query
<1> QED
  BY <1>1, <1>2, <1>3, <1>4, <1>5

\* A snapshot that was made and is not confirmed by this step stays as it is and keeps holding the journal.
LEMMA SnapshotKept ==
    ASSUME IInv, [Next]_vars, ~Tampering, NEW s \in 1..lastSid, KeepSnapshot => s # ref.prev
    PROVE  store'[s] = store[s] /\ (Holds(s) => Holds(s)')
<1>0. /\ Types /\ OpenRows /\ lastSid \in Nat /\ s \in Sids /\ s # lastSid + 1
      /\ store \in [Sids -> Snapshot] /\ store[s].upto \in Nat
  BY FreshTypes DEF IInv, Boundaries, Sids
<1>1. UNCHANGED store \/ Build \/ KeepSnapshot
  BY Frames DEF Next, RefreshStep, RefreshBegin, ReadLocks, TakeBoundary, Decide, LoadNode, RecordSnapshot,
     MakeView, RefreshFails, indexVars, vars
<1>2. store'[s] = store[s]
  <2>1. CASE Build
    <3>1. UNCHANGED store \/ \E x \in {[rows |-> Built, upto |-> ref.v]} : store' = [store EXCEPT ![lastSid + 1] = x]
      BY <2>1 DEF Build
    <3> QED
      BY <1>0, <3>1
  <2>2. CASE KeepSnapshot
    BY <1>0, <2>2 DEF KeepSnapshot
  <2> QED
    BY <1>1, <2>1, <2>2
<1>3. ASSUME Holds(s) PROVE Holds(s)'
  <2> PICK b \in Nat : b = store[s].upto
    BY <1>0
  <2>1. Settled(b)' /\ Upto(journal', b) = Upto(journal, b)
    BY <1>0, <1>3, StaysSettled, SettledJournal DEF Holds
  <2> QED
    BY <1>2, <1>3, <2>1 DEF Holds
<1> QED
  BY <1>2, <1>3


\* Where the refresher is after each of its statements.
LEMMA PcAfter ==
    ASSUME ref \in Run
    PROVE  /\ RefreshBegin => ref'.pc = "begun"
           /\ ReadLocks => ref'.pc = "locks"
           /\ TakeBoundary => ref'.pc = "boundary"
           /\ \A forced \in BOOLEAN : Decide(forced) => ref'.pc = "decided"
           /\ KeepSnapshot \/ RecordSnapshot => ref'.pc = "views"
           /\ MakeView \/ RefreshFails => ref'.pc = "idle"
<1>1. RefreshBegin => ref'.pc = "begun"
  BY DEF RefreshBegin, NoRun
<1>2. ReadLocks => ref'.pc = "locks"
  BY DEF ReadLocks, Run
<1>3. TakeBoundary => ref'.pc = "boundary"
  BY DEF TakeBoundary, Run
<1>4. \A forced \in BOOLEAN : Decide(forced) => ref'.pc = "decided"
  BY DEF Decide, Run
<1>5. KeepSnapshot \/ RecordSnapshot => ref'.pc = "views"
  BY DEF KeepSnapshot, RecordSnapshot, Run
<1>6. MakeView \/ RefreshFails => ref'.pc = "idle"
  BY DEF MakeView, RefreshFails, NoRun
<1> QED
  BY <1>1, <1>2, <1>3, <1>4, <1>5, <1>6

\* What the nodes have mapped, and what is built, holds the journal after every step.
LEMMA NodesHoldStep ==
    ASSUME IInv, clean, NodesHold, [Next]_vars, ~Tampering
    PROVE  NodesHold'
<1>0. /\ Types /\ OpenRows /\ Settled(ref.v) /\ NextDigest /\ BuildHolds /\ RunFollowsManifest
      /\ lastSid \in Nat /\ lastSid' \in Nat /\ lastSid <= lastSid'
      /\ ref \in Run /\ ref.v \in Nat /\ ref.prev \in Nat
      /\ store \in [Sids -> Snapshot] /\ active \in [Nodes -> Nat] /\ seen \in [Nodes -> SUBSET Sids]
  BY FreshTypes, SidsGrow DEF IInv, Boundaries, BoundariesSettled, Contents
<1>1. \A n \in Nodes : \A s \in seen[n] : s \in 1..lastSid /\ s <= active[n] /\ s <= lastSid /\ Holds(s)
  BY <1>0, FreshTypes DEF NodesHold
<1>2. ASSUME NEW s \in 1..lastSid, Holds(s), KeepSnapshot => s # ref.prev PROVE Holds(s)'
  BY <1>2, SnapshotKept
<1> DEFINE Mapped == \A n \in Nodes : active'[n] \in 0..lastSid' /\ \A s \in seen'[n] : s <= active'[n] /\ Holds(s)'
<1>3. Mapped
  <2>1. CASE UNCHANGED <<active, seen>> /\ ~KeepSnapshot
    BY <1>0, <1>1, <1>2, <2>1 DEF NodesHold
  <2>2. CASE KeepSnapshot
    <3>1. /\ ref.pc = "keep" /\ UNCHANGED <<active, seen, lastSid, journal>>
          /\ store' = [store EXCEPT ![ref.prev].upto = ref.v]
          /\ ref.prev = man.active /\ ref.prev \in 1..lastSid
      BY <1>0, <2>2 DEF KeepSnapshot, journalVars, RunFollowsManifest, Types, SidOrder
    <3>2. ref.prev \in Sids
      BY <3>1, FreshTypes, <1>0 DEF Sids
    <3>3. store[ref.prev].rows = Live(Upto(journal, ref.v))
      BY <1>0, <3>1 DEF BuildHolds, NextDigest
    <3>4. Settled(ref.v)'
      <4> PICK b \in Nat : b = ref.v
        BY <1>0
      <4>1. Settled(b)'
        BY <1>0, StaysSettled
      <4>2. ref'.v = ref.v
        BY <1>0, <2>2 DEF KeepSnapshot, Run
      <4> QED
        BY <4>1, <4>2
    <3>5. store'[ref.prev].rows = store[ref.prev].rows /\ store'[ref.prev].upto = ref.v /\ ref'.v = ref.v
      BY <1>0, <2>2, <3>1, <3>2 DEF KeepSnapshot, Snapshot, Run
    <3> PICK p \in Nat : p = ref.prev
      BY <1>0
    <3>6. Holds(p)'
      BY <3>1, <3>3, <3>4, <3>5 DEF Holds
    <3>7. \A s \in 1..lastSid : Holds(s) => Holds(s)'
      BY <1>2, <3>6
    <3> QED
      BY <1>0, <1>1, <3>1, <3>7 DEF NodesHold
  <2>3. ASSUME NEW m \in Nodes, LoadNode(m) PROVE Mapped
    <3>1. /\ ref.pc = "load" /\ UNCHANGED <<journal, store, lastSid, ref>> /\ ~KeepSnapshot
          /\ active' = [active EXCEPT ![m] = ref.sid] /\ seen' = [seen EXCEPT ![m] = @ \cup {ref.sid}]
          /\ ref.sid \in 1..lastSid /\ ref.sid = lastSid /\ store[ref.sid].upto = ref.v
      BY <1>0, <2>3 DEF LoadNode, KeepSnapshot, journalVars, Types, SidOrder, NodesHold
    <3> PICK l \in 1..lastSid : l = ref.sid
      BY <3>1
    <3>2. Holds(l)
      BY <1>0, <3>1 DEF Holds, BuildHolds, NextDigest
    <3>3. \A s \in 1..lastSid : Holds(s) => Holds(s)'
      BY <1>2, <3>1
    <3>4. ASSUME NEW n \in Nodes
          PROVE  active'[n] \in 0..lastSid' /\ \A s \in seen'[n] : s <= active'[n] /\ Holds(s)'
      <4>1. CASE n = m
        <5>1. active'[n] = l /\ seen'[n] = seen[n] \cup {l}
          BY <1>0, <3>1, <4>1
        <5>2. \A s \in seen'[n] : s \in 1..lastSid /\ Holds(s)
          BY <1>1, <3>2, <5>1
        <5> QED
          BY <1>0, <3>1, <3>3, <5>1, <5>2
      <4>2. CASE n # m
        <5>1. active'[n] = active[n] /\ seen'[n] = seen[n]
          BY <1>0, <3>1, <4>2
        <5> QED
          BY <1>0, <1>1, <3>1, <3>3, <5>1 DEF NodesHold
      <4> QED
        BY <4>1, <4>2
    <3> QED
      BY <3>4
  <2>4. UNCHANGED <<active, seen>> \/ \E m \in Nodes : LoadNode(m)
    BY Frames DEF Next, RefreshStep, RefreshBegin, ReadLocks, TakeBoundary, Decide, Build, KeepSnapshot,
       RecordSnapshot, MakeView, RefreshFails, indexVars, vars
  <2> QED
    BY <2>1, <2>2, <2>3, <2>4
<1>4. (ref'.pc = "decided" /\ ~ref'.full) \/ ref'.pc = "keep" => \A n \in Nodes : active'[n] = ref'.prev
  <2>1. CASE \E forced \in BOOLEAN : Decide(forced)
    <3>1. PICK forced \in BOOLEAN : Decide(forced)
      BY <2>1
    <3>2. ref' = [ref EXCEPT !.pc = "decided", !.verify = forced \/ NoBase \/ VerifyDue,
                             !.full = forced \/ NoBase \/ ((forced \/ NoBase \/ VerifyDue) /\ JournalChanged),
                             !.next = IF forced \/ NoBase \/ VerifyDue THEN Upto(journal, ref.v) ELSE Carried]
          /\ UNCHANGED active
      BY <3>1 DEF Decide, indexVars
    <3>3. ref'.pc = "decided" /\ ref'.prev = ref.prev /\ (~ref'.full => ~NoBase)
      BY <1>0, <3>2 DEF Run
    <3> QED
      BY <3>2, <3>3 DEF NoBase
  <2>2. CASE Build
    <3>1. UNCHANGED active /\ ref.pc = "decided"
          /\ \/ ref' = NoRun
             \/ ref' = [ref EXCEPT !.pc = "keep"] /\ ~ref.full
             \/ ref' = [ref EXCEPT !.pc = "load", !.sid = lastSid + 1]
      BY <2>2 DEF Build
    <3>2. /\ NoRun.pc = "idle" /\ [ref EXCEPT !.pc = "load", !.sid = lastSid + 1].pc = "load"
          /\ [ref EXCEPT !.pc = "keep"].pc = "keep" /\ [ref EXCEPT !.pc = "keep"].prev = ref.prev
      BY <1>0 DEF NoRun, Run
    <3> QED
      BY <3>1, <3>2 DEF NodesHold
  <2>3. CASE UNCHANGED ref
    <3>1. ref.pc # "load" => UNCHANGED active
      BY <2>3, Frames DEF Next, RefreshStep, RefreshBegin, ReadLocks, TakeBoundary, Decide, Build, KeepSnapshot,
         LoadNode, RecordSnapshot, MakeView, RefreshFails, indexVars, vars
    <3> QED
      BY <2>3, <3>1 DEF NodesHold
  <2>4. CASE ref'.pc \notin {"decided", "keep"}
    BY <2>4
  <2>5. RefreshBegin \/ ReadLocks \/ TakeBoundary \/ KeepSnapshot \/ RecordSnapshot \/ MakeView \/ RefreshFails
            => ref'.pc \notin {"decided", "keep"}
    BY <1>0, PcAfter
  <2> QED
    BY <2>1, <2>2, <2>3, <2>4, <2>5, Frames DEF Next, RefreshStep, LoadNode, vars
<1>5. ref'.pc = "load" => ref'.sid = lastSid' /\ store'[ref'.sid].upto = ref'.v
  <2>1. CASE Build
    <3>1. /\ ref.pc = "decided" /\ lastSid' = lastSid + 1 /\ lastSid + 1 \in Sids
          /\ \/ ref' = NoRun
             \/ ref' = [ref EXCEPT !.pc = "keep"] /\ ~ref.full
             \/ /\ ref' = [ref EXCEPT !.pc = "load", !.sid = lastSid + 1]
                /\ store' = [store EXCEPT ![lastSid + 1] = [rows |-> Built, upto |-> ref.v]]
      BY <1>0, <2>1, FreshTypes DEF Build, Types, SidOrder, Sids
    <3>2. /\ NoRun.pc = "idle" /\ [ref EXCEPT !.pc = "keep"].pc = "keep"
          /\ [ref EXCEPT !.pc = "load", !.sid = lastSid + 1].sid = lastSid + 1
          /\ [ref EXCEPT !.pc = "load", !.sid = lastSid + 1].v = ref.v
          /\ [store EXCEPT ![lastSid + 1] = [rows |-> Built, upto |-> ref.v]][lastSid + 1].upto = ref.v
      BY <1>0, <3>1 DEF NoRun, Run
    <3> QED
      BY <3>1, <3>2
  <2>2. CASE UNCHANGED ref /\ ref.pc = "load"
    <3>1. ref.sid = lastSid /\ ref.sid \in 1..lastSid /\ store[ref.sid].upto = ref.v
      BY <1>0, <2>2 DEF NodesHold, Types, SidOrder
    <3>2. ~KeepSnapshot /\ lastSid' = lastSid
      BY <2>2, Frames DEF Next, RefreshStep, RefreshBegin, ReadLocks, TakeBoundary, Decide, Build, KeepSnapshot,
         LoadNode, RecordSnapshot, MakeView, RefreshFails, indexVars, vars
    <3> PICK l \in 1..lastSid : l = ref.sid
      BY <3>1
    <3>3. store'[l] = store[l]
      BY <3>2, SnapshotKept
    <3> QED
      BY <2>2, <3>1, <3>2, <3>3
  <2>3. CASE ref'.pc # "load"
    BY <2>3
  <2>4. RefreshBegin \/ ReadLocks \/ TakeBoundary \/ (\E forced \in BOOLEAN : Decide(forced))
            \/ KeepSnapshot \/ RecordSnapshot \/ MakeView \/ RefreshFails => ref'.pc # "load"
    BY <1>0, PcAfter
  <2> QED
    BY <2>1, <2>2, <2>3, <2>4, Frames DEF Next, RefreshStep, LoadNode, vars
<1> QED
  BY <1>3, <1>4, <1>5 DEF NodesHold


\* What a step of a query does to any query: it is left alone, planned with what the view names, given its
\* epoch, answered over a mapped snapshot, or ended.
LEMMA QueryMoves ==
    ASSUME query \in [Readers -> Query], NEW r \in Readers, QueryStep(r), NEW q \in Readers
    PROVE  \/ query'[q] = query[q]
           \/ /\ query'[q].pc = "planned" /\ view.sid # 0 /\ query'[q].sid = view.sid /\ query'[q].from = view.from
              /\ query'[q].epoch = {}
           \/ /\ query[q].pc = "planned" /\ query'[q].pc = "read"
              /\ query'[q].sid = query[q].sid /\ query'[q].from = query[q].from
              /\ query'[q].rows = After(journal, query[q].from) /\ query'[q].epoch = journal
           \/ /\ query[q].pc = "read" /\ query'[q].pc = "done" /\ query'[q].epoch = query[q].epoch
              /\ \E n \in Nodes : \E s \in seen[n] :
                    s >= query[q].sid /\ query'[q].result = Apply(store[s].rows, query[q].rows)
           \/ query'[q].pc = "idle" /\ query'[q].epoch = {}
<1>1. CASE q # r
  BY <1>1 DEF QueryStep, QueryPlan, QueryRead, QuerySearch, QueryEnd
<1>2. CASE q = r
  <2>1. CASE QueryPlan(q)
    <3> DEFINE planned == [NoQuery EXCEPT !.pc = "planned", !.sid = view.sid, !.from = view.from]
    <3>1. query'[q] = planned /\ view.sid # 0
      BY <2>1 DEF QueryPlan
    <3>2. planned.pc = "planned" /\ planned.sid = view.sid /\ planned.from = view.from /\ planned.epoch = {}
      BY DEF NoQuery
    <3> HIDE DEF planned
    <3> QED
      BY <3>1, <3>2
  <2>2. CASE QueryRead(q)
    BY <2>2 DEF QueryRead, Query
  <2>3. ASSUME NEW n \in Nodes, QuerySearch(q, n)
        PROVE  /\ query[q].pc = "read" /\ query'[q].pc = "done" /\ query'[q].epoch = query[q].epoch
               /\ \E s \in seen[n] : s >= query[q].sid /\ query'[q].result = Apply(store[s].rows, query[q].rows)
    <3>1. PICK s \in seen[n] :
             /\ s >= query[q].sid
             /\ query' = [query EXCEPT ![q].pc = "done", ![q].used = s,
                                       ![q].result = Apply(store[s].rows, query[q].rows)]
      BY <2>3 DEF QuerySearch
    <3> QED
      BY <2>3, <3>1 DEF QuerySearch, Query
  <2>4. CASE QueryEnd(q)
    BY <2>4 DEF QueryEnd, NoQuery
  <2> QED
    BY <1>2, <2>1, <2>2, <2>3, <2>4 DEF QueryStep
<1> QED
  BY <1>1, <1>2

\* Snapshots reach the boundaries they are asked with after every step.
LEMMA SnapshotsReachStep ==
    ASSUME IInv, NodesHold, SnapshotsReach, Answers, [Next]_vars, ~Tampering
    PROVE  SnapshotsReach'
<1>0. /\ Types /\ RunFollowsManifest
      /\ ref \in Run /\ man \in Manifest /\ view \in View /\ query \in [Readers -> Query]
      /\ ref.v \in Nat /\ ref.prev \in Nat /\ man.from \in Nat /\ view.from \in Nat
      /\ store \in [Sids -> Snapshot] /\ active \in [Nodes -> Nat] /\ seen \in [Nodes -> SUBSET Sids]
      /\ lastSid \in Nat /\ \A s \in Sids : s \in Nat /\ s >= 1 /\ store[s].upto \in Nat
      /\ \A q \in Readers : query[q].from \in Nat
  BY FreshTypes DEF IInv
<1>1. \A n \in Nodes : \A s \in seen[n] : s \in Sids /\ s \in 1..lastSid /\ s <= active[n]
  BY <1>0 DEF NodesHold
<1>2. \A n \in Nodes : \A s \in seen[n] : (KeepSnapshot => s # ref.prev) => store'[s] = store[s]
  BY <1>1, SnapshotKept
<1>3. \A q \in Readers : query[q].pc \in {"planned", "read"} => query[q].from <= view.from
  BY DEF Answers
<1>4. view.from <= man.from /\ (ref.pc \in {"keep", "load"} => man.from <= ref.v)
  BY <1>0 DEF RunFollowsManifest
<1>5. CASE KeepSnapshot
  <2>1. /\ ref.pc = "keep" /\ UNCHANGED <<seen, view, query>>
        /\ man'.from = ref.v /\ man'.active = man.active /\ man.active = ref.prev
        /\ ref.prev \in Sids => store'[ref.prev].upto = ref.v
        /\ \A n \in Nodes : active[n] = ref.prev
    BY <1>0, <1>5 DEF KeepSnapshot, Snapshot, Manifest, RunFollowsManifest, NodesHold
  <2>2. ASSUME NEW n \in Nodes, NEW s \in seen[n]
        PROVE  \/ s = ref.prev /\ store'[s].upto = ref.v
               \/ s < ref.prev /\ store'[s] = store[s]
    BY <1>0, <1>1, <1>2, <2>1
  <2> QED
    BY <1>0, <1>3, <1>4, <2>1, <2>2 DEF SnapshotsReach
<1>6. CASE RecordSnapshot
  <2>1. /\ ref.pc = "load" /\ UNCHANGED <<seen, view, query, store>>
        /\ man'.from = ref.v /\ man'.active = ref.sid /\ store[ref.sid].upto = ref.v
        /\ \A n \in Nodes : active[n] = ref.sid
    BY <1>0, <1>6 DEF RecordSnapshot, NodesHold
  <2>2. \A n \in Nodes : \A s \in seen[n] : s >= ref.sid => s = ref.sid
    BY <1>0, <1>1, <2>1
  <2> QED
    BY <1>0, <2>1, <2>2 DEF SnapshotsReach
<1>7. ASSUME NEW m \in Nodes, LoadNode(m) PROVE SnapshotsReach'
  <2>1. /\ ref.pc = "load" /\ UNCHANGED <<man, view, query, store>> /\ store[ref.sid].upto = ref.v
        /\ \A n \in Nodes : seen'[n] \subseteq seen[n] \cup {ref.sid}
    BY <1>0, <1>7 DEF LoadNode, NodesHold
  <2> QED
    BY <1>0, <1>3, <1>4, <2>1 DEF SnapshotsReach
<1>8. CASE MakeView
  <2>1. /\ view'.sid = man.active /\ view'.from = man.from /\ UNCHANGED <<man, query, store, seen>>
    BY <1>8 DEF MakeView
  <2> QED
    BY <1>0, <2>1 DEF SnapshotsReach
<1>9. ASSUME NEW r \in Readers, QueryStep(r) PROVE SnapshotsReach'
  <2>1. UNCHANGED <<man, view, store, seen>>
    BY <1>9, Frames DEF indexVars
  <2>2. ASSUME NEW q \in Readers, query'[q].pc \in {"planned", "read"}
        PROVE  \/ query[q].pc \in {"planned", "read"} /\ query'[q].sid = query[q].sid /\ query'[q].from = query[q].from
               \/ view.sid # 0 /\ query'[q].sid = view.sid /\ query'[q].from = view.from
    BY <1>0, <1>9, <2>2, QueryMoves
  <2> QED
    BY <2>1, <2>2 DEF SnapshotsReach
<1>10. CASE UNCHANGED <<man, view, query, seen>> /\ ~KeepSnapshot
  BY <1>2, <1>10 DEF SnapshotsReach
<1>11. \/ UNCHANGED <<man, view, query, seen>> /\ ~KeepSnapshot
       \/ KeepSnapshot \/ RecordSnapshot \/ (\E m \in Nodes : LoadNode(m)) \/ MakeView
       \/ \E r \in Readers : QueryStep(r)
  BY Frames DEF Next, RefreshStep, RefreshBegin, ReadLocks, TakeBoundary, Decide, Build, RefreshFails, indexVars,
     vars
<1> QED
  BY <1>5, <1>6, <1>7, <1>8, <1>9, <1>10, <1>11

\* Only tampering takes rows out of the journal.
LEMMA JournalGrows == [Next]_vars /\ ~Tampering => journal \subseteq journal'
BY Frames DEF Next, WriterStep, LockTable, WriteRow, Commit, Rollback, journalVars, vars

\* Queries answer with fresh rows after every step: the snapshot a query finds reaches the boundary its
\* delta rows start from.
LEMMA AnswersStep ==
    ASSUME IInv, Reads, NodesHold, SnapshotsReach, Answers, [Next]_vars, ~Tampering
    PROVE  Answers'
<1>0. /\ Types /\ RunFollowsManifest /\ journal \in SUBSET Row /\ journal \subseteq journal'
      /\ query \in [Readers -> Query] /\ seen \in [Nodes -> SUBSET Sids]
      /\ view.from \in Nat /\ man.from \in Nat /\ \A q \in Readers : query[q].from \in Nat
      /\ \A s \in Sids : store[s].upto \in Nat
      /\ view.from <= view'.from /\ view'.from \in Nat
  BY FreshTypes, JournalGrows, BoundaryStep, BoundarySources DEF IInv
<1> SUFFICES ASSUME NEW q \in Readers
             PROVE  /\ query'[q].pc \in {"planned", "read"} => query'[q].from <= view'.from
                    /\ query'[q].epoch \subseteq journal'
                    /\ query'[q].pc = "read" => query'[q].rows = After(query'[q].epoch, query'[q].from)
                    /\ query'[q].pc = "done" => Fresh(query'[q].result, query'[q].epoch, journal')
  BY DEF Answers
<1>1. CASE query'[q] = query[q]
  BY <1>0, <1>1 DEF Answers, Fresh
<1>2. ASSUME NEW r \in Readers, QueryStep(r), query'[q] # query[q]
      PROVE  /\ query'[q].pc \in {"planned", "read"} => query'[q].from <= view'.from
             /\ query'[q].epoch \subseteq journal'
             /\ query'[q].pc = "read" => query'[q].rows = After(query'[q].epoch, query'[q].from)
             /\ query'[q].pc = "done" => Fresh(query'[q].result, query'[q].epoch, journal')
  <2>0. UNCHANGED <<journal, view>>
    BY <1>2, Frames DEF journalVars, indexVars
  <2>1. CASE query'[q].pc = "planned" /\ query'[q].from = view.from /\ query'[q].epoch = {}
    BY <1>0, <2>1
  <2>2. CASE /\ query[q].pc = "planned" /\ query'[q].pc = "read" /\ query'[q].from = query[q].from
             /\ query'[q].rows = After(journal, query[q].from) /\ query'[q].epoch = journal
    BY <1>0, <2>0, <2>2 DEF Answers
  <2>3. ASSUME query[q].pc = "read", query'[q].pc = "done", query'[q].epoch = query[q].epoch,
               NEW n \in Nodes, NEW s \in seen[n], s >= query[q].sid,
               query'[q].result = Apply(store[s].rows, query[q].rows)
        PROVE  Fresh(query'[q].result, query'[q].epoch, journal') /\ query'[q].epoch \subseteq journal'
    <3>1. /\ store[s].rows = Live(Upto(journal, store[s].upto))
          /\ query[q].rows = After(query[q].epoch, query[q].from)
          /\ query[q].epoch \subseteq journal
          /\ query[q].from <= store[s].upto /\ store[s].upto \in Nat /\ query[q].from \in Nat
      BY <1>0, <2>3 DEF NodesHold, Holds, Answers, SnapshotsReach
    <3> QED
      BY <1>0, <2>0, <2>3, <3>1, FreshResult
  <2>4. CASE query'[q].pc = "idle" /\ query'[q].epoch = {}
    BY <2>4
  <2> QED
    BY <1>0, <1>2, <2>1, <2>2, <2>3, <2>4, QueryMoves
<1>3. query'[q] = query[q] \/ \E r \in Readers : QueryStep(r)
  BY Frames DEF Next, vars
<1> QED
  BY <1>1, <1>2, <1>3

\* An exact query returns, for every id, the row of its read epoch or a newer committed one, and nothing
\* that is older, deleted or twice there: whatever snapshot the node has mapped, that of a refresh still
\* running or broken off included, as long as it is not older than the one the view names.  Nobody changes
\* rows behind vvector's back.
THEOREM FreshQueries == ASSUME MarginCovers, Tamper = FALSE PROVE Spec => []ExactFresh
<1> DEFINE Inv == IInv /\ Reads /\ NodesHold /\ SnapshotsReach /\ Answers
<1>1. Init => Inv
  <2> SUFFICES ASSUME Init PROVE Reads /\ NodesHold /\ SnapshotsReach /\ Answers
    BY InitIInv
  <2> QED
    BY DEF Init, Reads, ViewHolds, QueryHolds, NodesHold, SnapshotsReach, Answers, NoQuery, NoRun
<1>2. Inv /\ [Next]_vars => Inv'
  <2> SUFFICES ASSUME Inv, [Next]_vars PROVE Reads' /\ NodesHold' /\ SnapshotsReach' /\ Answers'
    BY IInvStep
  <2>1. ~Tampering
    BY DEF Tampering, TamperWith
  <2>2. clean /\ clean'
    BY <2>1, Frames DEF Next, RefreshStep, RefreshBegin, ReadLocks, TakeBoundary, Decide, Build, KeepSnapshot,
       LoadNode, RecordSnapshot, MakeView, RefreshFails, vars, Reads
  <2>3. ViewHolds' /\ \A q \in Readers : QueryHolds(q)'
    BY <2>1, ViewStep, QueryHoldsStep DEF Reads
  <2>4. NodesHold' /\ SnapshotsReach' /\ Answers'
    BY <2>1, <2>2, NodesHoldStep, SnapshotsReachStep, AnswersStep
  <2> QED
    BY <2>2, <2>3, <2>4 DEF Reads
<1>3. Inv => ExactFresh
  BY DEF Answers, Fresh, ExactFresh
<1> HIDE DEF Inv
<1> QED
  BY <1>1, <1>2, <1>3, PTL DEF Spec
==============================================================================
