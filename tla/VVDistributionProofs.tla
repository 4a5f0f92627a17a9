------------------------- MODULE VVDistributionProofs -------------------------
(***************************************************************************)
(* Theorems about VVDistribution, for all nodes, ways to form subclusters, *)
(* snapshots, registrations and faults.  Three of them assume one          *)
(* registration of the name (MaxGen <= 1): when a name is registered again *)
(* under a refresh that runs, that refresh writes into the new row, or     *)
(* makes its views from what it read of the old one.                       *)
(*                                                                         *)
(* Outline.  Effects say what each step does to the refresh and to the     *)
(* load_all that run.  IdsInv: no id is above the sequence, and a refresh  *)
(* loads its newest.  SteadyInv: a steady node is not behind the manifest, *)
(* the views, or what they are made from.  PatchInv: an undisturbed        *)
(* refresh leaves the base where it saw it.  ChainInv: the refresh that    *)
(* runs continues the manifest's chain.  ViewsInv: what a refresh read for *)
(* its views stays the manifest's snapshot.  RepairInv: an undisturbed     *)
(* load_all has every node at the member before or at the one it loads.    *)
(***************************************************************************)
EXTENDS VVDistribution, TLAPS

\* What two states of a refresh, or of a load_all, have in common when they differ in nothing but alone.
SameRefresh(r, q) ==
    /\ q.pc = r.pc /\ q.sub = r.sub /\ q.prev = r.prev /\ q.chain = r.chain /\ q.full = r.full /\ q.base = r.base
    /\ q.sid = r.sid /\ q.reach = r.reach /\ q.done = r.done /\ q.withSnap = r.withSnap
    /\ q.seen = r.seen
SameRepair(r, q) ==
    /\ q.pc = r.pc /\ q.sub = r.sub /\ q.sid = r.sid /\ q.chain = r.chain /\ q.i = r.i
    /\ q.reach = r.reach /\ q.done = r.done

LEMMA RefreshDisturbed ==
    \A r \in Refreshes :
        /\ [r EXCEPT !.alone = FALSE] \in Refreshes
        /\ SameRefresh(r, [r EXCEPT !.alone = FALSE]) /\ ~[r EXCEPT !.alone = FALSE].alone
BY DEF Refreshes, SameRefresh

LEMMA RepairDisturbed ==
    \A r \in Repairs :
        /\ [r EXCEPT !.alone = FALSE] \in Repairs
        /\ SameRepair(r, [r EXCEPT !.alone = FALSE]) /\ ~[r EXCEPT !.alone = FALSE].alone
BY DEF Repairs, SameRepair

LEMMA Idle == NoRefresh \in Refreshes /\ NoRepair \in Repairs
BY DistributionConstants DEF NoRefresh, NoRepair, Refreshes, Repairs

LEMMA BeginEffect ==
    ASSUME TypeOK, NEW S \in SUBSET Nodes, RefreshBegin(S)
    PROVE  /\ ref' \in Refreshes /\ ref'.pc = "begun" /\ ref'.sub = S /\ ref'.prev = man.active
           /\ ref'.chain = man.chain /\ ref'.done = {}
<1>1. ref' \in [pc : {"begun"}, sub : {S}, prev : {man.active}, chain : {man.chain}, full : BOOLEAN, base : {0},
                sid : {0}, reach : {{}}, done : {{}}, withSnap : BOOLEAN, seen : {0}, alone : BOOLEAN]
  BY DEF RefreshBegin, NoRefresh
<1>2. man.active \in 0..MaxSid /\ man.chain \in Seq(Sids) /\ 0 \in 0..MaxSid
  BY DistributionConstants DEF TypeOK
<1> QED
  BY <1>1, <1>2 DEF Refreshes

LEMMA DecideEffect ==
    ASSUME TypeOK, NEW forced \in BOOLEAN, RefreshDecide(forced)
    PROVE  /\ ref' \in Refreshes /\ ref'.pc = "decided" /\ ref'.sub = ref.sub /\ ref'.prev = ref.prev
           /\ ref'.chain = ref.chain /\ ref'.alone = ref.alone /\ ref'.reach = ref.sub \cap up
           /\ ref'.done = ref.done
           /\ ref'.full <=> (forced \/ ref.prev = 0 \/ Lacked(ref.sub, ref.prev))
<1>1. (forced \/ ref.prev = 0 \/ Lacked(ref.sub, ref.prev)) \in BOOLEAN
  BY DEF Lacked
<1> QED
  BY <1>1 DEF RefreshDecide, Refreshes, TypeOK

LEMMA StoreEffect ==
    ASSUME TypeOK, NEW whole \in BOOLEAN, StorePieces(whole)
    PROVE  /\ ref' \in Refreshes /\ ref'.pc = "load" /\ ref'.sid = lastSid + 1 /\ ref'.sid \in Sids
           /\ ref'.prev = ref.prev /\ ref'.chain = ref.chain /\ ref'.done = ref.done
           /\ ref'.reach = ref.sub \cap up /\ ref'.base = (IF whole THEN 0 ELSE ref.prev)
           /\ ref'.alone <=> ref.alone /\ ref.sub \cap up = ref.reach
<1> DEFINE base == IF whole THEN 0 ELSE ref.prev
           same == ref.alone /\ ref.sub \cap up = ref.reach
<1>1. ref' = [ref EXCEPT !.pc = "load", !.sid = lastSid + 1, !.base = base, !.alone = same,
                         !.reach = ref.sub \cap up]
  BY DEF StorePieces
<1>2. base \in 0..MaxSid /\ lastSid + 1 \in Sids /\ lastSid + 1 \in 0..MaxSid /\ same \in BOOLEAN
  BY DistributionConstants, SMTT(20) DEF StorePieces, Refreshes, TypeOK, Sids
<1>3. ref \in Refreshes /\ up \subseteq Nodes
  BY DEF TypeOK
<1> HIDE DEF base, same
<1>4. /\ ref' \in Refreshes /\ ref'.pc = "load" /\ ref'.sid = lastSid + 1
      /\ ref'.prev = ref.prev /\ ref'.chain = ref.chain /\ ref'.done = ref.done
      /\ ref'.reach = ref.sub \cap up /\ ref'.base = base
  BY <1>1, <1>2, <1>3 DEF Refreshes
<1>5. ref'.alone = same
  BY <1>1, <1>2, <1>3 DEF Refreshes
<1>6. ref'.alone <=> ref.alone /\ ref.sub \cap up = ref.reach
  BY <1>5, Zenon DEF same
<1> QED
  BY <1>2, <1>4, <1>6 DEF base

LEMMA PhaseEffect ==
    ASSUME TypeOK
    PROVE  /\ KeepSnapshot => ref' = [ref EXCEPT !.pc = "views"]
           /\ MakeSnapView => ref' = [ref EXCEPT !.pc = "delta"]
           /\ MakeDeltaView => \E p \in {"prune", "ended"} : ref' = [ref EXCEPT !.pc = p] /\ (p = "prune" => ref.withSnap)
           /\ PrunePieces => ref' = [ref EXCEPT !.pc = "ended"]
           /\ \A p \in {"views", "delta", "prune", "ended"} :
                 /\ [ref EXCEPT !.pc = p] \in Refreshes
                 /\ [ref EXCEPT !.pc = p].pc = p
                 /\ [ref EXCEPT !.pc = p].chain = ref.chain
                 /\ [ref EXCEPT !.pc = p].withSnap = ref.withSnap
                 /\ [ref EXCEPT !.pc = p].seen = ref.seen
<1>1. \A p \in {"views", "delta", "prune", "ended"} :
         /\ [ref EXCEPT !.pc = p] \in Refreshes
         /\ [ref EXCEPT !.pc = p].pc = p
         /\ [ref EXCEPT !.pc = p].chain = ref.chain
         /\ [ref EXCEPT !.pc = p].withSnap = ref.withSnap
         /\ [ref EXCEPT !.pc = p].seen = ref.seen
  BY DEF Refreshes, TypeOK
<1>2. MakeDeltaView => \E p \in {"prune", "ended"} : ref' = [ref EXCEPT !.pc = p] /\ (p = "prune" => ref.withSnap)
  BY DEF MakeDeltaView
<1> QED
  BY <1>1, <1>2 DEF KeepSnapshot, MakeSnapView, PrunePieces

\* What a refresh knows once it has read the row for its views.
LEMMA ReadEffect ==
    ASSUME TypeOK, ReadRow
    PROVE  /\ ref' \in Refreshes /\ ref'.pc = (IF ref.withSnap THEN "snap" ELSE "delta") /\ ref'.seen = man.active
           /\ ref'.chain = ref.chain /\ ref'.withSnap = ref.withSnap
<1>1. man.active \in 0..MaxSid /\ ref \in Refreshes
  BY DEF TypeOK
<1> QED
  BY <1>1 DEF ReadRow, SidNow, Refreshes

LEMMA LoadEffect ==
    ASSUME TypeOK, NEW n \in Nodes, RefreshLoad(n)
    PROVE  /\ ref' \in Refreshes /\ ref'.pc = "load" /\ ref'.sid = ref.sid /\ ref'.prev = ref.prev
           /\ ref'.chain = ref.chain /\ ref'.base = ref.base /\ ref'.reach = ref.reach
           /\ ref'.done = ref.done \cup {n} /\ ref'.alone = ref.alone
BY DEF RefreshLoad, Refreshes, TypeOK

LEMMA NewChainType == TypeOK /\ ref.pc = "load" => NewChain \in Seq(Sids) /\ NewChain # <<>> /\ ref.sid \in Sids
<1> SUFFICES ASSUME TypeOK, ref.pc = "load" PROVE NewChain \in Seq(Sids) /\ NewChain # <<>> /\ ref.sid \in Sids
  OBVIOUS
<1>1. ref.sid \in Sids
  BY DistributionConstants DEF TypeOK, Refreshes, Sids
<1>2. ref.chain \in Seq(Sids)
  BY DEF TypeOK, Refreshes
<1> QED
  BY <1>1, <1>2 DEF NewChain

LEMMA RecordEffect ==
    ASSUME TypeOK, RefreshRecord
    PROVE  ref' \in Refreshes /\ ref'.pc = "views" /\ ref'.chain = NewChain /\ ref'.withSnap
<1>1. NewChain \in Seq(Sids)
  BY NewChainType DEF RefreshRecord
<1> QED
  BY <1>1 DEF RefreshRecord, Refreshes, TypeOK

\* Every step, by what it leaves of the refresh and of the load_all that run.
LEMMA RefreshAfter ==
    ASSUME TypeOK, Next
    PROVE  \/ ref' = ref
           \/ ref' \in Refreshes /\ SameRefresh(ref, ref') /\ ~ref'.alone
           \/ ref' = NoRefresh
           \/ \E S \in subclusters : RefreshBegin(S)
           \/ \E b \in BOOLEAN : RefreshDecide(b) \/ StorePieces(b)
           \/ KeepSnapshot \/ RefreshRecord \/ ReadRow \/ MakeSnapView \/ MakeDeltaView \/ PrunePieces
           \/ \E n \in Nodes : RefreshLoad(n)
<1>1. ref \in Refreshes
  BY DEF TypeOK
<1>2. [ref EXCEPT !.alone = FALSE] = ref' => ref' \in Refreshes /\ SameRefresh(ref, ref') /\ ~ref'.alone
  BY <1>1, RefreshDisturbed
<1>3. Unregister \/ (\E n \in Nodes : RepairLoad(n) \/ NodeDown(n) \/ CacheLost(n)) => ref' = [ref EXCEPT !.alone = FALSE]
  BY DEF Unregister, RepairLoad, NodeDown, CacheLost, Disturbed
<1>4. Register \/ (\E S \in subclusters : RepairBegin(S)) \/ RepairNext \/ RepairEnd \/ RepairFails
      \/ (\E n \in Nodes : NodeUp(n)) => ref' = ref
  BY DEF Register, RepairBegin, RepairNext, RepairEnd, RepairFails, NodeUp
<1>5. RefreshEnd \/ RefreshFails \/ (\E n \in Nodes : RefreshLoadCut(n)) => ref' = NoRefresh
  BY DEF RefreshEnd, RefreshFails, RefreshLoadCut
<1> QED
  BY <1>2, <1>3, <1>4, <1>5 DEF Next

LEMMA RepairAfter ==
    ASSUME TypeOK, Next
    PROVE  \/ rep' = rep
           \/ rep' \in Repairs /\ SameRepair(rep, rep') /\ ~rep'.alone
           \/ rep' = NoRepair
           \/ \E S \in subclusters : RepairBegin(S)
           \/ \E n \in Nodes : RepairLoad(n)
           \/ RepairNext
<1>1. rep \in Repairs
  BY DEF TypeOK
<1>2. [rep EXCEPT !.alone = FALSE] = rep' => rep' \in Repairs /\ SameRepair(rep, rep') /\ ~rep'.alone
  BY <1>1, RepairDisturbed
<1>3. Unregister \/ RefreshRecord
      \/ (\E n \in Nodes : RefreshLoad(n) \/ RefreshLoadCut(n) \/ NodeDown(n) \/ CacheLost(n))
      => rep' = [rep EXCEPT !.alone = FALSE]
  BY DEF Unregister, RefreshRecord, RefreshLoad, RefreshLoadCut, NodeDown, CacheLost, Disturbed
<1>4. Register \/ (\E S \in subclusters : RefreshBegin(S)) \/ (\E b \in BOOLEAN : RefreshDecide(b) \/ StorePieces(b))
      \/ KeepSnapshot \/ ReadRow \/ MakeSnapView \/ MakeDeltaView \/ PrunePieces \/ RefreshEnd \/ RefreshFails
      \/ (\E n \in Nodes : NodeUp(n)) => rep' = rep
  BY DEF Register, RefreshBegin, RefreshDecide, StorePieces, KeepSnapshot, ReadRow, MakeSnapView, MakeDeltaView,
         PrunePieces, RefreshEnd, RefreshFails, NodeUp
<1>5. RepairEnd \/ RepairFails => rep' = NoRepair
  BY DEF RepairEnd, RepairFails
<1> QED
  BY <1>2, <1>3, <1>4, <1>5 DEF Next

LEMMA CatalogAfter ==
    Next => \/ UNCHANGED <<man, pieces, lastSid, lastGen, views>>
            \/ Register \/ Unregister \/ KeepSnapshot \/ RefreshRecord \/ MakeSnapView \/ MakeDeltaView \/ PrunePieces
            \/ \E b \in BOOLEAN : StorePieces(b)
BY DEF Next, RefreshBegin, RefreshDecide, ReadRow, RefreshLoad, RefreshLoadCut, RefreshEnd, RefreshFails, RepairBegin,
       RepairLoad, RepairNext, RepairEnd, RepairFails, NodeDown, NodeUp, CacheLost, catalogVars

LEMMA NodesAfter ==
    Next => \/ UNCHANGED <<subclusters, cache, up, faults, steady>>
            \/ RefreshRecord
            \/ \E n \in Nodes :
                  \/ RefreshLoad(n) \/ RefreshLoadCut(n) \/ RepairLoad(n)
                  \/ NodeDown(n) \/ NodeUp(n) \/ CacheLost(n)
BY DEF Next, Register, Unregister, RefreshBegin, RefreshDecide, StorePieces, KeepSnapshot, ReadRow, MakeSnapView,
       MakeDeltaView, PrunePieces, RefreshEnd, RefreshFails, RepairBegin, RepairNext, RepairEnd, RepairFails, nodeVars

\* The steps of a load_all.
LEMMA RepairBeginEffect ==
    ASSUME TypeOK, NEW S \in SUBSET Nodes, man.chain # <<>>, RepairBegin(S)
    PROVE  /\ rep' \in Repairs /\ rep'.pc = "load" /\ rep'.sub = S /\ rep'.sid = man.active
           /\ rep'.chain = man.chain /\ rep'.i = 1 /\ rep'.i \in DOMAIN rep'.chain
           /\ rep'.reach = S \cap up /\ rep'.done = {}
<1>1. rep' \in [pc : {"load"}, sub : {S}, sid : {man.active}, chain : {man.chain}, i : {1}, reach : {S \cap up},
                done : {{}}, alone : BOOLEAN]
  BY DEF RepairBegin, NoRepair, FromWholeCopy
<1>2. man.active \in 0..MaxSid /\ man.chain \in Seq(Sids) /\ S \cap up \in SUBSET Nodes
  BY DEF TypeOK
<1>3. 1 \in DOMAIN man.chain
  BY <1>2
<1>4. rep' \in Repairs
  BY <1>1, <1>2 DEF Repairs
<1> QED
  BY <1>1, <1>3, <1>4

LEMMA RepairLoadEffect ==
    ASSUME TypeOK, NEW n \in Nodes, RepairLoad(n)
    PROVE  /\ rep' \in Repairs /\ rep'.pc = "load" /\ rep'.sid = rep.sid /\ rep'.chain = rep.chain
           /\ rep'.i = rep.i /\ rep'.reach = rep.reach /\ rep'.done = rep.done \cup {n} /\ rep'.alone = rep.alone
BY DEF RepairLoad, Repairs, TypeOK

LEMMA RepairNextEffect ==
    ASSUME TypeOK, RepairNext
    PROVE  /\ rep' \in Repairs /\ rep'.sid = rep.sid /\ rep'.chain = rep.chain
           /\ \/ /\ rep'.pc = "load" /\ rep'.i = rep.i + 1 /\ rep'.i \in DOMAIN rep'.chain /\ rep'.done = {}
                 /\ rep'.reach = rep.sub \cap up /\ (rep'.alone => rep.alone /\ rep.sub \cap up = rep.reach)
              \/ /\ rep'.pc = "ended" /\ rep'.reach = rep.reach /\ rep'.alone = rep.alone
                 /\ rep.i = Len(rep.chain) /\ rep.chain[rep.i] = rep.sid
<1>1. rep \in Repairs /\ up \subseteq Nodes /\ rep.chain \in Seq(Sids) /\ rep.pc = "load" /\ rep.i \in DOMAIN rep.chain
  BY DEF TypeOK, Repairs, RepairNext
<1>2. CASE rep.i < Len(rep.chain)
  <2> DEFINE same == rep.alone /\ rep.sub \cap up = rep.reach
  <2>1. rep' = [rep EXCEPT !.i = rep.i + 1, !.done = {}, !.reach = rep.sub \cap up, !.alone = same]
    BY <1>1, <1>2 DEF RepairNext
  <2>2. same \in BOOLEAN /\ rep.i + 1 \in Nat /\ rep.i + 1 \in DOMAIN rep.chain
    BY <1>1, <1>2
  <2> HIDE DEF same
  <2>3. /\ rep' \in Repairs /\ rep'.sid = rep.sid /\ rep'.chain = rep.chain /\ rep'.pc = rep.pc
        /\ rep'.i = rep.i + 1 /\ rep'.done = {} /\ rep'.reach = rep.sub \cap up
    BY <1>1, <2>1, <2>2 DEF Repairs
  <2>4. rep'.alone = same
    BY <1>1, <2>1, <2>2 DEF Repairs
  <2>5. rep'.alone => rep.alone /\ rep.sub \cap up = rep.reach
    BY <2>4, Zenon DEF same
  <2> QED
    BY <1>1, <2>2, <2>3, <2>5
<1>3. CASE ~(rep.i < Len(rep.chain))
  <2>1. rep' = [rep EXCEPT !.pc = "ended"] /\ rep.i = Len(rep.chain) /\ rep.chain[rep.i] = rep.sid
    BY <1>3 DEF RepairNext
  <2> QED
    BY <1>1, <2>1 DEF Repairs
<1> QED
  BY <1>2, <1>3

\* A subcluster is a set of nodes.
LEMMA SubclusterNodes == TypeOK => \A S \in subclusters : S \subseteq Nodes
BY DistributionConstants DEF TypeOK

\* What a load, whole or cut short, makes of a cache.
Caches == [active : 0..MaxSid, files : SUBSET Sids]
LEMMA LoadedCache ==
    ASSUME NEW c \in Caches, NEW s \in Sids
    PROVE  /\ AfterLoad(c, s) \in Caches
           /\ AfterLoad(c, s).active = s /\ s \in AfterLoad(c, s).files
           /\ \A d \in CutShort(c, s) :
                 /\ d \in Caches
                 /\ (d.active = s /\ s \in d.files) \/ (d.active = c.active /\ c.files \subseteq d.files)
BY DistributionConstants DEF Caches, AfterLoad, CutShort, Sids

\* Types are kept; a manifest with a snapshot has a chain.
ChainThere == man.active # 0 => man.chain # <<>>

LEMMA InitTypes == Init => TypeOK /\ ChainThere
BY Idle, DistributionConstants DEF Init, TypeOK, ChainThere, NoRefresh, NoRepair

LEMMA RefreshTypes == TypeOK /\ Next => ref' \in Refreshes /\ (ref'.pc = "load" => ref'.sid # 0)
<1> SUFFICES ASSUME TypeOK, Next PROVE ref' \in Refreshes /\ (ref'.pc = "load" => ref'.sid # 0)
  OBVIOUS
<1>1. CASE ref' = ref
  BY <1>1 DEF TypeOK
<1>2. CASE ref' \in Refreshes /\ SameRefresh(ref, ref')
  BY <1>2 DEF TypeOK, SameRefresh
<1>3. CASE ref' = NoRefresh
  BY <1>3, Idle DEF NoRefresh
<1>4. ASSUME NEW S \in subclusters, RefreshBegin(S) PROVE ref' \in Refreshes /\ ref'.pc # "load"
  BY <1>4, BeginEffect, SubclusterNodes
<1>5. ASSUME NEW b \in BOOLEAN, RefreshDecide(b) PROVE ref' \in Refreshes /\ ref'.pc # "load"
  BY <1>5, DecideEffect
<1>6. ASSUME NEW b \in BOOLEAN, StorePieces(b) PROVE ref' \in Refreshes /\ ref'.sid # 0
  BY <1>6, StoreEffect DEF Sids
<1>7. CASE KeepSnapshot \/ MakeSnapView \/ MakeDeltaView \/ PrunePieces
  BY <1>7, PhaseEffect
<1>8. CASE RefreshRecord \/ ReadRow
  BY <1>8, RecordEffect, ReadEffect
<1>9. ASSUME NEW n \in Nodes, RefreshLoad(n) PROVE ref' \in Refreshes /\ ref'.sid # 0
  BY <1>9, LoadEffect DEF RefreshLoad, TypeOK
<1> QED
  BY <1>1, <1>2, <1>3, <1>4, <1>5, <1>6, <1>7, <1>8, <1>9, RefreshAfter

LEMMA RepairTypes == TypeOK /\ ChainThere /\ Next => rep' \in Repairs /\ (rep'.pc = "load" => rep'.i \in DOMAIN rep'.chain)
<1> SUFFICES ASSUME TypeOK, ChainThere, Next
             PROVE  rep' \in Repairs /\ (rep'.pc = "load" => rep'.i \in DOMAIN rep'.chain)
  OBVIOUS
<1>1. CASE rep' = rep
  BY <1>1 DEF TypeOK
<1>2. CASE rep' \in Repairs /\ SameRepair(rep, rep')
  BY <1>2 DEF TypeOK, SameRepair
<1>3. CASE rep' = NoRepair
  BY <1>3, Idle DEF NoRepair
<1>4. ASSUME NEW S \in subclusters, RepairBegin(S) PROVE rep' \in Repairs /\ rep'.i \in DOMAIN rep'.chain
  <2>1. man.chain # <<>> /\ S \in SUBSET Nodes
    BY <1>4, SubclusterNodes DEF ChainThere, RepairBegin
  <2> QED
    BY <1>4, <2>1, RepairBeginEffect
<1>5. ASSUME NEW n \in Nodes, RepairLoad(n) PROVE rep' \in Repairs /\ rep'.i \in DOMAIN rep'.chain
  BY <1>5, RepairLoadEffect DEF RepairLoad, TypeOK
<1>6. CASE RepairNext
  BY <1>6, RepairNextEffect
<1> QED
  BY <1>1, <1>2, <1>3, <1>4, <1>5, <1>6, RepairAfter

LEMMA CacheTypes == TypeOK /\ Next => cache' \in [Nodes -> Caches]
<1> SUFFICES ASSUME TypeOK, Next PROVE cache' \in [Nodes -> Caches]
  OBVIOUS
<1>1. cache \in [Nodes -> Caches]
  BY DEF TypeOK, Caches
<1>2. ASSUME NEW n \in Nodes, RefreshLoad(n) \/ RefreshLoadCut(n) PROVE cache' \in [Nodes -> Caches]
  <2>1. ref.sid \in Sids
    BY <1>2, NewChainType DEF RefreshLoad, RefreshLoadCut
  <2> QED
    BY <1>1, <1>2, <2>1, LoadedCache DEF RefreshLoad, RefreshLoadCut
<1>3. ASSUME NEW n \in Nodes, RepairLoad(n) PROVE cache' \in [Nodes -> Caches]
  <2>1. rep.chain[rep.i] \in Sids
    BY <1>3 DEF RepairLoad, TypeOK, Repairs
  <2> QED
    BY <1>1, <1>3, <2>1, LoadedCache DEF RepairLoad
<1>4. ASSUME NEW n \in Nodes, CacheLost(n) PROVE cache' \in [Nodes -> Caches]
  <2>1. [active |-> 0, files |-> {}] \in Caches
    BY DistributionConstants DEF Caches
  <2> QED
    BY <1>1, <1>4, <2>1 DEF CacheLost
<1>5. ASSUME NEW n \in Nodes, NodeDown(n) \/ NodeUp(n) PROVE cache' = cache
  BY <1>5 DEF NodeDown, NodeUp
<1>6. RefreshRecord => cache' = cache
  BY DEF RefreshRecord
<1> QED
  BY <1>1, <1>2, <1>3, <1>4, <1>5, <1>6, NodesAfter

LEMMA CatalogTypes ==
    TypeOK /\ ChainThere /\ Next =>
        /\ man' \in [gen : 0..MaxGen, active : 0..MaxSid, chain : Seq(Sids)] /\ ChainThere'
        /\ pieces' \subseteq Piece /\ lastSid' \in 0..MaxSid /\ lastGen' \in 0..MaxGen
        /\ views' \in [snap : 0..MaxSid, delta : 0..MaxSid]
<1> SUFFICES ASSUME TypeOK, ChainThere, Next
             PROVE  /\ man' \in [gen : 0..MaxGen, active : 0..MaxSid, chain : Seq(Sids)] /\ ChainThere'
                    /\ pieces' \subseteq Piece /\ lastSid' \in 0..MaxSid /\ lastGen' \in 0..MaxGen
                    /\ views' \in [snap : 0..MaxSid, delta : 0..MaxSid]
  OBVIOUS
<1> USE DistributionConstants
<1>1. CASE Register
  BY <1>1 DEF Register, TypeOK, ChainThere
<1>2. CASE Unregister
  BY <1>2 DEF Unregister, TypeOK, ChainThere
<1>3. ASSUME NEW b \in BOOLEAN, StorePieces(b)
      PROVE  UNCHANGED <<man, lastGen, views>> /\ pieces' \subseteq Piece /\ lastSid' \in 0..MaxSid
  BY <1>3, SMTT(20) DEF StorePieces, TypeOK, Piece, Sids, Refreshes
<1>4. CASE KeepSnapshot
  BY <1>4 DEF KeepSnapshot, TypeOK, ChainThere
<1>5. CASE RefreshRecord
  <2>1. NewChain \in Seq(Sids) /\ NewChain # <<>> /\ ref.sid \in 0..MaxSid
    BY <1>5, NewChainType DEF RefreshRecord, Sids
  <2> QED
    BY <1>5, <2>1 DEF RefreshRecord, TypeOK, ChainThere
<1>6. CASE MakeSnapView \/ MakeDeltaView
  BY <1>6 DEF MakeSnapView, MakeDeltaView, TypeOK, ChainThere, Refreshes
<1>7. CASE PrunePieces
  BY <1>7 DEF PrunePieces, TypeOK, ChainThere
<1>8. UNCHANGED <<man, lastGen, views>> =>
          /\ man' \in [gen : 0..MaxGen, active : 0..MaxSid, chain : Seq(Sids)] /\ ChainThere'
          /\ lastGen' \in 0..MaxGen /\ views' \in [snap : 0..MaxSid, delta : 0..MaxSid]
  BY DEF TypeOK, ChainThere
<1>9. UNCHANGED <<pieces, lastSid>> => pieces' \subseteq Piece /\ lastSid' \in 0..MaxSid
  BY DEF TypeOK
<1> QED
  BY <1>1, <1>2, <1>3, <1>4, <1>5, <1>6, <1>7, <1>8, <1>9, CatalogAfter

LEMMA NodeTypes ==
    TypeOK /\ Next => subclusters' \in Clusters /\ up' \subseteq Nodes /\ steady' \subseteq Nodes /\ faults' \in 0..MaxFaults
<1> SUFFICES ASSUME TypeOK, Next
             PROVE  subclusters' \in Clusters /\ up' \subseteq Nodes /\ steady' \subseteq Nodes /\ faults' \in 0..MaxFaults
  OBVIOUS
<1>1. subclusters \in Clusters /\ up \subseteq Nodes /\ steady \subseteq Nodes /\ faults \in 0..MaxFaults
  BY DEF TypeOK
<1>2. CASE RefreshRecord
  BY <1>1, <1>2 DEF RefreshRecord
<1>3. ASSUME NEW n \in Nodes, RefreshLoad(n) \/ RefreshLoadCut(n) \/ RepairLoad(n) \/ NodeUp(n)
      PROVE  subclusters' = subclusters /\ up' \subseteq Nodes /\ steady' \subseteq Nodes /\ faults' = faults
  BY <1>1, <1>3 DEF RefreshLoad, RefreshLoadCut, RepairLoad, NodeUp
<1>4. ASSUME NEW n \in Nodes, NodeDown(n) \/ CacheLost(n)
      PROVE  subclusters' = subclusters /\ up' \subseteq Nodes /\ steady' \subseteq Nodes /\ faults' \in 0..MaxFaults
  BY <1>1, <1>4, DistributionConstants DEF NodeDown, CacheLost, Disturbed
<1> QED
  BY <1>1, <1>2, <1>3, <1>4, NodesAfter

LEMMA TypeStep == TypeOK /\ ChainThere /\ [Next]_vars => TypeOK' /\ ChainThere'
<1> SUFFICES ASSUME TypeOK, ChainThere, [Next]_vars PROVE TypeOK' /\ ChainThere'
  OBVIOUS
<1>1. CASE Next
  BY <1>1, RefreshTypes, RepairTypes, CacheTypes, CatalogTypes, NodeTypes DEF TypeOK, Caches
<1>2. CASE UNCHANGED vars
  BY <1>2 DEF vars, TypeOK, ChainThere
<1> QED
  BY <1>1, <1>2

\* Every variable keeps its type, whatever fails; a manifest with a snapshot always has a chain.
THEOREM DistributionTypes == Spec => []TypeOK
<1>1. Init => TypeOK /\ ChainThere
  BY InitTypes
<1>2. TypeOK /\ ChainThere /\ [Next]_vars => (TypeOK /\ ChainThere)'
  BY TypeStep
<1> QED
  BY <1>1, <1>2, PTL DEF Spec

------------------------------------------------------------------------------
(* Snapshot ids.                                                           *)

\* What a refresh is about to make its views from.
Showing == ref.pc \in {"snap", "delta"}

\* No id is above the last one taken from the sequence; a refresh that loads has that one.
IdsInv ==
    /\ man.active <= lastSid
    /\ ref.pc = "load" => ref.sid = lastSid /\ man.active < ref.sid
    /\ views.snap <= lastSid /\ views.delta <= lastSid
    /\ Showing => ref.seen <= lastSid

\* Every step, by what it leaves of what the views are made from.
LEMMA ShowingStep ==
    ASSUME TypeOK, Next
    PROVE  /\ Showing' => (Showing /\ ref'.seen = ref.seen) \/ (ReadRow /\ ref'.seen = man.active)
           /\ ref'.pc = "load" => \/ ref.pc = "load" /\ ref'.sid = ref.sid
                                  \/ \E b \in BOOLEAN : StorePieces(b)
<1>1. CASE ref' = ref \/ SameRefresh(ref, ref')
  BY <1>1 DEF SameRefresh, Showing
<1>2. CASE ref' = NoRefresh
  BY <1>2 DEF NoRefresh, Showing
<1>3. ASSUME NEW S \in subclusters, RefreshBegin(S) PROVE ref'.pc = "begun"
  BY <1>3, BeginEffect, SubclusterNodes
<1>4. ASSUME NEW b \in BOOLEAN, RefreshDecide(b) PROVE ref'.pc = "decided"
  BY <1>4, DecideEffect
<1>5. ASSUME NEW b \in BOOLEAN, StorePieces(b) PROVE ref'.pc = "load"
  BY <1>5, StoreEffect
<1>6. KeepSnapshot \/ RefreshRecord => ref'.pc = "views"
  BY PhaseEffect, RecordEffect
<1>7. ReadRow => ref'.pc # "load" /\ ref'.seen = man.active
  BY ReadEffect
<1>8. MakeSnapView => ref'.pc = "delta" /\ ref'.seen = ref.seen /\ Showing
  BY PhaseEffect DEF MakeSnapView, Showing
<1>9. MakeDeltaView \/ PrunePieces => ref'.pc \in {"prune", "ended"}
  BY PhaseEffect
<1>10. ASSUME NEW n \in Nodes, RefreshLoad(n) PROVE ref'.pc = "load" /\ ref'.sid = ref.sid /\ ref.pc = "load"
  BY <1>10, LoadEffect DEF RefreshLoad
<1> QED
  BY <1>1, <1>2, <1>3, <1>4, <1>5, <1>6, <1>7, <1>8, <1>9, <1>10, RefreshAfter DEF Showing

\* Every step, by what it leaves of the views.
LEMMA ViewsAfter ==
    ASSUME TypeOK, Next
    PROVE  \/ views' = views
           \/ views' = [snap |-> 0, delta |-> 0] /\ (Register \/ Unregister)
           \/ MakeSnapView /\ ref.pc = "snap" /\ views'.snap = ref.seen /\ views'.delta = views.delta
           \/ MakeDeltaView /\ ref.pc = "delta" /\ views'.delta = ref.seen /\ views'.snap = views.snap
<1>1. Register \/ Unregister => views' = [snap |-> 0, delta |-> 0]
  BY DEF Register, Unregister
<1>2. KeepSnapshot \/ RefreshRecord \/ PrunePieces \/ (\E b \in BOOLEAN : StorePieces(b)) => views' = views
  BY DEF KeepSnapshot, RefreshRecord, PrunePieces, StorePieces
<1>3. MakeSnapView => ref.pc = "snap" /\ views'.snap = ref.seen /\ views'.delta = views.delta
  BY DEF MakeSnapView, TypeOK
<1>4. MakeDeltaView => ref.pc = "delta" /\ views'.delta = ref.seen /\ views'.snap = views.snap
  BY DEF MakeDeltaView, TypeOK
<1> QED
  BY <1>1, <1>2, <1>3, <1>4, CatalogAfter

\* A step takes one id from the sequence, or none.
LEMMA SequenceAfter ==
    ASSUME TypeOK, Next
    PROVE  lastSid' = lastSid \/ lastSid' = lastSid + 1
BY CatalogAfter DEF Register, Unregister, KeepSnapshot, RefreshRecord, MakeSnapView, MakeDeltaView, PrunePieces, StorePieces

\* The manifest's snapshot goes up by a record only.
LEMMA ManifestStep == Next => man' = man \/ man'.active = 0 \/ RefreshRecord
<1>1. Register \/ Unregister => man'.active = 0
  BY DEF Register, Unregister
<1>2. KeepSnapshot \/ MakeSnapView \/ MakeDeltaView \/ PrunePieces \/ (\E b \in BOOLEAN : StorePieces(b)) => man' = man
  BY DEF KeepSnapshot, MakeSnapView, MakeDeltaView, PrunePieces, StorePieces
<1> QED
  BY <1>1, <1>2, CatalogAfter

\* Ids stay below the sequence: a store takes the next one, every other step copies one that is there.
LEMMA IdsStep == TypeOK /\ IdsInv /\ Next => IdsInv'
<1> SUFFICES ASSUME TypeOK, IdsInv, Next PROVE IdsInv'
  OBVIOUS
<1>0. /\ man.active \in Nat /\ man'.active \in Nat /\ lastSid \in Nat /\ ref.sid \in Nat /\ ref.seen \in Nat
      /\ views.snap \in Nat /\ views.delta \in Nat
  <2>1. ref \in Refreshes /\ TypeOK
    BY DEF TypeOK
  <2>2. ref.sid \in 0..MaxSid /\ ref.seen \in 0..MaxSid
    BY <2>1 DEF Refreshes
  <2>3. man'.active = man.active \/ man'.active = 0 \/ man'.active = ref.sid
    BY ManifestStep DEF RefreshRecord, TypeOK
  <2> QED
    BY <2>2, <2>3, DistributionConstants DEF TypeOK
<1>1. lastSid' \in {lastSid, lastSid + 1} /\ lastSid' >= lastSid
  BY <1>0, SequenceAfter
<1>2. man'.active <= lastSid'
  <2>1. RefreshRecord => man'.active \in {man.active, ref.sid} /\ ref.pc = "load"
    BY DEF RefreshRecord, TypeOK
  <2> QED
    BY <1>0, <1>1, <2>1, ManifestStep DEF IdsInv
<1>3. ref'.pc = "load" => ref'.sid = lastSid' /\ man'.active < ref'.sid
  <2>1. ASSUME NEW b \in BOOLEAN, StorePieces(b) PROVE ref'.sid = lastSid' /\ man'.active < ref'.sid
    <3>1. ref'.sid = lastSid + 1 /\ lastSid' = lastSid + 1 /\ man' = man
      BY <2>1, StoreEffect DEF StorePieces
    <3> QED
      BY <1>0, <3>1 DEF IdsInv
  <2>2. ASSUME ref.pc = "load", ref'.pc = "load", ref'.sid = ref.sid, ~\E b \in BOOLEAN : StorePieces(b)
        PROVE  ref'.sid = lastSid' /\ man'.active < ref'.sid
    <3>1. ~RefreshRecord /\ ~KeepSnapshot
      BY <2>2, RecordEffect DEF KeepSnapshot
    <3>2. lastSid' = lastSid
      BY <2>2, <3>1, CatalogAfter DEF Register, Unregister, MakeSnapView, MakeDeltaView, PrunePieces
    <3>3. man'.active = man.active \/ man'.active = 0
      BY <3>1, ManifestStep
    <3> QED
      BY <1>0, <2>2, <3>2, <3>3 DEF IdsInv
  <2> QED
    BY <2>1, <2>2, ShowingStep
<1>4. views'.snap <= lastSid' /\ views'.delta <= lastSid'
  BY <1>0, <1>1, ViewsAfter DEF IdsInv, Showing
<1>5. Showing' => ref'.seen <= lastSid'
  BY <1>0, <1>1, ShowingStep DEF IdsInv
<1> QED
  BY <1>2, <1>3, <1>4, <1>5 DEF IdsInv

------------------------------------------------------------------------------
(* Steady nodes.                                                           *)

\* A steady node has a snapshot not behind the manifest's, the views', or the one the views are made from, and the
\* refresh's own once it has loaded it.
SteadyInv ==
    /\ \A n \in steady :
          /\ cache[n].active \in cache[n].files /\ cache[n].active >= man.active
          /\ cache[n].active >= views.snap /\ cache[n].active >= views.delta
          /\ Showing => cache[n].active >= ref.seen
    /\ ref.pc = "load" => \A n \in ref.done \cap steady : cache[n].active = ref.sid
    /\ ref.pc \in {"begun", "decided"} => ref.done = {}

\* What the refresh has done grows by loading only.
LEMMA DoneStep ==
    ASSUME TypeOK, SteadyInv, Next
    PROVE  /\ ref'.pc \in {"begun", "decided"} => ref'.done = {}
           /\ ref'.pc = "load" /\ ref'.done # {} /\ ~(\E n \in Nodes : RefreshLoad(n))
              => ref.pc = "load" /\ ref'.done = ref.done /\ ref'.sid = ref.sid
<1>1. CASE ref' = ref \/ SameRefresh(ref, ref')
  BY <1>1 DEF SameRefresh, SteadyInv
<1>2. CASE ref' = NoRefresh
  BY <1>2 DEF NoRefresh
<1>3. ASSUME NEW S \in subclusters, RefreshBegin(S) PROVE ref'.pc = "begun" /\ ref'.done = {}
  BY <1>3, BeginEffect, SubclusterNodes
<1>4. ASSUME NEW b \in BOOLEAN, RefreshDecide(b) PROVE ref'.pc = "decided" /\ ref'.done = {}
  BY <1>4, DecideEffect DEF RefreshDecide, SteadyInv
<1>5. ASSUME NEW b \in BOOLEAN, StorePieces(b) PROVE ref'.pc = "load" /\ ref'.done = {}
  BY <1>5, StoreEffect DEF StorePieces, SteadyInv
<1>6. CASE KeepSnapshot \/ ReadRow \/ MakeSnapView \/ MakeDeltaView \/ PrunePieces
  <2>1. KeepSnapshot \/ ReadRow \/ MakeSnapView => ref'.pc \in {"views", "snap", "delta"}
    BY PhaseEffect, ReadEffect
  <2>2. PrunePieces => ref'.pc = "ended"
    BY PhaseEffect
  <2>3. MakeDeltaView => ref'.pc \in {"prune", "ended"}
    BY PhaseEffect
  <2> QED
    BY <1>6, <2>1, <2>2, <2>3
<1>7. CASE RefreshRecord
  BY <1>7, RecordEffect
<1>8. ASSUME NEW n \in Nodes, RefreshLoad(n) PROVE ref'.pc = "load"
  BY <1>8, LoadEffect
<1>9. ref'.pc \in {"begun", "decided"} => ref'.done = {}
  BY <1>1, <1>2, <1>3, <1>4, <1>5, <1>6, <1>7, <1>8, RefreshAfter
<1>10. ASSUME ~\E n \in Nodes : RefreshLoad(n), ref'.pc = "load", ref'.done # {}
       PROVE  ref.pc = "load" /\ ref'.done = ref.done /\ ref'.sid = ref.sid
  BY <1>1, <1>2, <1>3, <1>4, <1>5, <1>6, <1>7, <1>10, RefreshAfter
<1> QED
  BY <1>9, <1>10

\* A step that changes no steady node leaves them ahead of the manifest and the views.
LEMMA SteadyAhead ==
    ASSUME TypeOK, IdsInv, SteadyInv, Next, ~RefreshRecord, NEW n \in steady, cache'[n].active >= cache[n].active,
           cache'[n].active \in Nat
    PROVE  /\ cache'[n].active >= man'.active
           /\ cache'[n].active >= views'.snap /\ cache'[n].active >= views'.delta
           /\ Showing' => cache'[n].active >= ref'.seen
<1>1. /\ cache[n].active \in Nat /\ man.active \in Nat /\ ref.seen \in Nat /\ views.snap \in Nat /\ views.delta \in Nat
  <2>1. n \in Nodes /\ ref \in Refreshes
    BY DEF TypeOK
  <2>2. ref.seen \in 0..MaxSid /\ cache[n].active \in 0..MaxSid
    BY <2>1 DEF Refreshes, TypeOK
  <2> QED
    BY <2>2, DistributionConstants DEF TypeOK
<1>2. /\ cache[n].active >= man.active /\ cache[n].active >= views.snap /\ cache[n].active >= views.delta
      /\ Showing => cache[n].active >= ref.seen
  BY DEF SteadyInv
<1>3. cache'[n].active >= man'.active
  BY <1>1, <1>2, ManifestStep
<1>4. cache'[n].active >= views'.snap /\ cache'[n].active >= views'.delta
  BY <1>1, <1>2, ViewsAfter DEF Showing
<1>5. Showing' => cache'[n].active >= ref'.seen
  BY <1>1, <1>2, ShowingStep
<1> QED
  BY <1>3, <1>4, <1>5

\* Steady nodes stay ahead: a record moves the manifest to where they are, a load moves one of them further.
LEMMA SteadyStep == TypeOK /\ IdsInv /\ SteadyInv /\ Next => SteadyInv'
<1> SUFFICES ASSUME TypeOK, IdsInv, SteadyInv, Next PROVE SteadyInv'
  OBVIOUS
<1>0. /\ man \in [gen : 0..MaxGen, active : 0..MaxSid, chain : Seq(Sids)] /\ lastSid \in 0..MaxSid
      /\ views \in [snap : 0..MaxSid, delta : 0..MaxSid]
      /\ cache \in [Nodes -> Caches] /\ steady \subseteq Nodes /\ ref \in Refreshes
  BY DEF TypeOK, Caches
<1> USE DistributionConstants
<1>1. CASE RefreshRecord
  <2>1. ref'.pc = "views" /\ ref.pc = "load"
    BY <1>1, RecordEffect DEF RefreshRecord
  <2>2. /\ cache' = cache /\ steady' = steady \cap ref.done /\ man'.active \in {man.active, ref.sid} /\ views' = views
    BY <1>0, <1>1 DEF RefreshRecord
  <2>3. ref.sid \in Sids
    BY <2>1, NewChainType
  <2> QED
    BY <1>0, <2>1, <2>2, <2>3 DEF SteadyInv, Sids, Showing
<1>2. ASSUME NEW n \in Nodes, RefreshLoad(n) PROVE SteadyInv'
  <2>1. /\ man' = man /\ views' = views /\ ref.pc = "load"
        /\ cache' = [cache EXCEPT ![n] = AfterLoad(@, ref.sid)] /\ steady' = steady \cup {n}
    BY <1>2 DEF RefreshLoad, catalogVars
  <2>2. ref'.pc = "load" /\ ref'.sid = ref.sid /\ ref'.done = ref.done \cup {n}
    BY <1>2, LoadEffect
  <2>3. ref.sid \in Sids /\ ref.sid >= man.active /\ ref.sid >= views.snap /\ ref.sid >= views.delta
    BY <1>0, <2>1, NewChainType DEF IdsInv, Sids
  <2>4. cache'[n].active = ref.sid /\ ref.sid \in cache'[n].files /\ \A m \in Nodes \ {n} : cache'[m] = cache[m]
    BY <1>0, <2>1, <2>3, LoadedCache
  <2>5. ~Showing'
    BY <2>2 DEF Showing
  <2> QED
    BY <1>0, <2>1, <2>2, <2>3, <2>4, <2>5 DEF SteadyInv
<1>3. ASSUME NEW n \in Nodes, RefreshLoadCut(n) PROVE SteadyInv'
  <2>1. man' = man /\ views' = views /\ ref.pc = "load" /\ steady' = steady /\ ref'.pc = "idle"
    BY <1>3 DEF RefreshLoadCut, catalogVars, NoRefresh
  <2>2. ref.sid \in Sids /\ ref.sid >= man.active /\ ref.sid >= views.snap /\ ref.sid >= views.delta
    BY <1>0, <2>1, NewChainType DEF IdsInv, Sids
  <2>3. PICK d \in CutShort(cache[n], ref.sid) : cache' = [cache EXCEPT ![n] = d]
    BY <1>3 DEF RefreshLoadCut
  <2>4. (d.active = ref.sid /\ ref.sid \in d.files) \/ (d.active = cache[n].active /\ cache[n].files \subseteq d.files)
    BY <1>0, <2>2, <2>3, LoadedCache
  <2>5. cache'[n] = d /\ \A m \in Nodes \ {n} : cache'[m] = cache[m]
    BY <1>0, <2>3
  <2>6. ~Showing'
    BY <2>1 DEF Showing
  <2> QED
    BY <1>0, <2>1, <2>2, <2>4, <2>5, <2>6 DEF SteadyInv
<1>4. ASSUME ~RefreshRecord, ~\E n \in Nodes : RefreshLoad(n) \/ RefreshLoadCut(n) PROVE SteadyInv'
  <2>1. steady' \subseteq steady /\ \A n \in steady' : cache'[n] = cache[n]
    <3>1. CASE UNCHANGED <<subclusters, cache, up, faults, steady>>
      BY <3>1
    <3>2. ASSUME NEW n \in Nodes, RepairLoad(n) \/ CacheLost(n)
          PROVE  steady' = steady \ {n} /\ \A m \in Nodes \ {n} : cache'[m] = cache[m]
      BY <1>0, <3>2 DEF RepairLoad, CacheLost, Disturbed
    <3>3. ASSUME NEW n \in Nodes, NodeDown(n) \/ NodeUp(n) PROVE steady' \subseteq steady /\ cache' = cache
      BY <3>3 DEF NodeDown, NodeUp, Disturbed
    <3> QED
      BY <1>0, <1>4, <3>1, <3>2, <3>3, NodesAfter
  <2>2. ASSUME NEW n \in steady'
        PROVE  /\ cache'[n].active \in cache'[n].files /\ cache'[n].active >= man'.active
               /\ cache'[n].active >= views'.snap /\ cache'[n].active >= views'.delta
               /\ Showing' => cache'[n].active >= ref'.seen
    <3>1. n \in steady /\ n \in Nodes /\ cache'[n] = cache[n]
      BY <1>0, <2>1
    <3>2. cache[n].active \in Nat /\ cache[n].active \in cache[n].files
      BY <1>0, <3>1 DEF Caches, SteadyInv
    <3> QED
      BY <1>4, <3>1, <3>2, SteadyAhead
  <2>3. ref'.pc = "load" => \A n \in ref'.done \cap steady' : cache'[n].active = ref'.sid
    BY <1>4, <2>1, DoneStep DEF SteadyInv
  <2> QED
    BY <2>2, <2>3, DoneStep DEF SteadyInv
<1> QED
  BY <1>1, <1>2, <1>3, <1>4

\* A node that took part in the last recorded refresh and had no fault or repair since serves what the views
\* ask for, at every moment and however the refreshes after it end; also what a view asks for that was made from a row
\* that has gone since.
THEOREM SteadyServe == Spec => []SteadyNodesServe
<1>1. Init => TypeOK /\ ChainThere /\ IdsInv /\ SteadyInv
  BY InitTypes DEF Init, IdsInv, SteadyInv, NoRefresh, Showing
<1>2. TypeOK /\ ChainThere /\ IdsInv /\ SteadyInv /\ [Next]_vars => (TypeOK /\ ChainThere /\ IdsInv /\ SteadyInv)'
  <2>1. UNCHANGED vars /\ IdsInv /\ SteadyInv => IdsInv' /\ SteadyInv'
    BY DEF vars, IdsInv, SteadyInv, Showing
  <2> QED
    BY <2>1, TypeStep, IdsStep, SteadyStep
<1>3. SteadyInv => SteadyNodesServe
  BY DEF SteadyInv, SteadyNodesServe
<1> QED
  BY <1>1, <1>2, <1>3, PTL DEF Spec

------------------------------------------------------------------------------
(* The base of a patch.                                                    *)

\* An undisturbed refresh that continues has seen its base on every node it reaches; where it has not loaded
\* yet, the base is still there, and the piece it loads is stored.
BaseSeen(r, c) == \A n \in r.reach : r.prev \in c[n].files
BaseKept(r, c) == r.base = 0 \/ \A n \in r.reach \ r.done : r.base \in c[n].files
PatchInv ==
    ref.alone =>
        /\ ref.pc = "decided" /\ ~ref.full => BaseSeen(ref, cache)
        /\ ref.pc = "load" => [sid |-> ref.sid, base |-> ref.base] \in pieces /\ BaseKept(ref, cache)

\* A step that leaves an undisturbed refresh as it is, while it decides or loads, leaves the caches and the
\* pieces too.
LEMMA AloneStep ==
    TypeOK /\ Next /\ ref' = ref /\ ref.alone =>
        (ref.pc \in {"decided", "load"} => cache' = cache /\ pieces' = pieces)
<1> SUFFICES ASSUME TypeOK, Next, ref' = ref, ref.alone, ref.pc \in {"decided", "load"}
             PROVE  cache' = cache /\ pieces' = pieces
  OBVIOUS
<1>1. ~Unregister /\ ~\E n \in Nodes : RepairLoad(n) \/ NodeDown(n) \/ CacheLost(n)
  <2>1. ~[ref EXCEPT !.alone = FALSE].alone
    BY RefreshDisturbed DEF TypeOK
  <2> QED
    BY <2>1 DEF Unregister, RepairLoad, NodeDown, CacheLost, Disturbed
<1>2. ~\E n \in Nodes : RefreshLoadCut(n)
  BY DEF RefreshLoadCut, NoRefresh
<1>3. ~\E b \in BOOLEAN : StorePieces(b)
  <2> SUFFICES ASSUME NEW b \in BOOLEAN, StorePieces(b) PROVE FALSE
    OBVIOUS
  <2>1. ref'.pc = "load" /\ ref.pc = "decided"
    BY StoreEffect DEF StorePieces
  <2> QED
    BY <2>1
<1>4. ~PrunePieces
  BY DEF PrunePieces
<1>5. ASSUME NEW n \in Nodes, RefreshLoad(n) PROVE FALSE
  <2>1. n \in ref'.done /\ n \notin ref.done
    BY <1>5, LoadEffect DEF RefreshLoad
  <2> QED
    BY <2>1
<1>6. cache' = cache
  BY <1>1, <1>2, <1>5, NodesAfter DEF RefreshRecord, NodeUp
<1>7. pieces' = pieces
  BY <1>1, <1>3, <1>4, CatalogAfter DEF Register, KeepSnapshot, RefreshRecord, MakeSnapView, MakeDeltaView
<1> QED
  BY <1>6, <1>7

LEMMA PatchStep == TypeOK /\ PatchInv /\ Next => PatchInv'
<1> SUFFICES ASSUME TypeOK, PatchInv, Next, ref'.alone, ref'.pc \in {"decided", "load"}
             PROVE  /\ ref'.pc = "decided" /\ ~ref'.full => BaseSeen(ref', cache')
                    /\ ref'.pc = "load" => [sid |-> ref'.sid, base |-> ref'.base] \in pieces' /\ BaseKept(ref', cache')
  BY DEF PatchInv
<1>0. ref \in Refreshes /\ up \subseteq Nodes /\ cache \in [Nodes -> Caches]
  BY DEF TypeOK, Caches
<1>1. CASE ref' = ref
  BY <1>1, AloneStep DEF PatchInv
<1>2. ASSUME NEW b \in BOOLEAN, RefreshDecide(b)
      PROVE  ref'.pc = "decided" /\ (~ref'.full => BaseSeen(ref', cache'))
  <2>1. /\ ref'.pc = "decided" /\ ref'.sub = ref.sub /\ ref'.prev = ref.prev /\ ref'.reach = ref.sub \cap up
        /\ ~ref'.full => ~Lacked(ref.sub, ref.prev)
    BY <1>2, DecideEffect
  <2>2. cache' = cache
    BY <1>2 DEF RefreshDecide, nodeVars
  <2> QED
    BY <2>1, <2>2 DEF BaseSeen, Lacked, Loaded
<1>3. ASSUME NEW b \in BOOLEAN, StorePieces(b)
      PROVE  ref'.pc = "load" /\ [sid |-> ref'.sid, base |-> ref'.base] \in pieces' /\ BaseKept(ref', cache')
  <2>1. /\ ref'.pc = "load" /\ ref'.sid = lastSid + 1 /\ ref'.base = (IF b THEN 0 ELSE ref.prev)
        /\ ref'.reach = ref.sub \cap up /\ ref.alone /\ ref.sub \cap up = ref.reach
    BY <1>3, StoreEffect
  <2>2. cache' = cache /\ pieces' = pieces \cup {[sid |-> lastSid + 1, base |-> IF b THEN 0 ELSE ref.prev]}
    BY <1>3 DEF StorePieces, nodeVars
  <2>3. ~b => BaseSeen(ref, cache)
    BY <1>3, <2>1 DEF StorePieces, PatchInv
  <2> QED
    BY <2>1, <2>2, <2>3 DEF BaseSeen, BaseKept
<1>4. ASSUME NEW n \in Nodes, RefreshLoad(n)
      PROVE  ref'.pc = "load" /\ [sid |-> ref'.sid, base |-> ref'.base] \in pieces' /\ BaseKept(ref', cache')
  <2>1. /\ ref'.pc = "load" /\ ref'.sid = ref.sid /\ ref'.base = ref.base /\ ref'.reach = ref.reach
        /\ ref'.done = ref.done \cup {n} /\ ref.alone /\ ref.pc = "load"
    BY <1>4, LoadEffect DEF RefreshLoad
  <2>2. pieces' = pieces /\ \A m \in Nodes \ {n} : cache'[m] = cache[m]
    BY <1>0, <1>4 DEF RefreshLoad, catalogVars
  <2>3. ref.reach \subseteq Nodes
    BY <1>0 DEF Refreshes
  <2> QED
    BY <2>1, <2>2, <2>3 DEF PatchInv, BaseKept
<1>5. ref' = NoRefresh => ref'.pc = "idle"
  BY DEF NoRefresh
<1>6. ASSUME NEW S \in subclusters, RefreshBegin(S) PROVE ref'.pc = "begun"
  BY <1>6, BeginEffect, SubclusterNodes
<1>7. KeepSnapshot \/ ReadRow \/ MakeSnapView \/ PrunePieces => ref'.pc \in {"views", "snap", "delta", "ended"}
  BY PhaseEffect, ReadEffect
<1>8. MakeDeltaView => ref'.pc \in {"prune", "ended"}
  BY PhaseEffect
<1>9. RefreshRecord => ref'.pc = "views"
  BY RecordEffect
<1> QED
  BY <1>1, <1>2, <1>3, <1>4, <1>5, <1>6, <1>7, <1>8, <1>9, RefreshAfter

\* When a refresh stored a patch, every node that showed its base before still has it when the patch comes.
THEOREM PatchesFindTheirBase == Spec => []PatchFindsBase
<1>1. Init => TypeOK /\ ChainThere /\ PatchInv
  BY InitTypes DEF Init, PatchInv, NoRefresh
<1>2. TypeOK /\ ChainThere /\ PatchInv /\ [Next]_vars => (TypeOK /\ ChainThere /\ PatchInv)'
  <2>1. UNCHANGED vars /\ PatchInv => PatchInv'
    BY DEF vars, PatchInv, BaseSeen, BaseKept
  <2> QED
    BY <2>1, TypeStep, PatchStep
<1>3. PatchInv => PatchFindsBase
  BY DEF PatchInv, BaseKept, PatchFindsBase, CanLoad, Stored
<1> QED
  BY <1>1, <1>2, <1>3, PTL DEF Spec

------------------------------------------------------------------------------
(* The chain, for one registration of the name.                            *)

Continues(r, m) == r.prev = m.active /\ r.chain = m.chain
NextPiece(r, P) == [sid |-> r.sid, base |-> r.base] \in P /\ r.base \in {0, r.prev}
Recorded(r) == r.pc = "prune" \/ (r.pc \in {"views", "snap", "delta"} /\ r.withSnap)
FollowsRow(r, m, P) ==
    /\ r.pc \in {"begun", "decided", "load"} => Continues(r, m)
    /\ r.pc = "load" => NextPiece(r, P)
    /\ Recorded(r) => r.chain = m.chain

\* A refresh that runs began on the row that is there, or that row is gone for good; until it records, it holds
\* the manifest's chain and its piece continues it, and afterwards the chain it prunes to is the manifest's.
ChainInv ==
    /\ man.gen <= lastGen
    /\ man.gen = 0 => man.active = 0
    /\ man.gen = 0 /\ lastGen < MaxGen => ref.pc = "idle"
    /\ man.gen # 0 => FollowsRow(ref, man, pieces)
    /\ ChainReplays

\* The piece of a member of a chain.
MemberPiece(chain, i) == [sid |-> chain[i], base |-> IF i = 1 THEN 0 ELSE chain[i - 1]]

\* A chain that replays and the piece that continues it make a chain that replays.
LEMMA ChainGrows ==
    ASSUME NEW chain \in Seq(Sids), chain # <<>>, NEW s \in Sids,
           NEW P, \A i \in DOMAIN chain : MemberPiece(chain, i) \in P,
           [sid |-> s, base |-> chain[Len(chain)]] \in P
    PROVE  LET longer == Append(chain, s) IN
           longer # <<>> /\ longer[Len(longer)] = s /\ \A i \in DOMAIN longer : MemberPiece(longer, i) \in P
<1> DEFINE longer == Append(chain, s)
<1>1. /\ longer \in Seq(Sids) /\ Len(longer) = Len(chain) + 1 /\ longer[Len(longer)] = s
      /\ \A i \in 1..Len(chain) : longer[i] = chain[i]
      /\ Len(chain) \in Nat \ {0} /\ DOMAIN longer = 1..Len(longer) /\ DOMAIN chain = 1..Len(chain)
  OBVIOUS
<1>2. ASSUME NEW i \in DOMAIN longer PROVE MemberPiece(longer, i) \in P
  <2>1. CASE i \in DOMAIN chain
    <3>1. longer[i] = chain[i] /\ (i # 1 => longer[i - 1] = chain[i - 1])
      BY <1>1, <2>1
    <3> QED
      BY <2>1, <3>1 DEF MemberPiece
  <2>2. CASE i = Len(longer)
    <3> HIDE DEF longer
    <3>1. i # 1 /\ longer[i] = s /\ i - 1 = Len(chain) /\ longer[Len(chain)] = chain[Len(chain)]
      BY <1>1, <2>2
    <3> QED
      BY <3>1 DEF MemberPiece
  <2> QED
    BY <1>1, <2>1, <2>2
<1>3. longer # <<>>
  BY <1>1
<1> QED
  BY <1>1, <1>2, <1>3

\* Recording makes the chain that replays longer, or starts one.
LEMMA RecordReplays == TypeOK /\ ChainThere /\ ChainInv /\ RefreshRecord => ChainReplays'
<1> SUFFICES ASSUME TypeOK, ChainThere, ChainInv, RefreshRecord PROVE ChainReplays'
  OBVIOUS
<1>1. CASE man.gen = 0
  BY <1>1 DEF RefreshRecord, ChainInv, ChainReplays
<1>2. CASE man.gen # 0
  <2>1. man'.active = ref.sid /\ man'.chain = NewChain /\ pieces' = pieces /\ ref.pc = "load"
    BY <1>2 DEF RefreshRecord, TypeOK
  <2>2. ref.sid \in Sids /\ man.chain \in Seq(Sids) /\ Continues(ref, man) /\ NextPiece(ref, pieces)
    BY <1>2, <2>1, NewChainType DEF TypeOK, ChainInv, FollowsRow
  <2>3. CASE ref.base = 0
    <3>1. NewChain = <<ref.sid>> /\ DOMAIN NewChain = {1} /\ NewChain[1] = ref.sid /\ Len(NewChain) = 1 /\ NewChain # <<>>
      BY <2>3 DEF NewChain
    <3> QED
      BY <2>1, <2>2, <2>3, <3>1 DEF ChainReplays, NextPiece
  <2>4. CASE ref.base # 0
    <3>1. ref.base = man.active /\ man.active # 0 /\ NewChain = Append(man.chain, ref.sid)
      BY <2>2, <2>4 DEF NewChain, NextPiece, Continues
    <3>2. /\ man.chain # <<>> /\ man.chain[Len(man.chain)] = man.active
          /\ \A i \in DOMAIN man.chain : MemberPiece(man.chain, i) \in pieces
      BY <3>1 DEF ChainInv, ChainReplays, MemberPiece
    <3>3. [sid |-> ref.sid, base |-> man.chain[Len(man.chain)]] \in pieces
      BY <2>2, <3>1, <3>2 DEF NextPiece
    <3>4. /\ NewChain # <<>> /\ NewChain[Len(NewChain)] = ref.sid
          /\ \A i \in DOMAIN NewChain : MemberPiece(NewChain, i) \in pieces
      BY <2>2, <3>1, <3>2, <3>3, ChainGrows
    <3> QED
      BY <2>1, <3>4 DEF ChainReplays, MemberPiece
  <2> QED
    BY <2>3, <2>4
<1> QED
  BY <1>1, <1>2

\* Pruning leaves every piece of the manifest's chain.
LEMMA PruneReplays == TypeOK /\ ChainInv /\ PrunePieces => ChainReplays'
<1> SUFFICES ASSUME TypeOK, ChainInv, PrunePieces, man.active # 0 PROVE ChainReplays'
  BY DEF PrunePieces, ChainReplays
<1>0. man.gen # 0 /\ ref.pc = "prune" /\ Recorded(ref)
  BY DEF PrunePieces, ChainInv, Recorded
<1>1. man' = man /\ ref.chain = man.chain /\ pieces' = {p \in pieces : InChain(p, ref.chain)}
  BY <1>0 DEF PrunePieces, ChainInv, FollowsRow
<1>2. ASSUME NEW i \in DOMAIN man.chain, MemberPiece(man.chain, i) \in pieces PROVE MemberPiece(man.chain, i) \in pieces'
  <2>1. MemberPiece(man.chain, i).sid = man.chain[i]
    BY DEF MemberPiece
  <2> QED
    BY <1>1, <1>2, <2>1 DEF InChain
<1> QED
  BY <1>1, <1>2 DEF ChainInv, ChainReplays, MemberPiece

\* The chain replays after every step: only a record and the pruning touch it.
LEMMA ReplaysStep == TypeOK /\ ChainThere /\ ChainInv /\ Next => ChainReplays'
<1> SUFFICES ASSUME TypeOK, ChainThere, ChainInv, Next PROVE ChainReplays'
  OBVIOUS
<1>1. Register \/ Unregister => man'.active = 0
  BY DEF Register, Unregister
<1>2. man'.active = 0 => ChainReplays'
  BY DEF ChainReplays
<1>3. KeepSnapshot \/ MakeSnapView \/ MakeDeltaView \/ (\E b \in BOOLEAN : StorePieces(b))
      => man' = man /\ pieces \subseteq pieces'
  BY DEF KeepSnapshot, MakeSnapView, MakeDeltaView, StorePieces
<1>4. man' = man /\ pieces \subseteq pieces' => ChainReplays'
  BY DEF ChainInv, ChainReplays
<1> QED
  BY <1>1, <1>2, <1>3, <1>4, RecordReplays, PruneReplays, CatalogAfter

\* A row that is gone is gone for good once a refresh ran: there is one registration.
LEMMA RowGone ==
    ASSUME MaxGen <= 1, TypeOK, ChainInv, Next
    PROVE  /\ man'.gen <= lastGen'
           /\ man'.gen = 0 => man'.active = 0
           /\ man'.gen = 0 /\ lastGen' < MaxGen => ref'.pc = "idle"
<1>0. /\ man \in [gen : 0..MaxGen, active : 0..MaxSid, chain : Seq(Sids)] /\ lastGen \in 0..MaxGen
      /\ MaxGen \in Nat /\ MaxSid \in Nat
  BY DistributionConstants DEF TypeOK
<1>1. CASE Register
  BY <1>0, <1>1 DEF Register
<1>2. CASE Unregister
  BY <1>0, <1>2 DEF Unregister, ChainInv
<1>3. CASE ~Register /\ ~Unregister
  <2>1. man'.gen = man.gen /\ lastGen' = lastGen /\ (man.gen = 0 => man' = man)
    <3>1. KeepSnapshot \/ MakeSnapView \/ MakeDeltaView \/ PrunePieces \/ (\E b \in BOOLEAN : StorePieces(b))
          => man' = man /\ lastGen' = lastGen
      BY DEF KeepSnapshot, MakeSnapView, MakeDeltaView, PrunePieces, StorePieces
    <3>2. RefreshRecord => man'.gen = man.gen /\ lastGen' = lastGen /\ (man.gen = 0 => man' = man)
      BY <1>0 DEF RefreshRecord
    <3> QED
      BY <1>3, <3>1, <3>2, CatalogAfter
  <2>2. ASSUME man.gen = 0, ref.pc = "idle" PROVE ref'.pc = "idle"
    <3>1. ref' = ref \/ SameRefresh(ref, ref') \/ ref' = NoRefresh
      BY <2>2, RefreshAfter DEF RefreshBegin, RefreshDecide, StorePieces, KeepSnapshot, RefreshRecord, ReadRow,
                                MakeSnapView, MakeDeltaView, PrunePieces, RefreshLoad
    <3> QED
      BY <2>2, <3>1 DEF SameRefresh, NoRefresh
  <2> QED
    BY <2>1, <2>2 DEF ChainInv
<1> QED
  BY <1>1, <1>2, <1>3

LEMMA FollowsStep ==
    ASSUME MaxGen <= 1, TypeOK, ChainInv, Next, man'.gen # 0
    PROVE  FollowsRow(ref', man', pieces')
<1>0. man \in [gen : 0..MaxGen, active : 0..MaxSid, chain : Seq(Sids)] /\ ref \in Refreshes
  BY DEF TypeOK
<1>1. CASE Register
  BY <1>1 DEF Register, ChainInv, FollowsRow, Recorded
<1>2. ~Unregister
  BY DEF Unregister
<1>3. ASSUME NEW b \in BOOLEAN, StorePieces(b) PROVE FollowsRow(ref', man', pieces')
  <2>1. /\ ref'.pc = "load" /\ ref'.sid = lastSid + 1 /\ ref'.prev = ref.prev /\ ref'.chain = ref.chain
        /\ ref'.base = (IF b THEN 0 ELSE ref.prev)
    BY <1>3, StoreEffect
  <2>2. man' = man /\ [sid |-> lastSid + 1, base |-> IF b THEN 0 ELSE ref.prev] \in pieces' /\ ref.pc = "decided"
    BY <1>3 DEF StorePieces
  <2>3. Continues(ref, man)
    BY <2>2 DEF ChainInv, FollowsRow
  <2> QED
    BY <2>1, <2>2, <2>3 DEF FollowsRow, Continues, NextPiece, Recorded
<1>4. CASE KeepSnapshot
  <2>1. ref'.pc = "views" /\ ref'.withSnap = ref.withSnap /\ ref'.chain = ref.chain /\ man' = man /\ ref.pc = "decided"
    BY <1>4, PhaseEffect DEF KeepSnapshot
  <2>2. ref.chain = man.chain
    BY <2>1 DEF ChainInv, FollowsRow, Continues
  <2> QED
    BY <2>1, <2>2 DEF FollowsRow, Recorded
<1>5. CASE RefreshRecord
  <2>1. ref'.pc = "views" /\ ref'.chain = NewChain
    BY <1>5, RecordEffect
  <2>2. man'.chain = NewChain
    BY <1>0, <1>5 DEF RefreshRecord
  <2> QED
    BY <2>1, <2>2 DEF FollowsRow, Recorded
<1>6. CASE MakeSnapView
  <2>1. /\ ref'.pc = "delta" /\ ref'.chain = ref.chain /\ ref'.withSnap = ref.withSnap /\ man' = man
        /\ ref.pc = "snap"
    BY <1>6, PhaseEffect DEF MakeSnapView
  <2> QED
    BY <2>1 DEF ChainInv, FollowsRow, Recorded
<1>7. CASE MakeDeltaView
  <2>1. /\ ref'.pc \in {"prune", "ended"} /\ (ref'.pc = "prune" => ref.withSnap)
        /\ ref'.chain = ref.chain /\ man' = man /\ ref.pc = "delta"
    <3>1. PICK q \in {"prune", "ended"} : ref' = [ref EXCEPT !.pc = q] /\ (q = "prune" => ref.withSnap)
      BY <1>7, PhaseEffect
    <3>2. ref'.pc = q /\ ref'.chain = ref.chain
      BY <3>1, PhaseEffect
    <3> QED
      BY <1>7, <3>1, <3>2 DEF MakeDeltaView
  <2> QED
    BY <2>1 DEF ChainInv, FollowsRow, Recorded
<1>8. CASE PrunePieces
  <2>1. ref'.pc = "ended"
    BY <1>8, PhaseEffect
  <2> QED
    BY <2>1 DEF FollowsRow, Recorded
<1>9. ASSUME UNCHANGED <<man, pieces, lastSid, lastGen, views>>,
             ~KeepSnapshot, ~RefreshRecord, ~MakeSnapView, ~MakeDeltaView, ~PrunePieces, ~\E b \in BOOLEAN : StorePieces(b)
      PROVE  FollowsRow(ref', man', pieces')
  <2>1. FollowsRow(ref, man, pieces)
    BY <1>9 DEF ChainInv
  <2>2. CASE ref' = ref \/ SameRefresh(ref, ref')
    BY <1>9, <2>1, <2>2 DEF FollowsRow, SameRefresh, Continues, NextPiece, Recorded
  <2>3. CASE ref' = NoRefresh
    BY <2>3 DEF FollowsRow, NoRefresh, Recorded
  <2>4. ASSUME NEW S \in subclusters, RefreshBegin(S) PROVE FollowsRow(ref', man', pieces')
    <3>1. ref'.pc = "begun" /\ ref'.prev = man.active /\ ref'.chain = man.chain
      BY <2>4, BeginEffect, SubclusterNodes
    <3> QED
      BY <1>9, <3>1 DEF FollowsRow, Continues, Recorded
  <2>5. ASSUME NEW b \in BOOLEAN, RefreshDecide(b) PROVE FollowsRow(ref', man', pieces')
    <3>1. ref'.pc = "decided" /\ ref'.prev = ref.prev /\ ref'.chain = ref.chain /\ ref.pc = "begun"
      BY <2>5, DecideEffect DEF RefreshDecide
    <3> QED
      BY <1>9, <2>1, <3>1 DEF FollowsRow, Continues, Recorded
  <2>6. ASSUME NEW n \in Nodes, RefreshLoad(n) PROVE FollowsRow(ref', man', pieces')
    <3>1. /\ ref'.pc = "load" /\ ref'.sid = ref.sid /\ ref'.prev = ref.prev /\ ref'.chain = ref.chain
          /\ ref'.base = ref.base /\ ref.pc = "load"
      BY <2>6, LoadEffect DEF RefreshLoad
    <3> QED
      BY <1>9, <2>1, <3>1 DEF FollowsRow, Continues, NextPiece, Recorded
  <2>7. CASE ReadRow
    <3>1. ref'.pc \in {"snap", "delta"} /\ ref'.chain = ref.chain /\ ref'.withSnap = ref.withSnap /\ ref.pc = "views"
      BY <2>7, ReadEffect DEF ReadRow
    <3> QED
      BY <1>9, <2>1, <3>1 DEF FollowsRow, Recorded
  <2> QED
    BY <1>9, <2>2, <2>3, <2>4, <2>5, <2>6, <2>7, RefreshAfter
<1> QED
  BY <1>1, <1>2, <1>3, <1>4, <1>5, <1>6, <1>7, <1>8, <1>9, CatalogAfter

LEMMA ChainStep == MaxGen <= 1 /\ TypeOK /\ ChainThere /\ ChainInv /\ Next => ChainInv'
<1> SUFFICES ASSUME MaxGen <= 1, TypeOK, ChainThere, ChainInv, Next PROVE ChainInv'
  OBVIOUS
<1> QED
  BY ReplaysStep, RowGone, FollowsStep DEF ChainInv

LEMMA InitChain == Init => ChainInv
BY DistributionConstants DEF Init, ChainInv, FollowsRow, ChainReplays, NoRefresh

\* With one registration of the name, the table always holds the whole active chain: it ends at the active
\* snapshot, its first member is a whole copy, every other one a patch over the member before, whatever fails.
THEOREM ChainsReplay ==
    ASSUME MaxGen <= 1
    PROVE  Spec => []ChainReplays
<1> DEFINE Inv == TypeOK /\ ChainThere /\ ChainInv
<1>1. Init => Inv
  BY InitTypes, InitChain
<1>2. Inv /\ [Next]_vars => Inv'
  <2>1. UNCHANGED vars /\ ChainInv => ChainInv'
    BY DEF vars, ChainInv, FollowsRow, ChainReplays, Continues, NextPiece, Recorded
  <2> QED
    BY <2>1, TypeStep, ChainStep
<1>3. Inv => ChainReplays
  BY DEF ChainInv
<1> HIDE DEF Inv
<1> QED
  BY <1>1, <1>2, <1>3, PTL DEF Spec

------------------------------------------------------------------------------
(* The views, for one registration of the name.                            *)

\* While the row is there, the views are not ahead of it, what a refresh read for its views is still its snapshot, and
\* the _delta view has that one once it is made.
ViewsInv ==
    man.gen # 0 =>
        /\ views.delta <= man.active /\ views.snap <= man.active
        /\ Showing => ref.seen = man.active
        /\ ref.pc \in {"prune", "ended"} => views.delta = man.active

\* A refresh that has made its views made the _delta view from what it read, or had made it before.
LEMMA MadeStep ==
    ASSUME TypeOK, Next, ref'.pc \in {"prune", "ended"}
    PROVE  MakeDeltaView \/ ref.pc \in {"prune", "ended"}
<1>1. CASE ref' = ref \/ SameRefresh(ref, ref')
  BY <1>1 DEF SameRefresh
<1>2. ref' # NoRefresh
  BY DEF NoRefresh
<1>3. ASSUME NEW S \in subclusters, RefreshBegin(S) PROVE FALSE
  BY <1>3, BeginEffect, SubclusterNodes
<1>4. ASSUME NEW b \in BOOLEAN, RefreshDecide(b) PROVE FALSE
  BY <1>4, DecideEffect
<1>5. ASSUME NEW b \in BOOLEAN, StorePieces(b) PROVE FALSE
  BY <1>5, StoreEffect
<1>6. ~KeepSnapshot /\ ~RefreshRecord /\ ~ReadRow /\ ~MakeSnapView
  BY PhaseEffect, RecordEffect, ReadEffect
<1>7. ASSUME NEW n \in Nodes, RefreshLoad(n) PROVE FALSE
  BY <1>7, LoadEffect
<1>8. PrunePieces => ref.pc = "prune"
  BY DEF PrunePieces
<1> QED
  BY <1>1, <1>2, <1>3, <1>4, <1>5, <1>6, <1>7, <1>8, RefreshAfter

\* The views follow: between the reading of the row and the views the row keeps its snapshot, or goes.
LEMMA ViewsStep == TypeOK /\ ChainInv /\ IdsInv /\ ViewsInv /\ Next => ViewsInv'
<1> SUFFICES ASSUME TypeOK, ChainInv, IdsInv, ViewsInv, Next, man'.gen # 0 PROVE ViewsInv'
  BY DEF ViewsInv
<1>0. /\ man \in [gen : 0..MaxGen, active : 0..MaxSid, chain : Seq(Sids)] /\ ref \in Refreshes
      /\ views \in [snap : 0..MaxSid, delta : 0..MaxSid]
  BY DEF TypeOK
<1>1. ~Unregister
  BY DEF Unregister
<1>2. CASE Register
  <2>1. ref' = ref /\ ref.pc = "idle" /\ man'.active = 0 /\ views' = [snap |-> 0, delta |-> 0]
    BY <1>2 DEF Register, ChainInv
  <2> QED
    BY <2>1 DEF ViewsInv, Showing
<1>3. CASE RefreshRecord
  <2>1. ref'.pc = "views" /\ ref.pc = "load" /\ views' = views
    BY <1>3, RecordEffect DEF RefreshRecord
  <2>2. man.gen # 0 /\ man'.active = ref.sid
    BY <1>0, <1>3 DEF RefreshRecord
  <2>3. /\ ref.sid \in 0..MaxSid /\ man.active \in 0..MaxSid /\ views.snap \in 0..MaxSid /\ views.delta \in 0..MaxSid
        /\ man.active < ref.sid
    BY <1>0, <2>1 DEF Refreshes, IdsInv
  <2> QED
    BY <2>1, <2>2, <2>3, DistributionConstants DEF ViewsInv, Showing
<1>4. ASSUME ~Register, ~RefreshRecord PROVE ViewsInv'
  <2>1. man' = man /\ man.gen # 0
    <3>1. KeepSnapshot \/ MakeSnapView \/ MakeDeltaView \/ PrunePieces \/ (\E b \in BOOLEAN : StorePieces(b)) => man' = man
      BY DEF KeepSnapshot, MakeSnapView, MakeDeltaView, PrunePieces, StorePieces
    <3>2. man' = man
      BY <1>1, <1>4, <3>1, CatalogAfter
    <3> QED
      BY <3>2
  <2>2. Showing' => ref'.seen = man'.active
    BY <2>1, ShowingStep DEF ViewsInv
  <2>3. /\ Showing => ref.seen = man.active
        /\ views.delta <= man.active /\ views.snap <= man.active /\ man.active <= man.active
        /\ ref.pc \in {"prune", "ended"} => views.delta = man.active
    BY <1>0, <2>1, DistributionConstants DEF ViewsInv
  <2>4. views'.delta <= man'.active /\ views'.snap <= man'.active
    BY <1>1, <1>4, <2>1, <2>3, ViewsAfter DEF Showing
  <2>5. ref'.pc \in {"prune", "ended"} => views'.delta = man'.active
    <3>1. MakeDeltaView => views'.delta = man'.active
      BY <1>0, <2>1, <2>3 DEF MakeDeltaView, Showing
    <3>2. ref.pc \in {"prune", "ended"} => views' = views
      BY <1>1, <1>4, ViewsAfter DEF MakeSnapView, MakeDeltaView
    <3> QED
      BY <2>1, <2>3, <3>1, <3>2, MadeStep
  <2> QED
    BY <2>2, <2>4, <2>5 DEF ViewsInv
<1> QED
  BY <1>2, <1>3, <1>4

\* With one registration of the name, the views never ask for a snapshot the manifest does not have yet, and a
\* refresh that ends leaves the _delta view at the active snapshot, whatever refreshes failed: what make_views read of
\* the row is still true when it makes the views.
THEOREM ViewsFollow ==
    ASSUME MaxGen <= 1
    PROVE  Spec => []DeltaViewCurrent
<1> DEFINE Inv == TypeOK /\ ChainThere /\ ChainInv /\ IdsInv /\ ViewsInv
<1>1. Init => Inv
  BY InitTypes, InitChain DEF Init, IdsInv, ViewsInv, NoRefresh, Showing
<1>2. Inv /\ [Next]_vars => Inv'
  <2>1. UNCHANGED vars /\ ChainInv /\ IdsInv /\ ViewsInv => ChainInv' /\ IdsInv' /\ ViewsInv'
    BY DEF vars, ChainInv, FollowsRow, ChainReplays, Continues, NextPiece, Recorded, IdsInv, ViewsInv, Showing
  <2> QED
    BY <2>1, TypeStep, ChainStep, IdsStep, ViewsStep
<1>3. Inv => DeltaViewCurrent
  BY DEF ViewsInv, DeltaViewCurrent
<1> HIDE DEF Inv
<1> QED
  BY <1>1, <1>2, <1>3, PTL DEF Spec

------------------------------------------------------------------------------
(* load_all.                                                               *)

Has(c, s) == c.active = s /\ s \in c.files

\* Where an undisturbed load_all stands: a node has the member it loads once it is done, and the member before
\* until then.
AtMember(r, c) ==
    \A n \in r.reach :
        /\ n \in r.done => Has(c[n], r.chain[r.i])
        /\ n \notin r.done /\ r.i # 1 => r.chain[r.i - 1] \in c[n].files
OnTheWay(r, c) ==
    /\ r.pc = "load" => AtMember(r, c)
    /\ r.pc = "ended" => \A n \in r.reach : Has(c[n], r.sid)
RepairInv ==
    rep.alone /\ rep.pc # "idle" =>
        /\ man.active # 0 /\ rep.sid = man.active /\ rep.chain = man.chain
        /\ OnTheWay(rep, cache)

\* A step that leaves an undisturbed load_all as it is leaves the manifest's snapshot and the caches too.
LEMMA RepairLeft ==
    ASSUME TypeOK, ChainInv, Next, rep' = rep, rep.alone, man.active # 0
    PROVE  man'.active = man.active /\ man'.chain = man.chain /\ (rep.pc # "idle" => cache' = cache)
<1>1. ~[rep EXCEPT !.alone = FALSE].alone
  BY RepairDisturbed DEF TypeOK
<1>2. /\ ~Unregister /\ ~RefreshRecord
      /\ ~\E n \in Nodes : RefreshLoad(n) \/ RefreshLoadCut(n) \/ NodeDown(n) \/ CacheLost(n)
  BY <1>1 DEF Unregister, RefreshRecord, RefreshLoad, RefreshLoadCut, NodeDown, CacheLost, Disturbed
<1>3. ~Register
  BY DEF Register, ChainInv
<1>4. KeepSnapshot \/ MakeSnapView \/ MakeDeltaView \/ PrunePieces \/ (\E b \in BOOLEAN : StorePieces(b)) => man' = man
  BY DEF KeepSnapshot, MakeSnapView, MakeDeltaView, PrunePieces, StorePieces
<1>5. man' = man
  BY <1>2, <1>3, <1>4, CatalogAfter
<1>6. ASSUME NEW n \in Nodes, RepairLoad(n) PROVE FALSE
  <2>1. n \in rep'.done /\ n \notin rep.done
    BY <1>6, RepairLoadEffect DEF RepairLoad
  <2> QED
    BY <2>1
<1>7. cache' = cache
  BY <1>2, <1>6, NodesAfter DEF NodeUp
<1> QED
  BY <1>5, <1>7

LEMMA RepairStep == TypeOK /\ ChainThere /\ ChainInv /\ RepairInv /\ Next => RepairInv'
<1> SUFFICES ASSUME TypeOK, ChainThere, ChainInv, RepairInv, Next, rep'.alone, rep'.pc # "idle"
             PROVE  /\ man'.active # 0 /\ rep'.sid = man'.active /\ rep'.chain = man'.chain
                    /\ OnTheWay(rep', cache')
  BY DEF RepairInv
<1>0. rep \in Repairs /\ up \subseteq Nodes /\ cache \in [Nodes -> Caches] /\ man.chain \in Seq(Sids)
  BY DEF TypeOK, Caches
<1>1. CASE rep' = rep
  <2>1. man.active # 0 /\ rep.sid = man.active /\ rep.chain = man.chain /\ OnTheWay(rep, cache)
    BY <1>1 DEF RepairInv
  <2>2. man'.active = man.active /\ man'.chain = man.chain /\ cache' = cache
    BY <1>1, <2>1, RepairLeft
  <2> QED
    BY <1>1, <2>1, <2>2
<1>2. rep' = NoRepair => rep'.pc = "idle"
  BY DEF NoRepair
<1>3. ASSUME NEW S \in subclusters, RepairBegin(S)
      PROVE  /\ man'.active # 0 /\ rep'.sid = man'.active /\ rep'.chain = man'.chain /\ OnTheWay(rep', cache')
  <2>1. man' = man /\ man.active # 0 /\ man.chain # <<>>
    BY <1>3 DEF RepairBegin, catalogVars, ChainThere
  <2>2. rep'.pc = "load" /\ rep'.sid = man.active /\ rep'.chain = man.chain /\ rep'.i = 1 /\ rep'.done = {}
    BY <1>3, <2>1, SubclusterNodes, RepairBeginEffect
  <2> QED
    BY <2>1, <2>2 DEF OnTheWay, AtMember
<1>4. ASSUME NEW n \in Nodes, RepairLoad(n)
      PROVE  /\ man'.active # 0 /\ rep'.sid = man'.active /\ rep'.chain = man'.chain /\ OnTheWay(rep', cache')
  <2>1. /\ rep'.pc = "load" /\ rep'.sid = rep.sid /\ rep'.chain = rep.chain /\ rep'.i = rep.i
        /\ rep'.reach = rep.reach /\ rep'.done = rep.done \cup {n} /\ rep.alone /\ rep.pc = "load"
    BY <1>4, RepairLoadEffect DEF RepairLoad
  <2>2. man' = man /\ cache' = [cache EXCEPT ![n] = AfterLoad(@, rep.chain[rep.i])] /\ rep.reach \subseteq Nodes
    BY <1>0, <1>4 DEF RepairLoad, catalogVars, Repairs
  <2>3. rep.chain[rep.i] \in Sids
    BY <1>0, <2>1 DEF TypeOK, Repairs
  <2>4. Has(cache'[n], rep.chain[rep.i]) /\ \A m \in Nodes \ {n} : cache'[m] = cache[m]
    BY <1>0, <2>2, <2>3, LoadedCache DEF Has
  <2>5. man.active # 0 /\ rep.sid = man.active /\ rep.chain = man.chain /\ AtMember(rep, cache)
    BY <2>1 DEF RepairInv, OnTheWay
  <2>6. AtMember(rep', cache')
    BY <2>1, <2>2, <2>4, <2>5 DEF AtMember
  <2> QED
    BY <2>1, <2>2, <2>5, <2>6 DEF OnTheWay
<1>5. CASE RepairNext
  <2>1. rep.pc = "load" /\ rep.done = rep.reach /\ man' = man /\ cache' = cache /\ rep.alone
    BY <1>5, RepairNextEffect DEF RepairNext, catalogVars, nodeVars
  <2>2. /\ man.active # 0 /\ rep.sid = man.active /\ rep.chain = man.chain
        /\ \A n \in rep.reach : Has(cache[n], rep.chain[rep.i])
    BY <2>1 DEF RepairInv, OnTheWay, AtMember
  <2>3. rep'.sid = rep.sid /\ rep'.chain = rep.chain
    BY <1>5, RepairNextEffect
  <2>4. CASE /\ rep'.pc = "load" /\ rep'.i = rep.i + 1 /\ rep'.done = {} /\ rep'.reach = rep.reach
    <3>1. rep.i \in Nat /\ rep'.i - 1 = rep.i
      BY <1>0, <2>4 DEF Repairs
    <3> QED
      BY <2>1, <2>2, <2>3, <2>4, <3>1 DEF OnTheWay, AtMember, Has
  <2>5. CASE rep'.pc = "ended" /\ rep'.reach = rep.reach /\ rep.chain[rep.i] = rep.sid
    BY <2>1, <2>2, <2>3, <2>5 DEF OnTheWay
  <2> QED
    BY <1>5, <2>4, <2>5, RepairNextEffect
<1> QED
  BY <1>1, <1>2, <1>3, <1>4, <1>5, RepairAfter

\* With one registration of the name, a load_all that nothing disturbs never misses a base on the way, and when
\* it ends every node it reached has the active snapshot, whatever the cache directories held before.
THEOREM RepairsRestore ==
    ASSUME MaxGen <= 1
    PROVE  Spec => []RepairRestores
<1> DEFINE Inv == TypeOK /\ ChainThere /\ ChainInv /\ RepairInv
<1>1. Init => Inv
  BY InitTypes, InitChain DEF Init, RepairInv, NoRepair
<1>2. Inv /\ [Next]_vars => Inv'
  <2>1. UNCHANGED vars /\ ChainInv /\ RepairInv => ChainInv' /\ RepairInv'
    BY DEF vars, ChainInv, FollowsRow, ChainReplays, Continues, NextPiece, Recorded, RepairInv, OnTheWay, AtMember, Has
  <2> QED
    BY <2>1, TypeStep, ChainStep, RepairStep
<1>3. Inv => RepairRestores
  <2> SUFFICES ASSUME Inv, rep.alone
               PROVE  /\ rep.pc = "load" => \A n \in rep.reach \ rep.done : CanLoad(n, rep.chain[rep.i])
                      /\ rep.pc = "ended" => rep.sid = man.active /\ \A n \in rep.reach : Loaded(n, man.active)
    BY DEF RepairRestores
  <2>1. ASSUME rep.pc = "load", NEW n \in rep.reach \ rep.done PROVE CanLoad(n, rep.chain[rep.i])
    <3>1. rep.chain = man.chain /\ man.active # 0 /\ rep.i \in DOMAIN man.chain
      BY <2>1 DEF RepairInv, TypeOK
    <3>2. MemberPiece(man.chain, rep.i) \in pieces
      BY <3>1 DEF ChainInv, ChainReplays, MemberPiece
    <3>3. rep.i # 1 => man.chain[rep.i - 1] \in cache[n].files
      BY <2>1, <3>1 DEF RepairInv, OnTheWay, AtMember
    <3> QED
      BY <3>1, <3>2, <3>3 DEF MemberPiece, CanLoad, Stored
  <2>2. ASSUME rep.pc = "ended" PROVE rep.sid = man.active /\ \A n \in rep.reach : Loaded(n, man.active)
    BY <2>2 DEF RepairInv, OnTheWay, Has, Loaded
  <2> QED
    BY <2>1, <2>2
<1> HIDE DEF Inv
<1> QED
  BY <1>1, <1>2, <1>3, PTL DEF Spec
===============================================================================
