---------------------------- MODULE VVDistribution ----------------------------
(***************************************************************************)
(* Distribution: how a snapshot gets from the build to the cache of every  *)
(* node, and from there to a query.                                        *)
(*                                                                         *)
(*   vvector.snapshot   the pieces of the stored snapshots: whole copies   *)
(*                      and patches over another snapshot                  *)
(*   manifest           the active snapshot and its chain, the last whole  *)
(*                      copy followed by the patches since                 *)
(*   node caches        snapshot files and ACTIVE, written by vload        *)
(*   views              <index>_snap and <index>_delta, whose sentinel row *)
(*                      carries the snapshot id a query must not be behind *)
(*                                                                         *)
(* refresh_index and load_all are the two procedures that call vload here  *)
(* (set_index_options: VVOptions).  A statement reaches the nodes of its   *)
(* session's subcluster that are up.  One refresh runs at a time (the      *)
(* refresh mark); load_all takes no mark.  make_views reads the manifest   *)
(* once and makes both views from what it read.  vload is one step per     *)
(* node, cut short by a crash where it can be; its inner steps, and those  *)
(* of a query that opens the cache meanwhile, are VVNodeCache's subject.   *)
(***************************************************************************)
EXTENDS Naturals, Sequences, FiniteSets

CONSTANTS
    Nodes,          \* database nodes
    Clusters,       \* ways the nodes may form subclusters (Enterprise: one of all nodes)
    MaxSid,         \* bound: snapshot ids taken from the sequence
    MaxGen,         \* bound: how often the index name is registered
    MaxFaults       \* bound: nodes going down or losing their cache directory

ASSUME DistributionConstants ==
    /\ \A C \in Clusters : UNION C = Nodes
    /\ MaxSid \in Nat /\ MaxGen \in Nat /\ MaxFaults \in Nat

VARIABLES
    subclusters,    \* the sets of nodes a statement may reach
    man,            \* the manifest row: gen (which registration, 0 = none), active, chain
    pieces,         \* vvector.snapshot: the stored snapshots with their base (0 = a whole copy)
    lastSid, lastGen,
    cache,          \* cache[n]: the ACTIVE file (0 = none) and the snapshot files of node n
    up,             \* the nodes that are up
    faults,
    views,          \* the snapshot id in the sentinel of each of the two views (0 = NULL, or no view)
    ref,            \* the running refresh
    rep,            \* the running load_all
    steady          \* history: nodes with the recorded snapshot and no fault or repair since

vars == <<subclusters, man, pieces, lastSid, lastGen, cache, up, faults, views, ref, rep, steady>>

Sids == 1..MaxSid
Piece == [sid : Sids, base : 0..MaxSid]

NoRefresh == [pc |-> "idle", sub |-> {}, prev |-> 0, chain |-> <<>>, full |-> FALSE, base |-> 0, sid |-> 0,
              reach |-> {}, done |-> {}, withSnap |-> FALSE, seen |-> 0, alone |-> TRUE]
NoRepair == [pc |-> "idle", sub |-> {}, sid |-> 0, chain |-> <<>>, i |-> 0, reach |-> {}, done |-> {}, alone |-> TRUE]

Init ==
    /\ subclusters \in Clusters
    /\ man = [gen |-> 0, active |-> 0, chain |-> <<>>]
    /\ pieces = {}
    /\ lastSid = 0 /\ lastGen = 0
    /\ cache = [n \in Nodes |-> [active |-> 0, files |-> {}]]
    /\ up = Nodes
    /\ faults = 0
    /\ views = [snap |-> 0, delta |-> 0]
    /\ ref = NoRefresh
    /\ rep = NoRepair
    /\ steady = {}

catalogVars == <<man, pieces, lastSid, lastGen, views>>
nodeVars == <<subclusters, cache, up, faults, steady>>

------------------------------------------------------------------------------
(* Registration.                                                           *)

\* A manifest row without a snapshot, and views whose sentinel carries NULL.
Register ==
    /\ man.gen = 0 /\ lastGen < MaxGen
    /\ lastGen' = lastGen + 1
    /\ man' = [gen |-> lastGen + 1, active |-> 0, chain |-> <<>>]
    /\ views' = [snap |-> 0, delta |-> 0]
    /\ UNCHANGED <<pieces, lastSid, nodeVars, ref, rep>>

\* Views, pieces and row go; the cache files stay on the nodes.  No procedure that runs is waited for.
Unregister ==
    /\ man.gen # 0
    /\ man' = [gen |-> 0, active |-> 0, chain |-> <<>>]
    /\ views' = [snap |-> 0, delta |-> 0]
    /\ pieces' = {}
    /\ ref' = [ref EXCEPT !.alone = FALSE]
    /\ rep' = [rep EXCEPT !.alone = FALSE]
    /\ UNCHANGED <<lastSid, lastGen, nodeVars>>

------------------------------------------------------------------------------
(* vload on one node.                                                      *)

Stored(s) == {p \in pieces : p.sid = s}

\* What vinfo calls loaded: ACTIVE names s and its file opens.
Loaded(n, s) == cache[n].active = s /\ s \in cache[n].files

\* Some node of S that is up does not have it.
LackedByAll(S, s) == \A n \in S \cap up : ~Loaded(n, s)       \* mutant: no node has it
Lacked(S, s) == \E n \in S \cap up : ~Loaded(n, s)

\* A patch is written over a copy of its base, which must be in the node's cache.
CanLoad(n, s) == \E p \in Stored(s) : p.base = 0 \/ p.base \in cache[n].files

\* The commit: rename into place, replace ACTIVE, remove every file but the new and the previous one.
AfterLoadKeepsName(c, s) == [active |-> s, files |-> {s} \cup {c.active}]      \* mutant: a file never there
AfterLoad(c, s) == [active |-> s, files |-> {s} \cup (c.files \cap {c.active})]

\* A crash inside the commit: after the rename, or after ACTIVE was replaced.
CutShortActiveFirst(c, s) == {[c EXCEPT !.active = s]}         \* mutant: ACTIVE before the rename
CutShort(c, s) == {[c EXCEPT !.files = @ \cup {s}], [active |-> s, files |-> c.files \cup {s}]}

------------------------------------------------------------------------------
(* refresh_index, one step per statement.                                  *)

\* The manifest row is read; the session is on subcluster S.
RefreshBegin(S) ==
    /\ ref.pc = "idle"
    /\ man.gen # 0 /\ lastSid < MaxSid /\ S \cap up # {}
    /\ ref' = [NoRefresh EXCEPT !.pc = "begun", !.sub = S,
                                !.prev = man.active, !.chain = man.chain]
    /\ UNCHANGED <<catalogVars, nodeVars, rep>>

\* Full when asked for, when there is no snapshot to continue, or when a node reached does not have it.
RefreshDecide(forced) ==
    /\ ref.pc = "begun"
    /\ ref' = [ref EXCEPT !.pc = "decided", !.reach = ref.sub \cap up,
                          !.full = forced \/ ref.prev = 0 \/ Lacked(ref.sub, ref.prev)]
    /\ UNCHANGED <<catalogVars, nodeVars, rep>>

\* vbuild reads the base from the cache of the node it runs on and stores the pieces: a patch, or a whole
\* copy (a full build, a heavy or long chain, a base without room).
StorePieces(whole) ==
    /\ ref.pc = "decided"
    /\ ref.full => whole
    /\ ref.full \/ \E n \in ref.sub \cap up : ref.prev \in cache[n].files
    /\ LET s == lastSid + 1
           base == IF whole THEN 0 ELSE ref.prev
       IN
       /\ s <= MaxSid
       /\ lastSid' = s
       /\ pieces' = pieces \cup {[sid |-> s, base |-> base]}
       /\ ref' = [ref EXCEPT !.pc = "load", !.sid = s, !.base = base,
                             !.alone = @ /\ ref.sub \cap up = ref.reach, !.reach = ref.sub \cap up]
    /\ UNCHANGED <<man, lastGen, views, nodeVars, rep>>

\* Incremental, and no vector changed: the snapshot is kept, only the _delta view is made again.
KeepSnapshot ==
    /\ ref.pc = "decided" /\ ~ref.full /\ lastSid < MaxSid
    /\ lastSid' = lastSid + 1
    /\ ref' = [ref EXCEPT !.pc = "views"]
    /\ UNCHANGED <<man, pieces, lastGen, views, nodeVars, rep>>

RefreshLoad(n) ==
    /\ ref.pc = "load"
    /\ n \in (ref.reach \cap up) \ ref.done
    /\ CanLoad(n, ref.sid)
    /\ cache' = [cache EXCEPT ![n] = AfterLoad(@, ref.sid)]
    /\ ref' = [ref EXCEPT !.done = @ \cup {n}]
    /\ rep' = [rep EXCEPT !.alone = FALSE]
    /\ steady' = steady \cup {n}
    /\ UNCHANGED <<catalogVars, up, faults, subclusters>>

\* The vload of one node is cut short: its cache is left in between and the refresh fails.
RefreshLoadCut(n) ==
    /\ ref.pc = "load"
    /\ n \in (ref.reach \cap up) \ ref.done
    /\ CanLoad(n, ref.sid)
    /\ \E c \in CutShort(cache[n], ref.sid) : cache' = [cache EXCEPT ![n] = c]
    /\ ref' = NoRefresh
    /\ rep' = [rep EXCEPT !.alone = FALSE]
    /\ UNCHANGED <<catalogVars, up, faults, steady, subclusters>>

\* The chain after this refresh: a patch continues it, a whole copy starts a new one.
NewChain == IF ref.base = 0 THEN <<ref.sid>> ELSE Append(ref.chain, ref.sid)

\* Every node reached has loaded it.  An UPDATE by index name: nothing when the row is gone.
RefreshRecord ==
    /\ ref.pc = "load" /\ ref.done = ref.reach
    /\ man' = IF man.gen = 0 THEN man ELSE [man EXCEPT !.active = ref.sid, !.chain = NewChain]
    /\ ref' = [ref EXCEPT !.pc = "views", !.withSnap = TRUE, !.chain = NewChain]
    /\ rep' = [rep EXCEPT !.alone = FALSE]
    /\ steady' = steady \cap ref.done
    /\ UNCHANGED <<pieces, lastSid, lastGen, views, cache, up, faults, subclusters>>

\* make_views_core reads the row once, which must be there.  Both views are made from what was read then,
\* whatever becomes of the row: the _snap view, unless the snapshot was kept; then the _delta view.
SidBefore == ref.prev                                          \* mutant: the id read when it began
SidNow == man.active
ReadRow ==
    /\ ref.pc = "views" /\ man.gen # 0
    /\ ref' = [ref EXCEPT !.pc = IF ref.withSnap THEN "snap" ELSE "delta", !.seen = SidNow]
    /\ UNCHANGED <<catalogVars, nodeVars, rep>>

MakeSnapView ==
    /\ ref.pc = "snap"
    /\ views' = [views EXCEPT !.snap = ref.seen]
    /\ ref' = [ref EXCEPT !.pc = "delta"]
    /\ UNCHANGED <<man, pieces, lastSid, lastGen, nodeVars, rep>>

MakeDeltaView ==
    /\ ref.pc = "delta"
    /\ views' = [views EXCEPT !.delta = ref.seen]
    /\ ref' = [ref EXCEPT !.pc = IF ref.withSnap THEN "prune" ELSE "ended"]
    /\ UNCHANGED <<man, pieces, lastSid, lastGen, nodeVars, rep>>

\* Pieces outside the active chain go: older chains, and what failed refreshes stored.
IsNewest(p, chain) == p.sid = chain[Len(chain)]                \* mutant: only the newest snapshot stays
InChain(p, chain) == \E i \in DOMAIN chain : chain[i] = p.sid

PrunePieces ==
    /\ ref.pc = "prune"
    /\ pieces' = {p \in pieces : InChain(p, ref.chain)}
    /\ ref' = [ref EXCEPT !.pc = "ended"]
    /\ UNCHANGED <<man, lastSid, lastGen, views, nodeVars, rep>>

RefreshEnd ==
    /\ ref.pc = "ended"
    /\ ref' = NoRefresh
    /\ UNCHANGED <<catalogVars, nodeVars, rep>>

\* An error or a killed session, between any two statements; the pieces it stored stay.
RefreshFails ==
    /\ ref.pc \notin {"idle", "ended"}
    /\ ref' = NoRefresh
    /\ UNCHANGED <<catalogVars, nodeVars, rep>>

------------------------------------------------------------------------------
(* load_all: the chain is loaded member by member on every node reached.   *)

NewestOnly == Len(man.chain)                                   \* mutant: the newest patch alone
FromWholeCopy == 1

RepairBegin(S) ==
    /\ rep.pc = "idle"
    /\ man.active # 0
    /\ Lacked(S, man.active)
    /\ rep' = [NoRepair EXCEPT !.pc = "load", !.sub = S, !.sid = man.active, !.chain = man.chain, !.i = FromWholeCopy,
                               !.reach = S \cap up]
    /\ UNCHANGED <<catalogVars, nodeVars, ref>>

RepairLoad(n) ==
    /\ rep.pc = "load"
    /\ n \in (rep.reach \cap up) \ rep.done
    /\ CanLoad(n, rep.chain[rep.i])
    /\ cache' = [cache EXCEPT ![n] = AfterLoad(@, rep.chain[rep.i])]
    /\ rep' = [rep EXCEPT !.done = @ \cup {n}]
    /\ ref' = [ref EXCEPT !.alone = FALSE]
    /\ steady' = steady \ {n}
    /\ UNCHANGED <<catalogVars, up, faults, subclusters>>

\* Every node has loaded this member: the next one, or the end.
RepairNext ==
    /\ rep.pc = "load" /\ rep.done = rep.reach
    /\ \/ /\ rep.i < Len(rep.chain)
          /\ rep' = [rep EXCEPT !.i = @ + 1, !.done = {}, !.reach = rep.sub \cap up,
                                !.alone = @ /\ rep.sub \cap up = rep.reach]
       \/ /\ rep.i = Len(rep.chain) /\ rep.chain[rep.i] = rep.sid
          /\ rep' = [rep EXCEPT !.pc = "ended"]
    /\ UNCHANGED <<catalogVars, nodeVars, ref>>

RepairEnd ==
    /\ rep.pc = "ended"
    /\ rep' = NoRepair
    /\ UNCHANGED <<catalogVars, nodeVars, ref>>

RepairFails ==
    /\ rep.pc = "load"
    /\ rep' = NoRepair
    /\ UNCHANGED <<catalogVars, nodeVars, ref>>

------------------------------------------------------------------------------
(* Nodes.                                                                  *)

Disturbed(n) ==
    /\ ref' = [ref EXCEPT !.alone = FALSE]
    /\ rep' = [rep EXCEPT !.alone = FALSE]
    /\ steady' = steady \ {n}

NodeDown(n) ==
    /\ n \in up /\ faults < MaxFaults
    /\ up' = up \ {n}
    /\ faults' = faults + 1
    /\ Disturbed(n)
    /\ UNCHANGED <<catalogVars, cache, subclusters>>

NodeUp(n) ==
    /\ n \notin up
    /\ up' = up \cup {n}
    /\ UNCHANGED <<catalogVars, cache, faults, ref, rep, steady, subclusters>>

\* The cache directory is cleaned (/tmp at a reboot).
CacheLost(n) ==
    /\ faults < MaxFaults
    /\ cache' = [cache EXCEPT ![n] = [active |-> 0, files |-> {}]]
    /\ faults' = faults + 1
    /\ Disturbed(n)
    /\ UNCHANGED <<catalogVars, up, subclusters>>

------------------------------------------------------------------------------
Next ==
    \/ Register \/ Unregister
    \/ \E S \in subclusters : RefreshBegin(S) \/ RepairBegin(S)
    \/ \E b \in BOOLEAN : RefreshDecide(b) \/ StorePieces(b)
    \/ KeepSnapshot \/ RefreshRecord \/ ReadRow \/ MakeSnapView \/ MakeDeltaView \/ PrunePieces
    \/ RefreshEnd \/ RefreshFails
    \/ RepairNext \/ RepairEnd \/ RepairFails
    \/ \E n \in Nodes :
          \/ RefreshLoad(n) \/ RefreshLoadCut(n) \/ RepairLoad(n)
          \/ NodeDown(n) \/ NodeUp(n) \/ CacheLost(n)

Spec == Init /\ [][Next]_vars

------------------------------------------------------------------------------
(* Properties.                                                             *)

Refreshes ==
    [pc : {"idle", "begun", "decided", "load", "views", "snap", "delta", "prune", "ended"}, sub : SUBSET Nodes,
     prev : 0..MaxSid, chain : Seq(Sids), full : BOOLEAN, base : 0..MaxSid, sid : 0..MaxSid,
     reach : SUBSET Nodes, done : SUBSET Nodes, withSnap : BOOLEAN, seen : 0..MaxSid,
     alone : BOOLEAN]
Repairs ==
    [pc : {"idle", "load", "ended"}, sub : SUBSET Nodes, sid : 0..MaxSid, chain : Seq(Sids), i : Nat,
     reach : SUBSET Nodes, done : SUBSET Nodes, alone : BOOLEAN]

\* Every variable stays in its type, and load_all is at a member of its chain.
TypeOK ==
    /\ subclusters \in Clusters
    /\ man \in [gen : 0..MaxGen, active : 0..MaxSid, chain : Seq(Sids)]
    /\ pieces \subseteq Piece
    /\ lastSid \in 0..MaxSid /\ lastGen \in 0..MaxGen
    /\ cache \in [Nodes -> [active : 0..MaxSid, files : SUBSET Sids]]
    /\ up \subseteq Nodes /\ steady \subseteq Nodes
    /\ faults \in 0..MaxFaults
    /\ views \in [snap : 0..MaxSid, delta : 0..MaxSid]
    /\ ref \in Refreshes /\ (ref.pc = "load" => ref.sid # 0)
    /\ rep \in Repairs /\ (rep.pc = "load" => rep.i \in DOMAIN rep.chain)

\* Whatever refreshes failed in between, the table holds the whole active chain: it ends at the active
\* snapshot, its first member is a whole copy and every other one a patch over the member before.
ChainReplays ==
    man.active # 0 =>
        /\ man.chain # <<>> /\ man.chain[Len(man.chain)] = man.active
        /\ \A i \in DOMAIN man.chain :
              [sid |-> man.chain[i], base |-> IF i = 1 THEN 0 ELSE man.chain[i - 1]] \in pieces

\* A load_all that nothing disturbs never misses a base on the way, and when it ends every node it reached
\* has the active snapshot, whatever the cache directories held before: files of failed loads, of a
\* rebuilt chain, or nothing.
RepairRestores ==
    rep.alone =>
        /\ rep.pc = "load" => \A n \in rep.reach \ rep.done : CanLoad(n, rep.chain[rep.i])
        /\ rep.pc = "ended" => rep.sid = man.active /\ \A n \in rep.reach : Loaded(n, man.active)

\* When a refresh stored a patch, every node that showed its base before still has it when the patch comes.
PatchFindsBase ==
    ref.alone /\ ref.pc = "load" => \A n \in ref.reach \ ref.done : CanLoad(n, ref.sid)

\* A node that took part in the last recorded refresh and had no fault or repair since always serves what
\* the views ask for: between the load and the views, when the refresh stops at any point, and when its
\* vload is cut short.
SteadyNodesServe ==
    \A n \in steady :
        /\ cache[n].active \in cache[n].files
        /\ cache[n].active >= views.snap /\ cache[n].active >= views.delta

\* The views never ask for a snapshot the manifest does not have yet, and a refresh that ends leaves the
\* _delta view, whose boundary and snapshot id belong together, at the active snapshot.
DeltaViewCurrent ==
    man.gen # 0 =>
        /\ views.delta <= man.active /\ views.snap <= man.active
        /\ ref.pc = "ended" => views.delta = man.active
==============================================================================
