------------------------------ MODULE VVOptions ------------------------------
(***************************************************************************)
(* Options: the query defaults and the cache directory of an index.        *)
(*                                                                         *)
(* The manifest holds them; a query cannot read it, so vconfig writes them *)
(* into an OPTIONS file of every node: in the directory of the index, and, *)
(* when that is not where a query looks first, in the default directory    *)
(* and in the session's with a redirect, cache_dir=<directory>.  A reader  *)
(* (open_active, for vsearch and vinfo) takes OPTIONS of the directory it  *)
(* resolved, follows one redirect, and takes OPTIONS and ACTIVE there.     *)
(*                                                                         *)
(* set_index_options moves an index to another directory: it loads the     *)
(* active chain there, writes the OPTIONS files, and then commits.  The    *)
(* files of a failed or finished move are never taken back, so this module *)
(* runs the three procedures that call vconfig one after another, each     *)
(* failing at any point, between queries that read the files one by one.   *)
(* Procedures that overlap are the subject of VVDistribution.              *)
(***************************************************************************)
EXTENDS Naturals, Sequences, FiniteSets

CONSTANTS
    Nodes,
    Subclusters,    \* the sets of nodes a statement may reach
    Default,        \* DEFAULT_CACHE_DIR
    Sessions,       \* the directories a session may resolve: Default, or its parameter cache_dir
    Homes,          \* values of the index option cache_dir
    NoHome,         \* ... and NULL
    Values,         \* what stands for the other query defaults
    NoValue,        \* the built-in defaults: no OPTIONS file, or one that sets nothing
    MaxSid,         \* bound: snapshots
    MaxCalls        \* bound: procedure calls

ASSUME OptionsConstants ==
    /\ UNION Subclusters = Nodes
    /\ Default \in Sessions /\ NoHome \notin Homes \cup Sessions /\ NoValue \in Values
    /\ MaxSid \in Nat /\ MaxCalls \in Nat

VARIABLES
    session,        \* the directory every session of this database resolves
    man,            \* the committed manifest row: home, value, active snapshot, its chain
    lastSid,
    calls,
    dir,            \* dir[n][x]: the index's files in cache directory x of node n
    want,           \* the snapshot id the views ask for
    pr,             \* the running procedure
    query,          \* the query on its way through the files
    behind          \* history: directories an unfinished reload of the chain took back to an older member

vars == <<session, man, lastSid, calls, dir, want, pr, query, behind>>

Dirs == {Default} \cup Sessions \cup Homes
Sids == 1 .. MaxSid
Members == [sid : Sids, base : 0 .. MaxSid]

NoFiles == [value |-> NoValue, redirect |-> NoHome, active |-> 0, files |-> {}]
NoProcedure == [kind |-> "none", pc |-> "idle", reach |-> {}, home |-> NoHome, value |-> NoValue,
                todo |-> <<>>, left |-> {}, written |-> {}]
NoQuery == [pc |-> "idle"]

Init ==
    /\ session \in Sessions
    /\ man = [home |-> NoHome, value |-> NoValue, active |-> 0, chain |-> <<>>]
    /\ lastSid = 0 /\ calls = 0 /\ want = 0
    /\ dir = [n \in Nodes |-> [x \in Dirs |-> NoFiles]]
    /\ pr = NoProcedure
    /\ query = NoQuery
    /\ behind = {}

------------------------------------------------------------------------------
(* Readers of the files.                                                   *)

\* One hop, never a chain; a directory that names itself is not a redirect.
Hop(n, x) == IF dir[n][x].redirect \in {NoHome, x} THEN x ELSE dir[n][x].redirect

\* The snapshot open_active finds in directory x, 0 when ACTIVE or its file is missing.
Opened(n, x) == IF dir[n][x].active \in dir[n][x].files THEN dir[n][x].active ELSE 0

\* vinfo, asked for directory x.
Seen(n, x) == Opened(n, Hop(n, x))

\* The directory the procedures pass to vinfo, vbuild and vload: the option's, else what the session resolves.
SessionDir(home) == session                                     \* mutant: the session's, whatever the option
CacheDir(home) == IF home = NoHome THEN session ELSE home

------------------------------------------------------------------------------
(* Procedures.                                                             *)

Begin(S, kind, home, value, todo) ==
    /\ pr.pc = "idle" /\ calls < MaxCalls
    /\ calls' = calls + 1
    /\ pr' = [kind |-> kind, pc |-> IF todo = <<>> THEN "push" ELSE "load", reach |-> S, home |-> home,
              value |-> value, todo |-> todo, left |-> S, written |-> {}]

\* set_index_options: the row is updated.  With a new directory and a snapshot, the chain goes there first and the
\* commit comes last; else the commit is now.
SetOptions(S, home, value) ==
    /\ \/ /\ home # man.home /\ man.active # 0
          /\ Begin(S, "move", home, value, man.chain)
          /\ UNCHANGED man
       \/ /\ home = man.home \/ man.active = 0
          /\ Begin(S, "set", home, value, <<>>)
          /\ man' = [man EXCEPT !.home = home, !.value = value]
    /\ UNCHANGED <<session, lastSid, dir, want, query, behind>>

\* load_all: nothing to load when vinfo finds the active snapshot on every node reached.
LoadAll(S) ==
    /\ man.active # 0
    /\ LET lacking == \E n \in S : Seen(n, CacheDir(man.home)) # man.active
       IN Begin(S, "load_all", man.home, man.value, IF lacking THEN man.chain ELSE <<>>)
    /\ UNCHANGED <<session, man, lastSid, dir, want, query, behind>>

\* refresh_index, up to the load: a whole copy, or, when vinfo finds the active snapshot on every node reached and
\* the node that builds has its file, a patch over it.
Refresh(S, whole) ==
    /\ lastSid < MaxSid
    /\ LET x == CacheDir(man.home)
       IN whole \/ /\ man.active # 0
                   /\ \A n \in S : Seen(n, x) = man.active
                   /\ \E n \in S : man.active \in dir[n][x].files
    /\ lastSid' = lastSid + 1
    /\ Begin(S, "refresh", man.home, man.value,
             <<[sid |-> lastSid + 1, base |-> IF whole THEN 0 ELSE man.active]>>)
    /\ UNCHANGED <<session, man, dir, want, query, behind>>

\* vload on one node: a patch needs its base in the same directory; the new and the previous file stay.
AfterLoadDropsNew(d, s) == [d EXCEPT !.active = s, !.files = {d.active}]     \* mutant: the new file is removed
AfterLoad(d, s) == [d EXCEPT !.active = s, !.files = {s} \cup (@ \cap {d.active})]

Load(n) ==
    /\ pr.pc = "load" /\ n \in pr.left
    /\ LET x == CacheDir(pr.home)
           m == Head(pr.todo)
       IN /\ m.base = 0 \/ m.base \in dir[n][x].files
          /\ dir' = [dir EXCEPT ![n][x] = AfterLoad(@, m.sid)]
          /\ behind' = IF Len(pr.todo) > 1 THEN behind \cup {<<n, x>>} ELSE behind \ {<<n, x>>}
    /\ pr' = [pr EXCEPT !.left = @ \ {n}]
    /\ UNCHANGED <<session, man, lastSid, calls, want, query>>

\* Every node has loaded this member: the next one, or the OPTIONS files.
NextMember ==
    /\ pr.pc = "load" /\ pr.left = {}
    /\ pr' = IF Len(pr.todo) > 1 THEN [pr EXCEPT !.todo = Tail(@), !.left = pr.reach]
             ELSE [pr EXCEPT !.pc = "push", !.left = pr.reach]
    /\ UNCHANGED <<session, man, lastSid, calls, dir, want, query, behind>>

\* vconfig on one node: first OPTIONS of the index's directory, then the redirect in the default directory and the
\* session's; without a directory of its own, only a redirect left behind is rewritten there.
RedirectKept(n, x) == pr.home # NoHome                          \* mutant: the old redirect stays
Target(home) == IF home = NoHome THEN session ELSE home
RedirectDue(n, x) == pr.home # NoHome \/ dir[n][x].redirect # NoHome

WriteOptions(n) ==
    /\ pr.pc = "push" /\ n \in pr.left
    /\ LET target == Target(pr.home)
           x == IF <<n, target>> \notin pr.written THEN target
                ELSE IF <<n, Default>> \notin pr.written THEN Default ELSE session
       IN IF {n} \X {target, Default, session} \subseteq pr.written
          THEN /\ pr' = [pr EXCEPT !.left = @ \ {n}]
               /\ UNCHANGED dir
          ELSE /\ pr' = [pr EXCEPT !.written = @ \cup {<<n, x>>}]
               /\ dir' = IF x = target THEN [dir EXCEPT ![n][x].value = pr.value, ![n][x].redirect = NoHome]
                         ELSE IF RedirectDue(n, x)
                         THEN [dir EXCEPT ![n][x].value = pr.value, ![n][x].redirect = pr.home]
                         ELSE dir
    /\ UNCHANGED <<session, man, lastSid, calls, want, query, behind>>

\* The commit: of the move, or of the new snapshot, which the views made next ask for.
Recorded ==
    CASE pr.kind = "move" -> [man EXCEPT !.home = pr.home, !.value = pr.value]
      [] pr.kind = "refresh" ->
            LET m == Head(pr.todo)
            IN [man EXCEPT !.active = m.sid, !.chain = IF m.base = 0 THEN <<m>> ELSE Append(@, m)]
      [] OTHER -> man

Finish ==
    /\ pr.pc = "push" /\ pr.left = {}
    /\ man' = Recorded
    /\ pr' = [pr EXCEPT !.pc = "ended", !.written = {}]
    /\ want' = man'.active
    /\ UNCHANGED <<session, lastSid, calls, dir, query, behind>>

Return ==
    /\ pr.pc = "ended"
    /\ pr' = NoProcedure
    /\ UNCHANGED <<session, man, lastSid, calls, dir, want, query, behind>>

\* A statement fails on some node, or the session is killed: the manifest row is rolled back, no file is.
Fail ==
    /\ pr.pc \in {"load", "push"}
    /\ pr' = NoProcedure
    /\ UNCHANGED <<session, man, lastSid, calls, dir, want, query, behind>>

------------------------------------------------------------------------------
(* A query: open_active on one node, file by file.  Only the opening that  *)
(* counts is here: vsearch opens again, past what its process trusts, when *)
(* the views ask for more than it has (VVSearch).                          *)

Plan(n) ==
    /\ query.pc = "idle" /\ want # 0
    /\ query' = [pc |-> "options", node |-> n, want |-> want, dir |-> session, value |-> NoValue]
    /\ UNCHANGED <<session, man, lastSid, calls, dir, want, pr, behind>>

\* OPTIONS of the directory the session resolves, and the one it names.
ReadOptions ==
    /\ query.pc = "options"
    /\ LET home == Hop(query.node, query.dir)
       IN query' = [query EXCEPT !.pc = IF home = query.dir THEN "active" ELSE "home", !.dir = home,
                                 !.value = dir[query.node][query.dir].value]
    /\ UNCHANGED <<session, man, lastSid, calls, dir, want, pr, behind>>

\* OPTIONS there: its defaults count, its redirect does not.
ReadHome ==
    /\ query.pc = "home"
    /\ query' = [query EXCEPT !.pc = "active", !.value = dir[query.node][query.dir].value]
    /\ UNCHANGED <<session, man, lastSid, calls, dir, want, pr, behind>>

\* ACTIVE there, and its file: the query is answered, or refused as missing or stale.
Answered == Opened(query.node, query.dir) >= query.want

OpenActive ==
    /\ query.pc = "active"
    /\ query' = NoQuery
    /\ UNCHANGED <<session, man, lastSid, calls, dir, want, pr, behind>>

------------------------------------------------------------------------------
Next ==
    \/ \E S \in Subclusters :
          \/ \E home \in Homes \cup {NoHome}, value \in Values : SetOptions(S, home, value)
          \/ LoadAll(S)
          \/ \E whole \in BOOLEAN : Refresh(S, whole)
    \/ \E n \in Nodes : Load(n) \/ WriteOptions(n) \/ Plan(n)
    \/ NextMember \/ Finish \/ Return \/ Fail
    \/ ReadOptions \/ ReadHome \/ OpenActive

Spec == Init /\ [][Next]_vars

------------------------------------------------------------------------------
(* Properties.                                                             *)

\* Every variable stays in its type; a node's ACTIVE never names a file that is not there.
TypeOK ==
    /\ session \in Sessions
    /\ man \in [home : Homes \cup {NoHome}, value : Values, active : 0 .. MaxSid, chain : Seq(Members)]
    /\ lastSid \in 0 .. MaxSid /\ calls \in 0 .. MaxCalls /\ want \in 0 .. MaxSid
    /\ dir \in [Nodes -> [Dirs -> [value : Values, redirect : Homes \cup {NoHome}, active : 0 .. MaxSid,
                                  files : SUBSET Sids]]]
    /\ \A n \in Nodes, x \in Dirs : dir[n][x].active # 0 => dir[n][x].active \in dir[n][x].files
    /\ pr \in [kind : {"none", "set", "move", "load_all", "refresh"}, pc : {"idle", "load", "push", "ended"},
               reach : Subclusters \cup {{}}, home : Homes \cup {NoHome}, value : Values, todo : Seq(Members),
               left : SUBSET Nodes, written : SUBSET (Nodes \X Dirs)]
    /\ query # NoQuery => query \in [pc : {"options", "home", "active"}, node : Nodes, want : 0 .. MaxSid,
                                     dir : Dirs, value : Values]
    /\ behind \subseteq Nodes \X Dirs

\* While an index moves from directory to directory, and after moves, loads and refreshes that stopped at any node
\* and any file, a query is answered by a snapshot its views accept: whatever OPTIONS files it meets on its way, they
\* lead to a directory that has it.  Only a directory whose chain is being loaded again over itself may be behind.
AnswersWhileMoving ==
    [][OpenActive => Answered \/ <<query.node, query.dir>> \in behind]_vars

\* A CALL that ends well leaves every node it reached with what the manifest says.  The default directory and the
\* session's lead to the index's directory, or nowhere when it has none of its own; the defaults are there, and,
\* unless only defaults were written, a snapshot as new as the active one.  Except, as for a query, in a directory an
\* unfinished reload left behind: load_all takes it for loaded when a redirect of a failed move still leads elsewhere.
OptionsApplied ==
    pr.pc = "ended" =>
        \A n \in pr.reach, from \in {Default, session} :
            LET x == IF man.home = NoHome THEN from ELSE man.home IN
            /\ Hop(n, from) = x
            /\ x = Target(man.home) => dir[n][x].value = man.value
            /\ x = Target(man.home) /\ pr.kind # "set" => Opened(n, x) >= man.active \/ <<n, x>> \in behind

\* What the README says of load_all: it loads the active snapshot on every node that lacks it.  So a node it
\* reached has it when it ends.
LoadAllServes ==
    pr.pc = "ended" /\ pr.kind = "load_all" => \A n \in pr.reach : Seen(n, session) >= man.active
==============================================================================
