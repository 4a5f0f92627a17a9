--------------------------- MODULE VVOptionsProofs ---------------------------
(***************************************************************************)
(* Theorems about VVOptions, for every set of nodes, directories, defaults *)
(* and subclusters and every value of the bounds.  The two about what a    *)
(* query finds are for a database whose statements reach every node.       *)
(***************************************************************************)
EXTENDS VVOptions, SequenceTheorems, TLAPS

\* The types of an index's files in one directory, of a procedure and of a query.
Copies == [value : Values, redirect : Homes \cup {NoHome}, active : 0 .. MaxSid, files : SUBSET Sids]
Rows == [home : Homes \cup {NoHome}, value : Values, active : 0 .. MaxSid, chain : Seq(Members)]
Procedures ==
    [kind : {"none", "set", "move", "load_all", "refresh"}, pc : {"idle", "load", "push", "ended"},
     reach : Subclusters \cup {{}}, home : Homes \cup {NoHome}, value : Values, todo : Seq(Members),
     left : SUBSET Nodes, written : SUBSET (Nodes \X Dirs)]
Queries == [pc : {"options", "home", "active"}, node : Nodes, want : 0 .. MaxSid, dir : Dirs, value : Values]

\* The row, the procedure that runs and what it has to load, as they belong together.
Shape ==
    /\ want = man.active /\ man.active <= lastSid
    /\ man.active = 0 <=> man.chain = <<>>
    /\ man.chain # <<>> => man.chain[Len(man.chain)].sid = man.active
    /\ pr.left \subseteq pr.reach
    /\ pr.pc # "idle" => pr.reach \in Subclusters /\ pr.kind # "none"
    /\ pr.pc = "load" => pr.todo # <<>> /\ pr.written = {}
    /\ pr.pc = "push" => Len(pr.todo) \in {0, 1}
    /\ pr.pc # "idle" /\ (pr.kind # "move" \/ pr.pc = "ended") => pr.home = man.home /\ pr.value = man.value
    /\ pr.pc \in {"load", "push"} =>
          /\ pr.kind = "set" => pr.todo = <<>>
          /\ pr.kind = "move" => pr.todo # <<>>
          /\ pr.kind = "refresh" => Len(pr.todo) = 1 /\ pr.todo[1].sid = lastSid /\ man.active < lastSid
          /\ pr.kind # "refresh" /\ pr.todo # <<>> => pr.todo[Len(pr.todo)].sid = man.active

TypeInv == TypeOK /\ Shape

------------------------------------------------------------------------------
(* Types.                                                                  *)

\* A home resolves to a directory, and so does a directory with its redirect.
LEMMA DirsTyped ==
    ASSUME TypeOK
    PROVE  /\ session \in Dirs /\ Default \in Dirs /\ NoHome \notin Dirs
           /\ \A home \in Homes \cup {NoHome} : Target(home) \in Dirs /\ CacheDir(home) = Target(home)
           /\ \A n \in Nodes, x \in Dirs : dir[n][x] \in Copies /\ Hop(n, x) \in Dirs
BY OptionsConstants DEF TypeOK, Dirs, Target, CacheDir, Hop, Copies

\* Init types every variable, and nothing runs.
LEMMA InitTyped == Init => TypeInv
<1> SUFFICES ASSUME Init PROVE TypeInv
    OBVIOUS
<1> USE OptionsConstants DEF Init
<1>1. NoFiles \in Copies /\ NoFiles.active = 0
      BY DEF NoFiles, Copies
<1>2. /\ dir \in [Nodes -> [Dirs -> Copies]]
      /\ \A n \in Nodes, x \in Dirs : dir[n][x].active = 0
      BY <1>1
<1>3. man \in Rows
      BY DEF Rows
<1>4. pr \in Procedures /\ pr.pc = "idle" /\ pr.left = {}
      BY DEF NoProcedure, Procedures
<1>5. TypeOK
      BY <1>2, <1>3, <1>4 DEF TypeOK, Copies, Rows, Procedures
<1> QED
    BY <1>4, <1>5 DEF TypeInv, Shape

\* What Begin makes of a typed call.
LEMMA BeginTyped ==
    ASSUME TypeOK, NEW S \in Subclusters, NEW kind \in {"set", "move", "load_all", "refresh"},
           NEW home \in Homes \cup {NoHome}, NEW value \in Values, NEW todo \in Seq(Members),
           Begin(S, kind, home, value, todo)
    PROVE  /\ pr' \in Procedures /\ calls' \in 0 .. MaxCalls /\ pr.pc = "idle"
           /\ pr'.kind = kind /\ pr'.pc = (IF todo = <<>> THEN "push" ELSE "load")
           /\ pr'.reach = S /\ pr'.home = home /\ pr'.value = value /\ pr'.todo = todo
           /\ pr'.left = S /\ pr'.written = {}
BY OptionsConstants DEF Begin, Procedures, TypeOK

\* What vload makes of the files of one directory.
LEMMA AfterLoadTyped ==
    ASSUME NEW d \in Copies, NEW s \in Sids
    PROVE  LET new == AfterLoad(d, s) IN
           /\ new \in Copies /\ new.active = s /\ s \in new.files
           /\ new.redirect = d.redirect /\ new.value = d.value
<1>1. d.files \subseteq Sids /\ s \in 0 .. MaxSid
      BY DEF Copies, Sids
<1>2. {s} \cup (d.files \cap {d.active}) \in SUBSET Sids
      BY <1>1
<1> QED
    BY <1>1, <1>2 DEF AfterLoad, Copies

\* The member a load takes, and what the load makes of the directory.
LEMMA LoadEffect ==
    ASSUME TypeOK, NEW n \in Nodes, Load(n), pr.todo # <<>>
    PROVE  LET x == Target(pr.home) m == pr.todo[1] IN
           /\ x \in Dirs /\ m \in Members /\ Len(pr.todo) \in Nat \ {0}
           /\ dir' \in [Nodes -> [Dirs -> Copies]]
           /\ \A k \in Nodes, y \in Dirs : <<k, y>> # <<n, x>> => dir'[k][y] = dir[k][y]
           /\ dir'[n][x].active = m.sid /\ m.sid \in dir'[n][x].files
           /\ dir'[n][x].redirect = dir[n][x].redirect /\ dir'[n][x].value = dir[n][x].value
<1> DEFINE x == Target(pr.home)
           m == pr.todo[1]
<1>1. pr \in Procedures /\ pr.home \in Homes \cup {NoHome} /\ pr.todo \in Seq(Members)
      BY DEF TypeOK, Procedures
<1>2. x \in Dirs /\ CacheDir(pr.home) = x
      BY <1>1, DirsTyped
<1>3. m \in Members /\ Len(pr.todo) \in Nat \ {0} /\ Head(pr.todo) = m
      BY <1>1, HeadTailProperties, LenProperties, EmptySeq
<1>4. m.sid \in Sids
      BY <1>3 DEF Members
<1>5. dir[n][x] \in Copies /\ dir \in [Nodes -> [Dirs -> Copies]]
      BY <1>2, DirsTyped DEF TypeOK, Copies
<1> DEFINE new == AfterLoad(dir[n][x], m.sid)
<1>6. /\ new \in Copies /\ new.active = m.sid /\ m.sid \in new.files
      /\ new.redirect = dir[n][x].redirect /\ new.value = dir[n][x].value
      BY <1>4, <1>5, AfterLoadTyped
<1>7. dir' = [dir EXCEPT ![n][x] = new]
  <2>1. dir' = [dir EXCEPT ![n][CacheDir(pr.home)] = AfterLoad(@, Head(pr.todo).sid)]
        BY DEF Load
  <2> QED
      BY <1>2, <1>3, <2>1
<1> HIDE DEF x, m, new
<1>8. /\ dir' \in [Nodes -> [Dirs -> Copies]] /\ dir'[n][x] = new
      /\ \A k \in Nodes, y \in Dirs : <<k, y>> # <<n, x>> => dir'[k][y] = dir[k][y]
      BY <1>2, <1>5, <1>6, <1>7
<1> QED
    BY <1>2, <1>3, <1>6, <1>8 DEF x, m

\* The file WriteOptions writes next.
Due(n) ==
    IF <<n, Target(pr.home)>> \notin pr.written THEN Target(pr.home)
    ELSE IF <<n, Default>> \notin pr.written THEN Default ELSE session

\* What WriteOptions does: the node is done, or one file more is written.
LEMMA WriteEffect ==
    ASSUME TypeOK, NEW n \in Nodes, WriteOptions(n)
    PROVE  /\ pr.pc = "push" /\ n \in pr.left /\ Due(n) \in Dirs
           /\ \/ /\ {n} \X {Target(pr.home), Default, session} \subseteq pr.written
                 /\ pr' = [pr EXCEPT !.left = @ \ {n}] /\ dir' = dir
              \/ /\ pr' = [pr EXCEPT !.written = @ \cup {<<n, Due(n)>>}]
                 /\ Due(n) \in {Target(pr.home), Default, session}
                 /\ dir' \in [Nodes -> [Dirs -> Copies]]
                 /\ \A k \in Nodes, y \in Dirs : <<k, y>> # <<n, Due(n)>> => dir'[k][y] = dir[k][y]
                 /\ dir'[n][Due(n)].active = dir[n][Due(n)].active /\ dir'[n][Due(n)].files = dir[n][Due(n)].files
                 /\ IF Due(n) = Target(pr.home)
                    THEN dir'[n][Due(n)].redirect = NoHome /\ dir'[n][Due(n)].value = pr.value
                    ELSE dir'[n][Due(n)].redirect = pr.home
<1> DEFINE x == Due(n)
           target == Target(pr.home)
<1>1. pr \in Procedures /\ pr.home \in Homes \cup {NoHome} /\ pr.value \in Values
      BY DEF TypeOK, Procedures
<1>2. target \in Dirs /\ x \in Dirs /\ x \in {target, Default, session}
      BY <1>1, DirsTyped DEF Due
<1>3. pr.pc = "push" /\ n \in pr.left
      BY DEF WriteOptions
<1>4. \/ /\ {n} \X {target, Default, session} \subseteq pr.written
         /\ pr' = [pr EXCEPT !.left = @ \ {n}] /\ dir' = dir
      \/ /\ pr' = [pr EXCEPT !.written = @ \cup {<<n, x>>}]
         /\ dir' = IF x = target THEN [dir EXCEPT ![n][x].value = pr.value, ![n][x].redirect = NoHome]
                   ELSE IF RedirectDue(n, x)
                   THEN [dir EXCEPT ![n][x].value = pr.value, ![n][x].redirect = pr.home]
                   ELSE dir
      BY DEF WriteOptions, Due
<1>5. dir[n][x] \in Copies /\ dir \in [Nodes -> [Dirs -> Copies]]
      BY <1>2, DirsTyped DEF TypeOK, Copies
<1>6. ASSUME NEW r \in Homes \cup {NoHome}, dir' = [dir EXCEPT ![n][x].value = pr.value, ![n][x].redirect = r]
      PROVE  /\ dir' \in [Nodes -> [Dirs -> Copies]]
             /\ \A k \in Nodes, y \in Dirs : <<k, y>> # <<n, x>> => dir'[k][y] = dir[k][y]
             /\ dir'[n][x].active = dir[n][x].active /\ dir'[n][x].files = dir[n][x].files
             /\ dir'[n][x].redirect = r /\ dir'[n][x].value = pr.value
  <2> HIDE DEF x
  <2> DEFINE new == [dir[n][x] EXCEPT !.value = pr.value, !.redirect = r]
  <2>1. /\ new \in Copies /\ new.active = dir[n][x].active /\ new.files = dir[n][x].files
        /\ new.redirect = r /\ new.value = pr.value
        BY <1>1, <1>5 DEF Copies
  <2>2. dir' = [dir EXCEPT ![n][x] = new]
        BY <1>2, <1>5, <1>6
  <2> HIDE DEF new
  <2> QED
      BY <1>2, <1>5, <2>1, <2>2
<1>7. x # target /\ ~RedirectDue(n, x) => dir[n][x].redirect = pr.home
      BY DEF RedirectDue
<1> HIDE DEF x, target
<1>8. CASE dir' = dir /\ x # target /\ ~RedirectDue(n, x) /\ pr' = [pr EXCEPT !.written = @ \cup {<<n, x>>}]
      BY <1>2, <1>3, <1>5, <1>7, <1>8 DEF x, target
<1>9. CASE x = target /\ dir' = [dir EXCEPT ![n][x].value = pr.value, ![n][x].redirect = NoHome]
           /\ pr' = [pr EXCEPT !.written = @ \cup {<<n, x>>}]
      BY <1>2, <1>3, <1>6, <1>9 DEF x, target
<1>10. CASE x # target /\ dir' = [dir EXCEPT ![n][x].value = pr.value, ![n][x].redirect = pr.home]
           /\ pr' = [pr EXCEPT !.written = @ \cup {<<n, x>>}]
      BY <1>1, <1>2, <1>3, <1>6, <1>10 DEF x, target
<1> QED
    BY <1>2, <1>3, <1>4, <1>8, <1>9, <1>10 DEF x, target
------------------------------------------------------------------------------
(* Every step keeps the types and the shape.                               *)

\* Calls that begin, and loads and files written, one action at a time.
LEMMA SetOptionsTyped ==
    ASSUME TypeInv, NEW S \in Subclusters, NEW home \in Homes \cup {NoHome}, NEW value \in Values,
           SetOptions(S, home, value)
    PROVE  TypeInv'
<1>1. TypeOK /\ Shape
      BY DEF TypeInv
<1>2. man \in Rows /\ <<>> \in Seq(Members)
      BY <1>1 DEF TypeOK, Rows
<1>3. UNCHANGED <<session, lastSid, dir, want, query, behind>>
      BY DEF SetOptions
<1>4. CASE home # man.home /\ man.active # 0 /\ Begin(S, "move", home, value, man.chain) /\ UNCHANGED man
  <2>1. man.chain \in Seq(Members) /\ man.chain # <<>>
        BY <1>1, <1>2, <1>4 DEF Rows, Shape
  <2>2. /\ pr' \in Procedures /\ calls' \in 0 .. MaxCalls
        /\ pr'.kind = "move" /\ pr'.pc = "load" /\ pr'.reach = S /\ pr'.todo = man.chain
        /\ pr'.left = S /\ pr'.written = {}
        BY <1>1, <1>4, <2>1, BeginTyped
  <2>3. TypeOK'
        BY <1>1, <1>3, <1>4, <2>2 DEF TypeOK, Procedures
  <2>4. Shape'
        BY <1>1, <1>3, <1>4, <2>1, <2>2 DEF Shape
  <2> QED
      BY <2>3, <2>4 DEF TypeInv
<1>5. CASE /\ home = man.home \/ man.active = 0
           /\ Begin(S, "set", home, value, <<>>)
           /\ man' = [man EXCEPT !.home = home, !.value = value]
  <2>1. /\ pr' \in Procedures /\ calls' \in 0 .. MaxCalls
        /\ pr'.kind = "set" /\ pr'.pc = "push" /\ pr'.reach = S /\ pr'.todo = <<>>
        /\ pr'.left = S /\ pr'.written = {} /\ pr'.home = home /\ pr'.value = value
        BY <1>1, <1>2, <1>5, BeginTyped
  <2>2. /\ man' \in Rows /\ man'.active = man.active /\ man'.chain = man.chain
        /\ man'.home = home /\ man'.value = value
        BY <1>2, <1>5 DEF Rows
  <2>3. TypeOK'
        BY <1>1, <1>3, <2>1, <2>2 DEF TypeOK, Procedures, Rows
  <2>4. Len(pr'.todo) = 0
        BY <2>1
  <2>5. Shape'
        BY <1>1, <1>3, <2>1, <2>2, <2>4 DEF Shape
  <2> QED
      BY <2>3, <2>5 DEF TypeInv
<1> QED
    BY <1>4, <1>5 DEF SetOptions

LEMMA LoadAllTyped ==
    ASSUME TypeInv, NEW S \in Subclusters, LoadAll(S)
    PROVE  TypeInv'
<1>1. TypeOK /\ Shape /\ man \in Rows /\ <<>> \in Seq(Members)
      BY DEF TypeInv, TypeOK, Rows
<1>2. UNCHANGED <<session, man, lastSid, dir, want, query, behind>> /\ man.active # 0
      BY DEF LoadAll
<1>3. PICK todo \in {man.chain, <<>>} : Begin(S, "load_all", man.home, man.value, todo)
      BY DEF LoadAll
<1>4. todo \in Seq(Members) /\ man.home \in Homes \cup {NoHome} /\ man.value \in Values
      BY <1>1 DEF Rows
<1>5. /\ pr' \in Procedures /\ calls' \in 0 .. MaxCalls
      /\ pr'.kind = "load_all" /\ pr'.pc = (IF todo = <<>> THEN "push" ELSE "load") /\ pr'.reach = S
      /\ pr'.todo = todo /\ pr'.left = S /\ pr'.written = {} /\ pr'.home = man.home /\ pr'.value = man.value
      BY <1>1, <1>3, <1>4, BeginTyped
<1>6. TypeOK'
      BY <1>1, <1>2, <1>5 DEF TypeOK, Procedures
<1>7. todo = <<>> => Len(todo) = 0
      OBVIOUS
<1>8. Shape'
      BY <1>1, <1>2, <1>3, <1>5, <1>7 DEF Shape
<1> QED
    BY <1>6, <1>8 DEF TypeInv

LEMMA RefreshTyped ==
    ASSUME TypeInv, NEW S \in Subclusters, NEW whole \in BOOLEAN, Refresh(S, whole)
    PROVE  TypeInv'
<1>1. TypeOK /\ Shape /\ man \in Rows /\ lastSid \in 0 .. MaxSid
      BY DEF TypeInv, TypeOK, Rows
<1>2. UNCHANGED <<session, man, dir, want, query, behind>> /\ lastSid < MaxSid /\ lastSid' = lastSid + 1
      BY DEF Refresh
<1> DEFINE m == [sid |-> lastSid + 1, base |-> IF whole THEN 0 ELSE man.active]
<1>3. m \in Members /\ <<m>> \in Seq(Members) /\ <<m>> # <<>>
      BY <1>1, <1>2, OptionsConstants DEF Members, Sids, Rows
<1>4. Begin(S, "refresh", man.home, man.value, <<m>>)
      BY DEF Refresh
<1>5. m.sid = lastSid'
      BY <1>2
<1> DEFINE todo == <<m>>
<1> HIDE DEF m
<1>6. man.home \in Homes \cup {NoHome} /\ man.value \in Values /\ man.active \in 0 .. MaxSid
      BY <1>1 DEF Rows
<1>7. /\ pr' \in Procedures /\ calls' \in 0 .. MaxCalls
      /\ pr'.kind = "refresh" /\ pr'.pc = "load" /\ pr'.reach = S
      /\ pr'.todo = <<m>> /\ pr'.left = S /\ pr'.written = {} /\ pr'.home = man.home /\ pr'.value = man.value
  <2>1. todo \in Seq(Members) /\ todo # <<>> /\ Begin(S, "refresh", man.home, man.value, todo)
        BY <1>3, <1>4
  <2> HIDE DEF todo
  <2>2. /\ pr' \in Procedures /\ calls' \in 0 .. MaxCalls
        /\ pr'.kind = "refresh" /\ pr'.pc = "load" /\ pr'.reach = S
        /\ pr'.todo = todo /\ pr'.left = S /\ pr'.written = {} /\ pr'.home = man.home /\ pr'.value = man.value
    <3>1. TypeOK /\ "refresh" \in {"set", "move", "load_all", "refresh"}
          BY <1>1
    <3>2. /\ pr' \in Procedures /\ calls' \in 0 .. MaxCalls
          /\ pr'.kind = "refresh" /\ pr'.pc = (IF todo = <<>> THEN "push" ELSE "load") /\ pr'.reach = S
          /\ pr'.todo = todo /\ pr'.left = S /\ pr'.written = {}
          /\ pr'.home = man.home /\ pr'.value = man.value
          BY <1>6, <2>1, <3>1, BeginTyped, ZenonT(40)
    <3> QED
        BY <2>1, <3>2
  <2> QED
      BY <2>2 DEF todo
<1>8. lastSid' \in 0 .. MaxSid
      BY <1>1, <1>2, OptionsConstants
<1>9. TypeOK'
      BY <1>1, <1>2, <1>7, <1>8 DEF TypeOK, Procedures
<1>10. Len(pr'.todo) = 1 /\ pr'.todo[1].sid = lastSid' /\ man.active < lastSid' /\ pr'.todo # <<>>
      BY <1>1, <1>2, <1>5, <1>6, <1>7, OptionsConstants DEF Shape
<1>11. Shape'
      BY <1>1, <1>2, <1>6, <1>7, <1>10 DEF Shape
<1> QED
    BY <1>9, <1>11 DEF TypeInv
LEMMA LoadTyped ==
    ASSUME TypeInv, NEW n \in Nodes, Load(n)
    PROVE  TypeInv'
<1>1. TypeOK /\ Shape /\ pr \in Procedures /\ pr.pc = "load" /\ pr.todo # <<>>
      BY DEF TypeInv, TypeOK, Procedures, Load, Shape
<1>2. UNCHANGED <<session, man, lastSid, calls, want, query>> /\ pr' = [pr EXCEPT !.left = @ \ {n}]
      BY DEF Load
<1> DEFINE x == Target(pr.home)
           m == pr.todo[1]
<1>3. /\ x \in Dirs /\ m \in Members
      /\ dir' \in [Nodes -> [Dirs -> Copies]]
      /\ \A k \in Nodes, y \in Dirs : <<k, y>> # <<n, x>> => dir'[k][y] = dir[k][y]
      /\ dir'[n][x].active = m.sid /\ m.sid \in dir'[n][x].files
      BY <1>1, LoadEffect
<1>4. behind' \subseteq behind \cup {<<n, x>>}
      BY <1>1, DirsTyped DEF Load, Procedures
<1> HIDE DEF x, m
<1>5. \A k \in Nodes, y \in Dirs : dir'[k][y].active # 0 => dir'[k][y].active \in dir'[k][y].files
  <2> TAKE k \in Nodes, y \in Dirs
  <2>1. CASE k = n /\ y = x
        BY <1>3, <2>1
  <2>2. CASE <<k, y>> # <<n, x>>
    <3>1. dir'[k][y] = dir[k][y]
          BY <1>3, <2>2
    <3> QED
        BY <1>1, <3>1 DEF TypeOK
  <2> QED
      BY <2>1, <2>2
<1>6. /\ pr' \in Procedures /\ pr'.left \subseteq pr.left /\ pr'.todo = pr.todo /\ pr'.pc = pr.pc
      /\ pr'.kind = pr.kind /\ pr'.reach = pr.reach /\ pr'.home = pr.home /\ pr'.value = pr.value
      /\ pr'.written = pr.written
      BY <1>1, <1>2 DEF Procedures
<1>7. TypeOK'
  <2>1. behind' \subseteq Nodes \X Dirs
        BY <1>1, <1>3, <1>4 DEF TypeOK
  <2> QED
      BY <1>1, <1>2, <1>3, <1>5, <1>6, <2>1 DEF TypeOK, Procedures, Copies
<1>8. Shape'
      BY <1>1, <1>2, <1>6 DEF Shape
<1> QED
    BY <1>7, <1>8 DEF TypeInv

LEMMA NextMemberTyped ==
    ASSUME TypeInv, NextMember
    PROVE  TypeInv'
<1>1. TypeOK /\ Shape /\ pr \in Procedures /\ pr.pc = "load" /\ pr.todo # <<>> /\ pr.reach \in Subclusters
      BY DEF TypeInv, TypeOK, Procedures, NextMember, Shape
<1>2. UNCHANGED <<session, man, lastSid, calls, dir, want, query, behind>>
      BY DEF NextMember
<1>3. pr.todo \in Seq(Members) /\ Len(pr.todo) \in Nat \ {0} /\ pr.reach \subseteq Nodes
      BY <1>1, LenProperties, EmptySeq, OptionsConstants DEF Procedures
<1>4. CASE Len(pr.todo) > 1
  <2>1. pr' = [pr EXCEPT !.todo = Tail(@), !.left = pr.reach]
        BY <1>4 DEF NextMember
  <2>2. /\ Tail(pr.todo) \in Seq(Members) /\ Len(Tail(pr.todo)) = Len(pr.todo) - 1
        /\ Tail(pr.todo)[Len(Tail(pr.todo))] = pr.todo[Len(pr.todo)]
        BY <1>1, <1>3, <1>4, HeadTailProperties
  <2>3. Tail(pr.todo) # <<>>
        BY <1>3, <1>4, <2>2
  <2>4. /\ pr' \in Procedures /\ pr'.left = pr.reach /\ pr'.todo = Tail(pr.todo) /\ pr'.pc = pr.pc
        /\ pr'.kind = pr.kind /\ pr'.reach = pr.reach /\ pr'.home = pr.home /\ pr'.value = pr.value
        /\ pr'.written = pr.written
        BY <1>1, <1>3, <2>1, <2>2 DEF Procedures
  <2>5. TypeOK'
        BY <1>1, <1>2, <2>4 DEF TypeOK, Procedures
  <2>6. Shape'
        BY <1>1, <1>2, <1>3, <1>4, <2>2, <2>3, <2>4 DEF Shape
  <2> QED
      BY <2>5, <2>6 DEF TypeInv
<1>5. CASE Len(pr.todo) = 1
  <2>1. pr' = [pr EXCEPT !.pc = "push", !.left = pr.reach]
        BY <1>5 DEF NextMember
  <2>2. /\ pr' \in Procedures /\ pr'.left = pr.reach /\ pr'.todo = pr.todo /\ pr'.pc = "push"
        /\ pr'.kind = pr.kind /\ pr'.reach = pr.reach /\ pr'.home = pr.home /\ pr'.value = pr.value
        /\ pr'.written = pr.written
        BY <1>1, <1>3, <2>1 DEF Procedures
  <2>3. TypeOK'
        BY <1>1, <1>2, <2>2 DEF TypeOK, Procedures
  <2>4. Shape'
    <3>1. /\ pr.kind = "set" => pr.todo = <<>>
          /\ pr.kind = "move" => pr.todo # <<>>
          /\ pr.kind = "refresh" => Len(pr.todo) = 1 /\ pr.todo[1].sid = lastSid /\ man.active < lastSid
          /\ pr.kind # "refresh" /\ pr.todo # <<>> => pr.todo[Len(pr.todo)].sid = man.active
          BY <1>1 DEF Shape
    <3>2. Len(pr'.todo) \in {0, 1} /\ pr'.pc = "push"
          BY <1>5, <2>2
    <3>3. /\ want' = man'.active /\ man'.active <= lastSid'
          /\ man'.active = 0 <=> man'.chain = <<>>
          /\ man'.chain # <<>> => man'.chain[Len(man'.chain)].sid = man'.active
          /\ pr'.left \subseteq pr'.reach /\ pr'.reach \in Subclusters /\ pr'.kind # "none"
          BY <1>1, <1>2, <2>2 DEF Shape
    <3>4. pr'.kind # "move" => pr'.home = man'.home /\ pr'.value = man'.value
          BY <1>1, <1>2, <2>2 DEF Shape
    <3>5. /\ pr'.kind = "set" => pr'.todo = <<>>
          /\ pr'.kind = "move" => pr'.todo # <<>>
          /\ pr'.kind = "refresh" => Len(pr'.todo) = 1 /\ pr'.todo[1].sid = lastSid' /\ man'.active < lastSid'
          /\ pr'.kind # "refresh" /\ pr'.todo # <<>> => pr'.todo[Len(pr'.todo)].sid = man'.active
          BY <1>2, <2>2, <3>1
    <3> QED
        BY <3>2, <3>3, <3>4, <3>5 DEF Shape
  <2> QED
      BY <2>3, <2>4 DEF TypeInv
<1>6. Len(pr.todo) > 1 \/ Len(pr.todo) = 1
  <2>1. \A k \in Nat \ {0} : k > 1 \/ k = 1
        OBVIOUS
  <2> QED
      BY <1>3, <2>1, Zenon
<1> QED
    BY <1>4, <1>5, <1>6

LEMMA WriteOptionsTyped ==
    ASSUME TypeInv, NEW n \in Nodes, WriteOptions(n)
    PROVE  TypeInv'
<1>1. TypeOK /\ Shape /\ pr \in Procedures /\ pr.pc = "push"
      BY DEF TypeInv, TypeOK, Procedures, WriteOptions
<1>2. UNCHANGED <<session, man, lastSid, calls, want, query, behind>>
      BY DEF WriteOptions
<1>3. Due(n) \in Dirs
      BY <1>1, WriteEffect
<1>4. /\ pr' \in Procedures /\ pr'.left \subseteq pr.left /\ pr'.todo = pr.todo /\ pr'.pc = pr.pc
      /\ pr'.kind = pr.kind /\ pr'.reach = pr.reach /\ pr'.home = pr.home /\ pr'.value = pr.value
  <2>1. CASE pr' = [pr EXCEPT !.left = @ \ {n}]
        BY <1>1, <2>1 DEF Procedures
  <2>2. CASE pr' = [pr EXCEPT !.written = @ \cup {<<n, Due(n)>>}]
        BY <1>1, <1>3, <2>2 DEF Procedures
  <2> QED
      BY <1>1, <2>1, <2>2, WriteEffect
<1>5. /\ dir' \in [Nodes -> [Dirs -> Copies]]
      /\ \A k \in Nodes, y \in Dirs : dir'[k][y].active = dir[k][y].active /\ dir'[k][y].files = dir[k][y].files
  <2>1. dir \in [Nodes -> [Dirs -> Copies]]
        BY <1>1 DEF TypeOK, Copies
  <2> QED
      BY <1>1, <1>3, <2>1, WriteEffect
<1>6. TypeOK'
      BY <1>1, <1>2, <1>4, <1>5 DEF TypeOK, Procedures, Copies
<1>7. Shape'
      BY <1>1, <1>2, <1>4 DEF Shape
<1> QED
    BY <1>6, <1>7 DEF TypeInv

\* What the commit makes of the row.
LEMMA RecordedTyped ==
    ASSUME TypeInv, pr.pc = "push"
    PROVE  /\ Recorded \in Rows /\ Recorded.active >= man.active /\ Recorded.active <= lastSid
           /\ Recorded.active = 0 <=> Recorded.chain = <<>>
           /\ Recorded.chain # <<>> => Recorded.chain[Len(Recorded.chain)].sid = Recorded.active
           /\ Recorded.home = pr.home /\ Recorded.value = pr.value
           /\ Recorded.active = IF pr.kind = "refresh" THEN pr.todo[1].sid ELSE man.active
<1>1. TypeOK /\ Shape /\ pr \in Procedures /\ man \in Rows /\ lastSid \in Nat /\ pr.todo \in Seq(Members)
      BY OptionsConstants DEF TypeInv, TypeOK, Procedures, Rows
<1>2. man.active \in Nat /\ man.chain \in Seq(Members)
      BY <1>1, OptionsConstants DEF Rows
<1>3. CASE pr.kind = "refresh"
  <2> DEFINE m == pr.todo[1]
             chain == IF m.base = 0 THEN <<m>> ELSE Append(man.chain, m)
  <2>1. Len(pr.todo) = 1 /\ m.sid = lastSid /\ man.active < lastSid /\ pr.home = man.home /\ pr.value = man.value
        BY <1>1, <1>3 DEF Shape
  <2>2. m \in Members /\ Head(pr.todo) = m
        BY <1>1, <2>1, ElementOfSeq, HeadTailProperties
  <2>3. Recorded = [man EXCEPT !.active = m.sid, !.chain = chain]
        BY <1>3, <2>2 DEF Recorded
  <2>4. m.sid \in Sids
        BY <2>2 DEF Members
  <2> HIDE DEF m
  <2>5. <<m>> \in Seq(Members) /\ Len(<<m>>) = 1 /\ <<m>>[1] = m /\ <<m>> # <<>>
        BY <2>2
  <2>6. chain \in Seq(Members) /\ chain # <<>> /\ chain[Len(chain)] = m
        BY <1>2, <2>2, <2>5, AppendProperties
  <2> HIDE DEF chain
  <2>7. Recorded \in Rows /\ Recorded.active = m.sid /\ Recorded.chain = chain
        /\ Recorded.home = man.home /\ Recorded.value = man.value
    <3>1. m.sid \in 0 .. MaxSid /\ chain \in Seq(Members)
          BY <2>4, <2>6 DEF Sids
    <3> HIDE DEF chain
    <3> QED
        BY <1>1, <2>3, <3>1 DEF Rows
  <2>8. m.sid # 0
        BY <1>1, <1>2, <2>1
  <2> QED
      BY <1>1, <1>2, <1>3, <2>1, <2>6, <2>7, <2>8 DEF m
<1>4. CASE pr.kind # "refresh"
  <2>1. Recorded.active = man.active /\ Recorded.chain = man.chain /\ Recorded \in Rows
        /\ Recorded.home = pr.home /\ Recorded.value = pr.value
    <3>1. CASE pr.kind = "move"
          BY <1>1, <1>4, <3>1 DEF Recorded, Rows, Procedures
    <3>2. CASE pr.kind # "move"
          BY <1>1, <1>4, <3>2 DEF Recorded, Shape
    <3> QED
        BY <3>1, <3>2
  <2> QED
      BY <1>1, <1>2, <1>4, <2>1 DEF Shape
<1> QED
    BY <1>3, <1>4

LEMMA FinishTyped ==
    ASSUME TypeInv, Finish
    PROVE  TypeInv'
<1>1. TypeOK /\ Shape /\ pr \in Procedures /\ pr.pc = "push"
      BY DEF TypeInv, TypeOK, Procedures, Finish
<1>2. /\ UNCHANGED <<session, lastSid, calls, dir, query, behind>>
      /\ man' = Recorded /\ pr' = [pr EXCEPT !.pc = "ended", !.written = {}] /\ want' = man'.active
      BY DEF Finish
<1>3. /\ man' \in Rows /\ man'.active <= lastSid
      /\ man'.active = 0 <=> man'.chain = <<>>
      /\ man'.chain # <<>> => man'.chain[Len(man'.chain)].sid = man'.active
      /\ man'.home = pr.home /\ man'.value = pr.value
      BY <1>1, <1>2, RecordedTyped
<1>4. /\ pr' \in Procedures /\ pr'.left = pr.left /\ pr'.todo = pr.todo /\ pr'.pc = "ended"
      /\ pr'.kind = pr.kind /\ pr'.reach = pr.reach /\ pr'.home = pr.home /\ pr'.value = pr.value
      /\ pr'.written = {}
      BY <1>1, <1>2 DEF Procedures
<1>5. TypeOK'
      BY <1>1, <1>2, <1>3, <1>4 DEF TypeOK, Procedures, Rows
<1>6. Shape'
      BY <1>1, <1>2, <1>3, <1>4 DEF Shape
<1> QED
    BY <1>5, <1>6 DEF TypeInv

LEMMA EndTyped ==
    ASSUME TypeInv, Return \/ Fail
    PROVE  TypeInv'
<1>1. TypeOK /\ Shape
      BY DEF TypeInv
<1>2. UNCHANGED <<session, man, lastSid, calls, dir, want, query, behind>> /\ pr' = NoProcedure
      BY DEF Return, Fail
<1>3. pr' \in Procedures /\ pr'.pc = "idle" /\ pr'.left = {}
      BY <1>2, OptionsConstants DEF NoProcedure, Procedures
<1>4. TypeOK'
      BY <1>1, <1>2, <1>3 DEF TypeOK, Procedures
<1>5. Shape'
      BY <1>1, <1>2, <1>3 DEF Shape
<1> QED
    BY <1>4, <1>5 DEF TypeInv

\* A step of a query changes the query alone.
QueryStep == (\E n \in Nodes : Plan(n)) \/ ReadOptions \/ ReadHome \/ OpenActive

LEMMA QueryTyped ==
    ASSUME TypeInv, QueryStep
    PROVE  /\ UNCHANGED <<session, man, lastSid, calls, dir, want, pr, behind>>
           /\ query' = NoQuery \/ query' \in Queries
           /\ TypeInv'
<1>1. TypeOK /\ Shape /\ (query # NoQuery => query \in Queries)
      BY DEF TypeInv, TypeOK, Queries
<1>2. UNCHANGED <<session, man, lastSid, calls, dir, want, pr, behind>>
      BY DEF QueryStep, Plan, ReadOptions, ReadHome, OpenActive
<1>3. query' = NoQuery \/ query' \in Queries
  <2>1. ASSUME NEW n \in Nodes, Plan(n) PROVE query' \in Queries
        BY <1>1, <2>1, DirsTyped, OptionsConstants DEF Plan, Queries, TypeOK
  <2>2. ASSUME ReadOptions PROVE query' \in Queries
    <3>1. query \in Queries
          BY <1>1, <2>2 DEF ReadOptions, NoQuery
    <3>2. /\ Hop(query.node, query.dir) \in Dirs
          /\ dir[query.node][query.dir].value \in Values
          BY <1>1, <3>1, DirsTyped DEF Queries, Copies
    <3> QED
        BY <2>2, <3>1, <3>2 DEF ReadOptions, Queries
  <2>3. ASSUME ReadHome PROVE query' \in Queries
    <3>1. query \in Queries
          BY <1>1, <2>3 DEF ReadHome, NoQuery
    <3>2. dir[query.node][query.dir].value \in Values
          BY <1>1, <3>1, DirsTyped DEF Queries, Copies
    <3> QED
        BY <2>3, <3>1, <3>2 DEF ReadHome, Queries
  <2> QED
      BY <2>1, <2>2, <2>3 DEF QueryStep, OpenActive
<1>4. TypeOK'
      BY <1>1, <1>2, <1>3 DEF TypeOK, Queries
<1>5. Shape'
      BY <1>1, <1>2 DEF Shape
<1> QED
    BY <1>2, <1>3, <1>4, <1>5 DEF TypeInv

LEMMA NextTyped ==
    ASSUME TypeInv, [Next]_vars
    PROVE  TypeInv'
<1>1. CASE UNCHANGED vars
      BY <1>1 DEF vars, TypeInv, TypeOK, Shape
<1>2. CASE Next
      BY <1>2, SetOptionsTyped, LoadAllTyped, RefreshTyped, LoadTyped, NextMemberTyped, WriteOptionsTyped,
         FinishTyped, EndTyped, QueryTyped DEF Next, QueryStep
<1> QED
    BY <1>1, <1>2

\* Every reachable state is typed: directories, snapshots and calls stay within their bounds, and ACTIVE never names a
\* file that is not in its directory, for every load, move and failure.
THEOREM OptionsTypeCorrect == Spec => []TypeOK
<1>1. TypeInv => TypeOK
      BY DEF TypeInv
<1> QED
    BY <1>1, InitTyped, NextTyped, PTL DEF Spec
------------------------------------------------------------------------------
(* What the OPTIONS files say, for every set of subclusters.               *)

\* A file that is written says what the call says, and a node that is done has all of its files.
Pushed ==
    pr.pc = "push" =>
        /\ \A n \in Nodes, x \in Dirs : <<n, x>> \in pr.written =>
              IF x = Target(pr.home) THEN dir[n][x].redirect = NoHome /\ dir[n][x].value = pr.value
              ELSE dir[n][x].redirect = pr.home
        /\ \A n \in pr.reach \ pr.left : {n} \X {Target(pr.home), Default, session} \subseteq pr.written

\* When the call has ended they say what the manifest says.
Applied ==
    pr.pc = "ended" => \A n \in pr.reach :
        /\ \A from \in {Default, session} : Hop(n, from) = IF man.home = NoHome THEN from ELSE man.home
        /\ dir[n][Target(man.home)].value = man.value

FilesInv == TypeInv /\ Pushed /\ Applied

\* A call that begins has written nothing, and reaches the nodes it has left.
LEMMA FreshCall ==
    ASSUME NEW S \in Subclusters,
           \/ \E home \in Homes \cup {NoHome}, value \in Values : SetOptions(S, home, value)
           \/ LoadAll(S)
           \/ \E whole \in BOOLEAN : Refresh(S, whole)
    PROVE  /\ pr.pc = "idle" /\ pr'.written = {} /\ pr'.left = S /\ pr'.reach = S /\ pr'.pc \in {"load", "push"}
           /\ UNCHANGED <<session, dir, want, query, behind>>
<1>1. ASSUME NEW kind, NEW home, NEW value, NEW todo, Begin(S, kind, home, value, todo)
      PROVE  pr.pc = "idle" /\ pr'.written = {} /\ pr'.left = S /\ pr'.reach = S /\ pr'.pc \in {"load", "push"}
      BY <1>1 DEF Begin
<1>2. CASE \E home \in Homes \cup {NoHome}, value \in Values : SetOptions(S, home, value)
      BY <1>1, <1>2 DEF SetOptions
<1>3. CASE LoadAll(S)
      BY <1>1, <1>3 DEF LoadAll
<1>4. CASE \E whole \in BOOLEAN : Refresh(S, whole)
      BY <1>1, <1>4 DEF Refresh
<1> QED
    BY <1>2, <1>3, <1>4

LEMMA PushedStep ==
    ASSUME FilesInv, [Next]_vars
    PROVE  Pushed'
<1>1. TypeOK /\ Shape /\ Pushed /\ pr \in Procedures /\ TypeInv'
      BY NextTyped DEF FilesInv, TypeInv, TypeOK, Procedures
<1>2. ASSUME pr' = pr, dir' = dir, session' = session PROVE Pushed'
      BY <1>1, <1>2 DEF Pushed, Target
<1>3. ASSUME NEW S \in Subclusters,
             \/ \E home \in Homes \cup {NoHome}, value \in Values : SetOptions(S, home, value)
             \/ LoadAll(S)
             \/ \E whole \in BOOLEAN : Refresh(S, whole)
      PROVE  Pushed'
  <2>1. pr'.written = {} /\ pr'.left = S /\ pr'.reach = S
        BY <1>3, FreshCall
  <2> QED
      BY <2>1 DEF Pushed
<1>4. ASSUME NEW n \in Nodes, Load(n) PROVE Pushed'
  <2>1. pr'.pc = "load"
        BY <1>1, <1>4 DEF Load, Procedures
  <2> QED
      BY <2>1 DEF Pushed
<1>5. ASSUME NextMember PROVE Pushed'
  <2>1. pr'.written = {} /\ pr'.left = pr'.reach
        BY <1>1, <1>5 DEF NextMember, Procedures, Shape
  <2> QED
      BY <2>1 DEF Pushed
<1>6. ASSUME NEW n \in Nodes, WriteOptions(n) PROVE Pushed'
  <2>1. pr.pc = "push" /\ n \in pr.left /\ Due(n) \in Dirs /\ session' = session
        BY <1>1, <1>6, WriteEffect DEF WriteOptions
  <2>2. CASE {n} \X {Target(pr.home), Default, session} \subseteq pr.written
             /\ pr' = [pr EXCEPT !.left = @ \ {n}] /\ dir' = dir
    <3>1. /\ pr'.left = pr.left \ {n} /\ pr'.reach = pr.reach /\ pr'.written = pr.written
          /\ pr'.home = pr.home /\ pr'.value = pr.value /\ pr'.pc = "push"
          BY <1>1, <2>1, <2>2 DEF Procedures
    <3> QED
        BY <1>1, <2>1, <2>2, <3>1 DEF Pushed, Target
  <2>3. CASE /\ pr' = [pr EXCEPT !.written = @ \cup {<<n, Due(n)>>}]
             /\ \A k \in Nodes, y \in Dirs : <<k, y>> # <<n, Due(n)>> => dir'[k][y] = dir[k][y]
             /\ IF Due(n) = Target(pr.home)
                THEN dir'[n][Due(n)].redirect = NoHome /\ dir'[n][Due(n)].value = pr.value
                ELSE dir'[n][Due(n)].redirect = pr.home
    <3> DEFINE d == Due(n)
    <3>1. /\ pr'.left = pr.left /\ pr'.reach = pr.reach /\ pr'.written = pr.written \cup {<<n, d>>}
          /\ pr'.home = pr.home /\ pr'.value = pr.value /\ pr'.pc = "push"
          BY <1>1, <2>1, <2>3 DEF Procedures
    <3>2. Target(pr.home)' = Target(pr.home)
          BY <2>1, <3>1 DEF Target
    <3> HIDE DEF d
    <3>3. ASSUME NEW k \in Nodes, NEW y \in Dirs, <<k, y>> \in pr'.written
          PROVE  IF y = Target(pr.home) THEN dir'[k][y].redirect = NoHome /\ dir'[k][y].value = pr.value
                 ELSE dir'[k][y].redirect = pr.home
      <4>1. CASE k = n /\ y = d
            BY <2>3, <4>1 DEF d
      <4>2. CASE <<k, y>> # <<n, d>>
        <5>1. <<k, y>> \in pr.written /\ dir'[k][y] = dir[k][y]
              BY <2>3, <3>1, <3>3, <4>2 DEF d
        <5> QED
            BY <1>1, <2>1, <5>1 DEF Pushed
      <4> QED
          BY <4>1, <4>2
    <3>4. \A k \in pr'.reach \ pr'.left : {k} \X {Target(pr.home), Default, session} \subseteq pr'.written
          BY <1>1, <2>1, <3>1 DEF Pushed
    <3> QED
        BY <2>1, <3>1, <3>2, <3>3, <3>4 DEF Pushed
  <2> QED
      BY <1>1, <1>6, <2>2, <2>3, WriteEffect
<1>7. ASSUME Finish \/ Return \/ Fail PROVE Pushed'
  <2>1. CASE Finish
        BY <1>1, <2>1 DEF Finish, Procedures, Pushed
  <2>2. CASE Return \/ Fail
    <3>1. pr'.pc = "idle"
          BY <2>2 DEF Return, Fail, NoProcedure
    <3> QED
        BY <3>1 DEF Pushed
  <2> QED
      BY <1>7, <2>1, <2>2
<1>8. ASSUME QueryStep PROVE Pushed'
      BY <1>1, <1>2, <1>8, QueryTyped DEF FilesInv
<1>9. CASE UNCHANGED vars
      BY <1>2, <1>9 DEF vars
<1>10. CASE Next
      BY <1>3, <1>4, <1>5, <1>6, <1>7, <1>8, <1>10 DEF Next, QueryStep
<1> QED
    BY <1>9, <1>10

\* The end of a call: what it has written is what the manifest says from now on.
LEMMA FinishApplied ==
    ASSUME FilesInv, Finish
    PROVE  Applied'
<1>1. TypeOK /\ Shape /\ Pushed /\ pr \in Procedures /\ pr.pc = "push" /\ pr.left = {} /\ TypeInv
      BY DEF FilesInv, TypeInv, TypeOK, Procedures, Finish
<1>2. /\ session' = session /\ dir' = dir /\ man' = Recorded /\ pr'.reach = pr.reach
      BY <1>1 DEF Finish, Procedures
<1>3. man'.home = pr.home /\ man'.value = pr.value /\ pr.home \in Homes \cup {NoHome}
      BY <1>1, <1>2, RecordedTyped DEF Procedures
<1>4. ASSUME NEW n \in pr.reach
      PROVE  /\ \A from \in {Default, session} : Hop(n, from)' = IF pr.home = NoHome THEN from ELSE pr.home
             /\ dir[n][Target(pr.home)].value = pr.value
  <2> DEFINE target == Target(pr.home)
  <2>1. n \in Nodes /\ {target, Default, session} \subseteq Dirs
        BY <1>1, <1>3, DirsTyped, OptionsConstants DEF Shape
  <2>2. \A x \in {target, Default, session} : <<n, x>> \in pr.written
        BY <1>1, <1>4 DEF Pushed
  <2>3. /\ dir[n][target].value = pr.value /\ dir[n][target].redirect = NoHome
        /\ \A from \in {Default, session} : from # target => dir[n][from].redirect = pr.home
        BY <1>1, <2>1, <2>2 DEF Pushed
  <2>4. target = (IF pr.home = NoHome THEN session ELSE pr.home) /\ NoHome \notin Dirs
        BY <1>1, DirsTyped DEF Target
  <2> HIDE DEF target
  <2>5. ASSUME NEW from \in {Default, session}
        PROVE  Hop(n, from)' = IF pr.home = NoHome THEN from ELSE pr.home
        BY <1>2, <2>1, <2>3, <2>4, <2>5 DEF Hop
  <2> QED
      BY <2>3, <2>5 DEF target
<1>5. \A n \in pr.reach : Target(man.home)' = Target(pr.home)
      BY <1>2, <1>3 DEF Target
<1> QED
    BY <1>2, <1>3, <1>4, <1>5 DEF Applied, Target

LEMMA AppliedStep ==
    ASSUME FilesInv, [Next]_vars
    PROVE  Applied'
<1>1. TypeOK /\ Shape /\ Applied /\ pr \in Procedures
      BY DEF FilesInv, TypeInv, TypeOK, Procedures
<1>2. ASSUME pr' = pr, dir' = dir, session' = session, man' = man PROVE Applied'
      BY <1>1, <1>2 DEF Applied, Target, Hop
<1>3. ASSUME NEW S \in Subclusters,
             \/ \E home \in Homes \cup {NoHome}, value \in Values : SetOptions(S, home, value)
             \/ LoadAll(S)
             \/ \E whole \in BOOLEAN : Refresh(S, whole)
      PROVE  Applied'
  <2>1. pr'.pc # "ended"
        BY <1>3, FreshCall
  <2> QED
      BY <2>1 DEF Applied
<1>4. ASSUME NEW n \in Nodes, Load(n) \/ WriteOptions(n) PROVE Applied'
  <2>1. pr'.pc # "ended"
        BY <1>1, <1>4, WriteEffect DEF Load, Procedures
  <2> QED
      BY <2>1 DEF Applied
<1>5. ASSUME NextMember \/ Return \/ Fail PROVE Applied'
  <2>1. CASE NextMember
    <3>1. pr'.pc \in {"load", "push"}
          BY <1>1, <2>1 DEF NextMember, Procedures
    <3> QED
        BY <3>1 DEF Applied
  <2>2. CASE Return \/ Fail
    <3>1. pr'.pc = "idle"
          BY <2>2 DEF Return, Fail, NoProcedure
    <3> QED
        BY <3>1 DEF Applied
  <2> QED
      BY <1>5, <2>1, <2>2
<1>6. ASSUME QueryStep PROVE Applied'
      BY <1>1, <1>2, <1>6, QueryTyped DEF FilesInv
<1>7. CASE UNCHANGED vars
      BY <1>2, <1>7 DEF vars
<1>8. CASE Next
      BY <1>3, <1>4, <1>5, <1>6, <1>8, FinishApplied DEF Next, QueryStep
<1> QED
    BY <1>7, <1>8

LEMMA FilesStep == FilesInv /\ [Next]_vars => FilesInv'
BY NextTyped, PushedStep, AppliedStep DEF FilesInv

LEMMA FilesInit == Init => FilesInv
<1> SUFFICES ASSUME Init PROVE FilesInv
    OBVIOUS
<1>1. pr.pc = "idle"
      BY DEF Init, NoProcedure
<1> QED
    BY <1>1, InitTyped DEF FilesInv, Pushed, Applied
------------------------------------------------------------------------------
(* What the directories hold, when every statement reaches every node.     *)

\* A directory answers what the views ask for since sid w, or a reload left it behind.
Holds(n, x, w) == Opened(n, x) >= w \/ <<n, x>> \in behind

\* The directory of the index and the one a session is led to hold the active snapshot on every node, and so does the
\* directory a call has loaded to the end.
Loaded ==
    /\ \A n \in Nodes : Holds(n, Target(man.home), man.active) /\ Holds(n, Hop(n, session), man.active)
    /\ pr.pc \in {"load", "push"} => \A n \in Nodes :
          /\ pr.todo = <<>> => Holds(n, Target(pr.home), man.active)
          /\ Len(pr.todo) = 1 /\ (pr.pc = "push" \/ n \notin pr.left) =>
                Opened(n, Target(pr.home)) >= pr.todo[1].sid

\* A query between OPTIONS and ACTIVE is at a directory that answers it.
Asked ==
    query # NoQuery =>
        /\ query.want <= man.active
        /\ IF query.pc = "options" THEN query.dir = session ELSE Holds(query.node, query.dir, query.want)

EveryNode == \A S \in Subclusters : S = Nodes

ServeInv == FilesInv /\ Loaded /\ Asked

\* ACTIVE names a file that is there, so the snapshot found is the one it names.
FoundIsActive ==
    \A n \in Nodes, x \in Dirs : Opened(n, x) = dir[n][x].active /\ Opened(n, x) \in 0 .. MaxSid

LEMMA OpenedActive == TypeOK => FoundIsActive
<1> SUFFICES ASSUME TypeOK, NEW n \in Nodes, NEW x \in Dirs
             PROVE  Opened(n, x) = dir[n][x].active /\ Opened(n, x) \in 0 .. MaxSid
    BY DEF FoundIsActive
<1>1. dir[n][x] \in Copies /\ (dir[n][x].active # 0 => dir[n][x].active \in dir[n][x].files)
      BY DirsTyped DEF TypeOK
<1>2. dir[n][x].active \in 0 .. MaxSid
      BY <1>1 DEF Copies
<1>3. Opened(n, x) = dir[n][x].active
      BY <1>1 DEF Opened
<1> QED
    BY <1>2, <1>3

LEMMA OpenedActiveNext == TypeOK' => FoundIsActive'
BY OpenedActive, PTL

\* No step takes from a directory what a query may have been promised: a load of the last member leaves the active
\* snapshot or a newer one, a load of an older member is noted in behind, and no other step touches a snapshot.
LEMMA HoldsKept ==
    ASSUME TypeInv, [Next]_vars, NEW n \in Nodes, NEW x \in Dirs, NEW w \in Nat, w <= man.active, Holds(n, x, w)
    PROVE  Holds(n, x, w)'
<1>1. TypeOK /\ Shape /\ pr \in Procedures /\ man \in Rows /\ TypeOK'
      BY NextTyped DEF TypeInv, TypeOK, Procedures, Rows
<1>2. /\ Opened(n, x) = dir[n][x].active /\ Opened(n, x) \in 0 .. MaxSid
      /\ Opened(n, x)' = dir'[n][x].active /\ Opened(n, x)' \in 0 .. MaxSid
      BY <1>1, OpenedActive, OpenedActiveNext DEF FoundIsActive
<1>3. ASSUME dir' = dir, behind' = behind PROVE Holds(n, x, w)'
      BY <1>3 DEF Holds, Opened
<1>4. ASSUME NEW k \in Nodes, Load(k) PROVE Holds(n, x, w)'
  <2> DEFINE y == Target(pr.home)
             m == pr.todo[1]
  <2>1. pr.pc = "load" /\ pr.todo # <<>>
        BY <1>1, <1>4 DEF Load, Shape
  <2>2. /\ y \in Dirs /\ m \in Members /\ Len(pr.todo) \in Nat \ {0}
        /\ \A i \in Nodes, z \in Dirs : <<i, z>> # <<k, y>> => dir'[i][z] = dir[i][z]
        /\ dir'[k][y].active = m.sid
        BY <1>1, <1>4, <2>1, LoadEffect
  <2>3. behind' = IF Len(pr.todo) > 1 THEN behind \cup {<<k, y>>} ELSE behind \ {<<k, y>>}
        BY <1>1, <1>4, DirsTyped DEF Load, Procedures
  <2>4. Len(pr.todo) > 1 \/ Len(pr.todo) = 1
    <3>1. \A i \in Nat \ {0} : i > 1 \/ i = 1
          OBVIOUS
    <3> QED
        BY <2>2, <3>1, Zenon
  <2>5. Len(pr.todo) = 1 => m.sid >= man.active
    <3>1. pr.kind \in {"set", "move", "load_all", "refresh"}
          BY <1>1, <2>1 DEF Shape, Procedures
    <3>2. pr.kind = "refresh" => m.sid = lastSid
          BY <1>1, <2>1 DEF Shape
    <3>3. pr.kind # "refresh" => pr.todo[Len(pr.todo)].sid = man.active
          BY <1>1, <2>1 DEF Shape
    <3>4. man.active \in Nat /\ man.active <= lastSid
          BY <1>1, OptionsConstants DEF Shape, Rows
    <3> QED
        BY <3>2, <3>3, <3>4
  <2>6. m.sid \in Nat /\ man.active \in Nat
        BY <1>1, <2>2, OptionsConstants DEF Members, Sids, Rows
  <2> HIDE DEF y, m
  <2>7. CASE n = k /\ x = y /\ Len(pr.todo) > 1
        BY <2>3, <2>7 DEF Holds
  <2>8. CASE n = k /\ x = y /\ Len(pr.todo) = 1
        BY <1>2, <2>2, <2>5, <2>6, <2>8 DEF Holds
  <2>9. CASE <<n, x>> # <<k, y>>
    <3>1. dir'[n][x] = dir[n][x] /\ (<<n, x>> \in behind => <<n, x>> \in behind')
          BY <2>2, <2>3, <2>9
    <3> QED
        BY <1>2, <3>1 DEF Holds
  <2> QED
      BY <2>4, <2>7, <2>8, <2>9
<1>5. ASSUME NEW k \in Nodes, WriteOptions(k) PROVE Holds(n, x, w)'
  <2>1. behind' = behind
        BY <1>5 DEF WriteOptions
  <2>2. dir'[n][x].active = dir[n][x].active
        BY <1>1, <1>5, WriteEffect
  <2> QED
      BY <1>2, <2>1, <2>2 DEF Holds
<1>6. CASE UNCHANGED vars
      BY <1>3, <1>6 DEF vars
<1>7. ASSUME NEW S \in Subclusters,
             \/ \E home \in Homes \cup {NoHome}, value \in Values : SetOptions(S, home, value)
             \/ LoadAll(S)
             \/ \E whole \in BOOLEAN : Refresh(S, whole)
      PROVE  Holds(n, x, w)'
      BY <1>3, <1>7, FreshCall
<1>8. ASSUME NextMember \/ Finish \/ Return \/ Fail PROVE Holds(n, x, w)'
      BY <1>3, <1>8 DEF NextMember, Finish, Return, Fail
<1>9. ASSUME QueryStep PROVE Holds(n, x, w)'
      BY <1>3, <1>9, QueryTyped
<1>10. CASE Next
      BY <1>4, <1>5, <1>7, <1>8, <1>9, <1>10 DEF Next, QueryStep
<1> QED
    BY <1>6, <1>10
LEMMA ActiveKept ==
    ASSUME TypeInv, [Next]_vars, man'.active = man.active, NEW n \in Nodes, NEW x \in Dirs, Holds(n, x, man.active)
    PROVE  Holds(n, x, man.active)'
<1>1. man.active \in Nat
      BY OptionsConstants DEF TypeInv, TypeOK
<1>2. PICK w \in Nat : w = man.active
      BY <1>1
<1>3. Holds(n, x, w)' /\ man'.active = w
      BY <1>2, HoldsKept DEF Holds
<1> QED
    BY <1>3 DEF Holds

\* A call about to write the OPTIONS files has the active snapshot in the directory they will name.
LEMMA TargetHolds ==
    ASSUME ServeInv, pr.pc = "push", NEW n \in Nodes
    PROVE  Holds(n, Target(pr.home), man.active)
<1>1. TypeOK /\ Shape /\ Loaded /\ pr \in Procedures /\ man \in Rows
      BY DEF ServeInv, FilesInv, TypeInv, TypeOK, Procedures, Rows
<1>2. pr.todo \in Seq(Members) /\ Target(pr.home) \in Dirs /\ man.active \in Nat
      BY <1>1, DirsTyped, OptionsConstants DEF Procedures, Rows
<1>3. CASE pr.todo = <<>>
      BY <1>1, <1>3 DEF Loaded
<1>4. CASE pr.todo # <<>>
  <2>1. Len(pr.todo) = 1
        BY <1>1, <1>2, <1>4, EmptySeq DEF Shape
  <2>2. Opened(n, Target(pr.home)) >= pr.todo[1].sid
        BY <1>1, <2>1 DEF Loaded
  <2>3. pr.todo[1].sid = man.active \/ (pr.todo[1].sid = lastSid /\ man.active < lastSid)
        BY <1>1, <1>4, <2>1 DEF Shape, Procedures
  <2>4. Opened(n, Target(pr.home)) \in Nat /\ lastSid \in Nat
        BY <1>1, <1>2, OpenedActive, OptionsConstants DEF TypeOK, FoundIsActive
  <2> QED
      BY <1>2, <2>2, <2>3, <2>4 DEF Holds
<1> QED
    BY <1>3, <1>4

\* The row, the procedure and the session as a step that ends no call leaves them.
LEMMA BeginLoaded ==
    ASSUME ServeInv, EveryNode, NEW S \in Subclusters,
           \/ \E home \in Homes \cup {NoHome}, value \in Values : SetOptions(S, home, value)
           \/ LoadAll(S)
           \/ \E whole \in BOOLEAN : Refresh(S, whole)
    PROVE  Loaded'
<1>1. TypeOK /\ Shape /\ Loaded /\ man \in Rows /\ <<>> \in Seq(Members) /\ TypeInv
      BY SMTT(20) DEF ServeInv, FilesInv, TypeInv, TypeOK, Procedures, Rows
<1>2. /\ session' = session /\ dir' = dir /\ behind' = behind /\ pr'.left = Nodes
      /\ \A n \in Nodes, x \in Dirs : Opened(n, x)' = Opened(n, x) /\ Hop(n, x)' = Hop(n, x)
                                     /\ Opened(n, x) \in Nat
      BY <1>1, FreshCall, OpenedActive, OptionsConstants DEF EveryNode, Opened, Hop, FoundIsActive
<1>3. ASSUME man' = man, pr'.pc = "load", pr'.todo # <<>> PROVE Loaded'
      BY <1>1, <1>2, <1>3 DEF Loaded, Holds, Target, Opened, Hop
<1>4. ASSUME man'.active = man.active, pr'.todo = <<>>, pr'.home = man'.home, man'.home \in Homes \cup {NoHome},
             man.active = 0 \/ man'.home = man.home
      PROVE  Loaded'
  <2>1. Len(pr'.todo) # 1
        BY <1>4
  <2>2. \A home \in Homes \cup {NoHome} : Target(home) \in Dirs /\ Target(home)' = Target(home)
        BY <1>1, <1>2, DirsTyped DEF Target
  <2>3. ASSUME NEW n \in Nodes PROVE Holds(n, Target(man.home), man.active)'
    <3>1. CASE man.active = 0
          BY <1>2, <1>4, <2>2, <3>1 DEF Holds, Opened, Target
    <3>2. CASE man'.home = man.home
          BY <1>1, <1>2, <1>4, <3>2 DEF Holds, Opened, Target, Loaded
    <3> QED
        BY <1>4, <3>1, <3>2
  <2>4. ASSUME NEW n \in Nodes PROVE Holds(n, Hop(n, session), man.active)'
        BY <1>1, <1>2, <1>4 DEF Holds, Opened, Hop, Loaded
  <2>5. \A n \in Nodes : Holds(n, Target(pr.home), man.active)'
        BY <1>4, <2>3
  <2> QED
      BY <2>1, <2>3, <2>4, <2>5 DEF Loaded
<1>5. ASSUME NEW home \in Homes \cup {NoHome}, NEW value \in Values, SetOptions(S, home, value) PROVE Loaded'
  <2>1. CASE home # man.home /\ man.active # 0 /\ Begin(S, "move", home, value, man.chain) /\ UNCHANGED man
    <3>1. man.chain # <<>>
          BY <1>1, <2>1 DEF Shape
    <3>2. pr'.pc = "load" /\ pr'.todo # <<>>
          BY <2>1, <3>1 DEF Begin
    <3> QED
        BY <1>3, <2>1, <3>2
  <2>2. CASE /\ home = man.home \/ man.active = 0
             /\ Begin(S, "set", home, value, <<>>)
             /\ man' = [man EXCEPT !.home = home, !.value = value]
    <3>1. pr'.todo = <<>> /\ pr'.home = home
          BY <2>2 DEF Begin
    <3>2. man'.active = man.active /\ man'.home = home
          BY <1>1, <2>2 DEF Rows
    <3> QED
        BY <1>4, <2>2, <3>1, <3>2
  <2> QED
      BY <1>5, <2>1, <2>2 DEF SetOptions
<1>6. ASSUME LoadAll(S) PROVE Loaded'
  <2>1. man' = man /\ \E todo \in {man.chain, <<>>} : Begin(S, "load_all", man.home, man.value, todo)
        BY <1>6 DEF LoadAll
  <2>2. pr'.home = man.home /\ ((pr'.pc = "load" /\ pr'.todo # <<>>) \/ pr'.todo = <<>>)
        BY <2>1 DEF Begin
  <2> QED
      BY <1>1, <1>3, <1>4, <2>1, <2>2 DEF Rows
<1>7. ASSUME NEW whole \in BOOLEAN, Refresh(S, whole) PROVE Loaded'
  <2> DEFINE todo == <<[sid |-> lastSid + 1, base |-> IF whole THEN 0 ELSE man.active]>>
  <2>1. man' = man /\ Begin(S, "refresh", man.home, man.value, todo)
        BY <1>7 DEF Refresh
  <2>2. todo # <<>>
        OBVIOUS
  <2> HIDE DEF todo
  <2>3. pr'.pc = "load" /\ pr'.todo # <<>>
        BY <2>1, <2>2 DEF Begin
  <2> QED
      BY <1>3, <2>1, <2>3
<1> QED
    BY <1>5, <1>6, <1>7

LEMMA LoadedLoad ==
    ASSUME ServeInv, [Next]_vars, NEW k \in Nodes, Load(k)
    PROVE  Loaded'
<1>1. TypeOK /\ Shape /\ Loaded /\ pr \in Procedures /\ man \in Rows /\ TypeInv /\ TypeOK'
      BY NextTyped DEF ServeInv, FilesInv, TypeInv, TypeOK, Procedures, Rows
<1>2. pr.pc = "load" /\ pr.todo # <<>> /\ man.active \in Nat /\ pr.home \in Homes \cup {NoHome}
      BY <1>1, OptionsConstants DEF Load, Shape, Rows, Procedures
<1>3. session' = session /\ man' = man /\ pr' = [pr EXCEPT !.left = @ \ {k}]
      BY DEF Load
<1>4. pr'.left = pr.left \ {k} /\ pr'.todo = pr.todo /\ pr'.home = pr.home /\ pr'.pc = "load"
      BY <1>1, <1>2, <1>3 DEF Procedures
<1> DEFINE y == Target(pr.home)
           m == pr.todo[1]
<1>5. /\ y \in Dirs /\ m \in Members
      /\ \A i \in Nodes, z \in Dirs : <<i, z>> # <<k, y>> => dir'[i][z] = dir[i][z]
      /\ dir'[k][y].active = m.sid /\ dir'[k][y].redirect = dir[k][y].redirect
      BY <1>1, <1>2, LoadEffect
<1>6. /\ session \in Dirs /\ Target(man.home) \in Dirs /\ Target(man.home)' = Target(man.home)
      /\ Target(pr.home)' = y
      BY <1>1, <1>3, <1>4, DirsTyped DEF Rows, Target
<1> HIDE DEF y, m
<1>7. \A n \in Nodes : Hop(n, session)' = Hop(n, session) /\ Hop(n, session) \in Dirs
  <2> TAKE n \in Nodes
  <2>1. dir'[n][session].redirect = dir[n][session].redirect
        BY <1>5, <1>6
  <2> QED
      BY <1>1, <1>3, <1>6, <2>1, DirsTyped DEF Hop
<1>8. ASSUME NEW n \in Nodes, NEW x \in Dirs, Holds(n, x, man.active) PROVE Holds(n, x, man.active)'
      BY <1>1, <1>3, <1>8, ActiveKept
<1>9. \A n \in Nodes : Holds(n, Target(man.home), man.active)' /\ Holds(n, Hop(n, session), man.active)'
  <2> TAKE n \in Nodes
  <2>1. Holds(n, Target(man.home), man.active) /\ Holds(n, Hop(n, session), man.active)
        BY <1>1 DEF Loaded
  <2>2. Holds(n, Target(man.home), man.active)'
        BY <1>6, <1>8, <2>1 DEF Holds
  <2>3. Holds(n, Hop(n, session), man.active)'
        BY <1>7, <1>8, <2>1 DEF Holds
  <2> QED
      BY <2>2, <2>3
<1>10. ASSUME NEW n \in Nodes, Len(pr.todo) = 1, n \notin pr'.left
       PROVE  Opened(n, Target(pr.home))' >= m.sid
  <2>1. PICK x \in Dirs : x = y
        BY <1>5
  <2>2. Opened(n, x)' = dir'[n][x].active /\ Opened(n, x) = dir[n][x].active
        BY <1>1, OpenedActive, OpenedActiveNext DEF FoundIsActive
  <2>3. m.sid \in Nat
        BY <1>5, OptionsConstants DEF Members, Sids
  <2>4. Opened(n, x)' >= m.sid
    <3>1. CASE n = k
          BY <1>5, <2>1, <2>2, <2>3, <3>1
    <3>2. CASE n # k
      <4>1. Opened(n, y) >= m.sid /\ dir'[n][x] = dir[n][x]
            BY <1>1, <1>2, <1>4, <1>5, <1>10, <2>1, <3>2 DEF Loaded, y, m
      <4> QED
          BY <2>1, <2>2, <4>1
    <3> QED
        BY <3>1, <3>2
  <2> QED
      BY <1>6, <2>1, <2>4 DEF Opened
<1> QED
    BY <1>2, <1>4, <1>9, <1>10 DEF Loaded, m
LEMMA LoadedNextMember ==
    ASSUME ServeInv, EveryNode, [Next]_vars, NextMember
    PROVE  Loaded'
<1>1. TypeOK /\ Shape /\ Loaded /\ pr \in Procedures /\ pr.pc = "load" /\ pr.left = {} /\ pr.todo # <<>>
      BY DEF ServeInv, FilesInv, TypeInv, TypeOK, Procedures, NextMember, Shape
<1>2. UNCHANGED <<session, man, dir, behind>> /\ pr.reach = Nodes
      BY <1>1 DEF NextMember, Shape, EveryNode
<1>3. \A n \in Nodes : Holds(n, Target(man.home), man.active)' /\ Holds(n, Hop(n, session), man.active)'
      BY <1>1, <1>2 DEF Loaded, Holds, Target, Opened, Hop
<1>4. CASE Len(pr.todo) > 1
  <2>1. pr' = [pr EXCEPT !.todo = Tail(@), !.left = pr.reach]
        BY <1>4 DEF NextMember
  <2>2. pr'.pc = "load" /\ pr'.left = Nodes /\ pr'.todo = Tail(pr.todo)
        BY <1>1, <1>2, <2>1 DEF Procedures
  <2>3. Tail(pr.todo) # <<>>
    <3>1. pr.todo \in Seq(Members)
          BY <1>1 DEF Procedures
    <3>2. Len(Tail(pr.todo)) = Len(pr.todo) - 1 /\ Len(pr.todo) \in Nat
          BY <1>1, <3>1, HeadTailProperties, LenProperties
    <3>3. PICK l \in Nat : l = Len(pr.todo)
          BY <3>2
    <3>4. l > 1 /\ Len(Tail(pr.todo)) = l - 1
          BY <1>4, <3>2, <3>3, Zenon
    <3>5. l - 1 # 0
          BY <3>4
    <3> QED
        BY <3>4, <3>5
  <2> QED
      BY <1>3, <2>2, <2>3 DEF Loaded
<1>5. CASE ~(Len(pr.todo) > 1)
  <2>1. pr' = [pr EXCEPT !.pc = "push", !.left = pr.reach]
        BY <1>5 DEF NextMember
  <2>2. pr'.pc = "push" /\ pr'.todo = pr.todo /\ pr'.home = pr.home
        BY <1>1, <2>1 DEF Procedures
  <2>3. \A n \in Nodes : Len(pr.todo) = 1 => Opened(n, Target(pr.home)) >= pr.todo[1].sid
        BY <1>1 DEF Loaded
  <2>4. \A n \in Nodes : Len(pr'.todo) = 1 => Opened(n, Target(pr.home))' >= pr'.todo[1].sid
        BY <1>2, <2>2, <2>3 DEF Opened, Target
  <2> QED
      BY <1>1, <1>3, <2>2, <2>4 DEF Loaded
<1> QED
    BY <1>4, <1>5

LEMMA LoadedWrite ==
    ASSUME ServeInv, [Next]_vars, NEW k \in Nodes, WriteOptions(k)
    PROVE  Loaded'
<1>1. TypeOK /\ Shape /\ Loaded /\ pr \in Procedures /\ man \in Rows /\ TypeInv /\ TypeOK' /\ pr.pc = "push"
      BY NextTyped DEF ServeInv, FilesInv, TypeInv, TypeOK, Procedures, Rows, WriteOptions
<1>2. UNCHANGED <<session, man, behind>>
      BY DEF WriteOptions
<1>3. pr'.todo = pr.todo /\ pr'.home = pr.home /\ pr'.pc = "push" /\ pr.home \in Homes \cup {NoHome}
  <2>1. CASE pr' = [pr EXCEPT !.left = @ \ {k}]
        BY <1>1, <2>1 DEF Procedures
  <2>2. CASE pr' = [pr EXCEPT !.written = @ \cup {<<k, Due(k)>>}]
        BY <1>1, <2>2 DEF Procedures
  <2> QED
      BY <1>1, <2>1, <2>2, WriteEffect
<1>4. /\ session \in Dirs /\ Target(man.home) \in Dirs /\ Target(pr.home) \in Dirs
      /\ Target(man.home)' = Target(man.home) /\ Target(pr.home)' = Target(pr.home)
      BY <1>1, <1>2, <1>3, DirsTyped DEF Rows, Target
<1>5. ASSUME NEW n \in Nodes, NEW x \in Dirs PROVE Opened(n, x)' = Opened(n, x)
  <2>1. dir'[n][x].active = dir[n][x].active /\ dir'[n][x].files = dir[n][x].files
        BY <1>1, WriteEffect
  <2> QED
      BY <2>1 DEF Opened
<1>6. ASSUME NEW n \in Nodes, NEW x \in Dirs, Holds(n, x, man.active) PROVE Holds(n, x, man.active)'
      BY <1>1, <1>2, <1>6, ActiveKept
<1>7. ASSUME NEW n \in Nodes PROVE Holds(n, Target(man.home), man.active)'
  <2>1. PICK x \in Dirs : x = Target(man.home)
        BY <1>4
  <2>2. Holds(n, x, man.active)'
        BY <1>1, <1>6, <2>1 DEF Loaded
  <2> QED
      BY <1>4, <2>1, <2>2 DEF Holds, Opened
<1>8. ASSUME NEW n \in Nodes PROVE Holds(n, Target(pr.home), man.active)'
  <2>1. PICK x \in Dirs : x = Target(pr.home)
        BY <1>4
  <2>2. Holds(n, x, man.active)'
        BY <1>1, <1>6, <2>1, TargetHolds
  <2> QED
      BY <1>4, <2>1, <2>2 DEF Holds, Opened
<1>9. ASSUME NEW n \in Nodes PROVE Hop(n, session)' \in {Hop(n, session), Target(pr.home)}
  <2>1. CASE dir'[n][session].redirect = dir[n][session].redirect
        BY <1>2, <2>1 DEF Hop
  <2>2. CASE dir'[n][session].redirect # dir[n][session].redirect
    <3>1. n = k /\ session = Due(k)
          BY <1>1, <1>4, <2>2, WriteEffect
    <3>2. IF session = Target(pr.home) THEN dir'[n][session].redirect = NoHome
          ELSE dir'[n][session].redirect = pr.home
          BY <1>1, <2>2, <3>1, WriteEffect
    <3>3. session # Target(pr.home) => pr.home = Target(pr.home) /\ pr.home # NoHome
          BY DEF Target
    <3> QED
        BY <1>1, <1>2, <3>2, <3>3 DEF Hop
  <2> QED
      BY <2>1, <2>2
<1>10. ASSUME NEW n \in Nodes PROVE Holds(n, Hop(n, session), man.active)'
  <2>1. CASE Hop(n, session)' = Hop(n, session)
    <3>1. PICK x \in Dirs : x = Hop(n, session)
          BY <1>1, <1>4, DirsTyped
    <3>2. Holds(n, x, man.active)'
          BY <1>1, <1>6, <3>1 DEF Loaded
    <3> QED
        BY <2>1, <3>1, <3>2 DEF Holds, Opened
  <2>2. CASE Hop(n, session)' = Target(pr.home)
        BY <1>4, <1>8, <2>2 DEF Holds, Opened
  <2> QED
      BY <1>9, <2>1, <2>2
<1>11. ASSUME NEW n \in Nodes, Len(pr.todo) = 1 PROVE Opened(n, Target(pr.home))' >= pr.todo[1].sid
  <2>1. PICK x \in Dirs : x = Target(pr.home)
        BY <1>4
  <2>2. Opened(n, x)' = Opened(n, x) /\ Opened(n, x) >= pr.todo[1].sid
        BY <1>1, <1>5, <1>11, <2>1 DEF Loaded
  <2> QED
      BY <1>4, <2>1, <2>2 DEF Opened
<1> QED
    BY <1>3, <1>7, <1>8, <1>10, <1>11 DEF Loaded

LEMMA LoadedFinish ==
    ASSUME ServeInv, EveryNode, [Next]_vars, Finish
    PROVE  Loaded'
<1>1. TypeOK /\ Shape /\ Loaded /\ pr \in Procedures /\ man \in Rows /\ TypeInv /\ FilesInv /\ pr.pc = "push"
      BY DEF ServeInv, FilesInv, TypeInv, TypeOK, Procedures, Rows, Finish
<1>2. UNCHANGED <<session, dir, behind>> /\ man' = Recorded /\ pr'.pc = "ended" /\ pr'.reach = Nodes
      BY <1>1 DEF Finish, Procedures, Shape, EveryNode
<1>3. man'.home = pr.home /\ man'.active = IF pr.kind = "refresh" THEN pr.todo[1].sid ELSE man.active
      BY <1>1, <1>2, RecordedTyped
<1>4. Target(man.home)' = Target(pr.home)
      BY <1>2, <1>3 DEF Target
<1>5. ASSUME NEW n \in Nodes PROVE Holds(n, Target(pr.home), man'.active)
  <2>1. CASE pr.kind = "refresh"
    <3>1. Len(pr.todo) = 1
          BY <1>1, <2>1 DEF Shape
    <3>2. Opened(n, Target(pr.home)) >= man'.active
          BY <1>1, <1>3, <2>1, <3>1 DEF Loaded
    <3> QED
        BY <3>2 DEF Holds
  <2>2. CASE pr.kind # "refresh"
        BY <1>1, <1>3, <2>2, TargetHolds
  <2> QED
      BY <2>1, <2>2
<1>6. ASSUME NEW n \in Nodes PROVE Holds(n, Target(man.home), man.active)'
      BY <1>2, <1>4, <1>5 DEF Holds, Opened
<1>7. ASSUME NEW n \in Nodes PROVE Hop(n, session)' = Target(man.home)'
  <2>1. Applied'
        BY <1>1, FinishApplied
  <2> QED
      BY <1>2, <2>1 DEF Applied, Target
<1>8. ASSUME NEW n \in Nodes PROVE Holds(n, Hop(n, session), man.active)'
      BY <1>6, <1>7 DEF Holds, Opened
<1> QED
    BY <1>2, <1>6, <1>8 DEF Loaded

LEMMA LoadedStep ==
    ASSUME ServeInv, EveryNode, [Next]_vars
    PROVE  Loaded'
<1>1. TypeInv /\ Loaded
      BY DEF ServeInv, FilesInv
<1>2. ASSUME session' = session, dir' = dir, behind' = behind, man' = man, pr' = pr \/ pr'.pc = "idle" PROVE Loaded'
      BY <1>1, <1>2 DEF Loaded, Holds, Target, Opened, Hop
<1>3. ASSUME QueryStep PROVE Loaded'
      BY <1>1, <1>2, <1>3, QueryTyped
<1>4. ASSUME Return \/ Fail PROVE Loaded'
      BY <1>2, <1>4 DEF Return, Fail, NoProcedure
<1>5. CASE UNCHANGED vars
      BY <1>2, <1>5 DEF vars
<1>6. CASE Next
      BY <1>3, <1>4, <1>6, BeginLoaded, LoadedLoad, LoadedNextMember, LoadedWrite, LoadedFinish
         DEF Next, QueryStep
<1> QED
    BY <1>5, <1>6
------------------------------------------------------------------------------
(* Queries.                                                                *)

LEMMA AskedStep ==
    ASSUME ServeInv, [Next]_vars
    PROVE  Asked'
<1>1. TypeOK /\ Shape /\ Loaded /\ Asked /\ TypeInv /\ man \in Rows /\ lastSid \in Nat /\ man.active \in Nat
      BY SMTT(20), OptionsConstants DEF ServeInv, FilesInv, TypeInv, TypeOK, Rows
<1>2. query # NoQuery => query \in Queries
      BY <1>1 DEF TypeOK, Queries
<1>3. ASSUME query' = query, session' = session, man'.active >= man.active, man'.active \in Nat PROVE Asked'
  <2> SUFFICES ASSUME query # NoQuery
               PROVE  query.want <= man'.active
                      /\ IF query.pc = "options" THEN query.dir = session
                         ELSE Holds(query.node, query.dir, query.want)'
      BY <1>3 DEF Asked, Holds, Opened
  <2>1. query \in Queries /\ query.want <= man.active
        BY <1>1, <1>2 DEF Asked
  <2>2. PICK n \in Nodes, x \in Dirs, w \in Nat : n = query.node /\ x = query.dir /\ w = query.want
        BY <2>1, OptionsConstants DEF Queries
  <2>3. CASE query.pc = "options"
        BY <1>1, <1>3, <2>1, <2>2, <2>3 DEF Asked
  <2>4. CASE query.pc # "options"
    <3>1. Holds(n, x, w)'
          BY <1>1, <2>1, <2>2, <2>4, HoldsKept DEF Asked
    <3>2. Holds(query.node, query.dir, query.want)'
          BY <1>3, <2>2, <3>1 DEF Holds, Opened
    <3> QED
        BY <1>1, <1>3, <2>1, <2>2, <2>4, <3>2
  <2> QED
      BY <2>3, <2>4
<1>4. ASSUME QueryStep PROVE Asked'
  <2>1. UNCHANGED <<session, man, dir, want, behind>>
        BY <1>1, <1>4, QueryTyped
  <2>2. ASSUME NEW n \in Nodes, Plan(n) PROVE Asked'
    <3>1. query'.want = man.active /\ query'.pc = "options" /\ query'.dir = session
          BY <1>1, <2>2 DEF Plan, Shape
    <3> QED
        BY <1>1, <2>1, <3>1 DEF Asked
  <2>3. ASSUME ReadOptions PROVE Asked'
    <3>1. query \in Queries /\ query.pc = "options" /\ query # NoQuery
          BY <1>2, <2>3 DEF ReadOptions, NoQuery
    <3>2. query.dir = session /\ query.want <= man.active /\ query.node \in Nodes /\ query.want \in Nat
          BY <1>1, <3>1, OptionsConstants DEF Asked, Queries
    <3>3. /\ query'.pc # "options" /\ query'.node = query.node /\ query'.want = query.want
          /\ query'.dir = Hop(query.node, session)
          BY <2>3, <3>1, <3>2 DEF ReadOptions, Queries
    <3>4. Holds(query.node, Hop(query.node, session), man.active)
          BY <1>1, <3>2 DEF Loaded
    <3>5. Opened(query.node, Hop(query.node, session)) \in Nat
      <4>1. session \in Dirs /\ Hop(query.node, session) \in Dirs
            BY <1>1, <3>2, DirsTyped
      <4> QED
          BY <1>1, <3>2, <4>1, OpenedActive, OptionsConstants DEF FoundIsActive
    <3>6. Holds(query.node, Hop(query.node, session), query.want)
          BY <1>1, <3>2, <3>4, <3>5 DEF Holds
    <3> QED
        BY <2>1, <3>2, <3>3, <3>6 DEF Asked, Holds, Opened
  <2>4. ASSUME ReadHome PROVE Asked'
    <3>1. query \in Queries /\ query.pc = "home" /\ query # NoQuery
          BY <1>2, <2>4 DEF ReadHome, NoQuery
    <3>2. /\ query'.pc # "options" /\ query'.node = query.node /\ query'.want = query.want
          /\ query'.dir = query.dir
          BY <2>4, <3>1 DEF ReadHome, Queries
    <3> QED
        BY <1>1, <2>1, <3>1, <3>2 DEF Asked, Holds, Opened
  <2> QED
      BY <1>4, <2>2, <2>3, <2>4 DEF QueryStep, OpenActive, Asked
<1>5. ASSUME Finish PROVE Asked'
  <2>1. man' = Recorded /\ UNCHANGED <<query, session>> /\ pr.pc = "push"
        BY <1>5 DEF Finish
  <2>2. man'.active \in 0 .. MaxSid /\ man'.active >= man.active
        BY <1>1, <2>1, RecordedTyped DEF Rows
  <2> QED
      BY <1>3, <2>1, <2>2, OptionsConstants
<1>6. ASSUME NEW S \in Subclusters,
             \/ \E home \in Homes \cup {NoHome}, value \in Values : SetOptions(S, home, value)
             \/ LoadAll(S)
             \/ \E whole \in BOOLEAN : Refresh(S, whole)
      PROVE  Asked'
  <2>1. query' = query /\ session' = session
        BY <1>6, FreshCall
  <2>2. man'.active = man.active
        BY <1>1, <1>6 DEF SetOptions, LoadAll, Refresh, Rows
  <2> QED
      BY <1>1, <1>3, <2>1, <2>2
<1>7. ASSUME NEW n \in Nodes, Load(n) \/ WriteOptions(n) PROVE Asked'
  <2>1. query' = query /\ session' = session /\ man' = man
        BY <1>7 DEF Load, WriteOptions
  <2> QED
      BY <1>1, <1>3, <2>1
<1>8. ASSUME NextMember \/ Return \/ Fail PROVE Asked'
      BY <1>1, <1>3, <1>8 DEF NextMember, Return, Fail
<1>9. CASE UNCHANGED vars
      BY <1>1, <1>3, <1>9 DEF vars
<1>10. CASE Next
      BY <1>4, <1>5, <1>6, <1>7, <1>8, <1>10 DEF Next, QueryStep
<1> QED
    BY <1>9, <1>10

------------------------------------------------------------------------------
(* The theorems.                                                           *)

LEMMA ServeInit == Init => ServeInv
<1> SUFFICES ASSUME Init PROVE ServeInv
    OBVIOUS
<1>1. FilesInv /\ TypeOK
      BY FilesInit, InitTyped DEF TypeInv
<1>2. pr.pc = "idle" /\ query = NoQuery /\ man.active = 0 /\ man.home \in Homes \cup {NoHome}
      BY DEF Init, NoProcedure
<1>3. \A n \in Nodes, x \in Dirs : Holds(n, x, man.active)
      BY <1>1, <1>2, OpenedActive, OptionsConstants DEF FoundIsActive, Holds
<1>4. \A n \in Nodes : Target(man.home) \in Dirs /\ Hop(n, session) \in Dirs
      BY <1>1, <1>2, DirsTyped
<1>5. Loaded
      BY <1>2, <1>3, <1>4 DEF Loaded
<1> QED
    BY <1>1, <1>2, <1>5 DEF ServeInv, Asked

LEMMA ServeStep == ASSUME EveryNode PROVE ServeInv /\ [Next]_vars => ServeInv'
BY FilesStep, LoadedStep, AskedStep DEF ServeInv

LEMMA AppliedOptions == ServeInv => OptionsApplied
<1> SUFFICES ASSUME ServeInv, pr.pc = "ended", NEW n \in pr.reach, NEW from \in {Default, session}
             PROVE  LET x == IF man.home = NoHome THEN from ELSE man.home IN
                    /\ Hop(n, from) = x
                    /\ x = Target(man.home) => dir[n][x].value = man.value
                    /\ x = Target(man.home) /\ pr.kind # "set" => Opened(n, x) >= man.active \/ <<n, x>> \in behind
    BY DEF OptionsApplied
<1>1. Applied /\ Loaded /\ n \in Nodes
      BY OptionsConstants DEF ServeInv, FilesInv, TypeInv, Shape
<1>2. Hop(n, from) = (IF man.home = NoHome THEN from ELSE man.home) /\ dir[n][Target(man.home)].value = man.value
      BY <1>1 DEF Applied
<1>3. Opened(n, Target(man.home)) >= man.active \/ <<n, Target(man.home)>> \in behind
      BY <1>1 DEF Loaded, Holds
<1> QED
    BY <1>2, <1>3

\* On a database whose statements reach every node: when set_index_options, load_all or a refresh ends well, every
\* node's OPTIONS files lead to the index's directory and carry its defaults, and the directory has the active
\* snapshot unless a reload cut off before left it behind; whatever calls failed before, at whichever node and file.
THEOREM OptionsAreApplied == ASSUME EveryNode PROVE Spec => []OptionsApplied
<1>1. ServeInv /\ [Next]_vars => ServeInv'
      BY ServeStep
<1> QED
    BY <1>1, ServeInit, AppliedOptions, PTL DEF Spec

\* On such a database a query that has read the OPTIONS files one by one, while calls moved, loaded, refreshed or failed
\* between its reads, ends at a directory with a snapshot the views it was planned with accept.
THEOREM QueriesAnsweredWhileMoving == ASSUME EveryNode PROVE Spec => AnswersWhileMoving
<1>1. ServeInv /\ [Next]_vars => ServeInv'
      BY ServeStep
<1>2. ServeInv => (OpenActive => Answered \/ <<query.node, query.dir>> \in behind)
  <2> SUFFICES ASSUME ServeInv, OpenActive PROVE Answered \/ <<query.node, query.dir>> \in behind
      OBVIOUS
  <2>1. query.pc = "active" /\ query # NoQuery
        BY DEF OpenActive, NoQuery
  <2> QED
      BY <2>1 DEF ServeInv, Asked, Holds, Answered
<1>3. ServeInv /\ [Next]_vars => [OpenActive => Answered \/ <<query.node, query.dir>> \in behind]_vars
      BY <1>2
<1> QED
    BY <1>1, <1>3, ServeInit, PTL DEF Spec, AnswersWhileMoving
==============================================================================
