---------------------------- MODULE VVSearchProofs ----------------------------
(***************************************************************************)
(* Theorems about VVSearch, for every set of calls and every order in      *)
(* which Vertica hands their rows over: the types, with an answer for      *)
(* every query; the newest row of every id is the one the journal keeps;   *)
(* no answer comes from a snapshot older than the view; a search that      *)
(* scores every row answers with the k best of the rows it is about.       *)
(***************************************************************************)
EXTENDS VVSearch, SequenceTheorems, FiniteSetTheorems, TLAPS

------------------------------------------------------------------------------
(* The journal: what Offered keeps, whatever row it is offered.            *)

\* A journal in which the slots of live ids and the free ones are apart.
Slotted(j, V) ==
    /\ j = [entry |-> j.entry, slots |-> j.slots, free |-> j.free]
    /\ j.slots \in Seq(V) /\ j.free \in Seq(1 .. Len(j.slots))
    /\ \A a, b \in 1 .. Len(j.free) : j.free[a] = j.free[b] => a = b
    /\ \A id \in DOMAIN j.entry :
          \/ j.entry[id].del = TRUE /\ j.entry[id].slot = None
          \/ /\ j.entry[id].del = FALSE /\ j.entry[id].slot \in 1 .. Len(j.slots)
             /\ \A a \in 1 .. Len(j.free) : j.free[a] # j.entry[id].slot
    /\ \A a, b \in DOMAIN j.entry :
          ~j.entry[a].del /\ ~j.entry[b].del /\ j.entry[a].slot = j.entry[b].slot => a = b

\* The entry of an id is that of one of its newest rows.
Speaks(j, rows, id) ==
    \E r \in rows :
        /\ r.id = id /\ IsNewest(rows, r) /\ j.entry[id].ver = Version(r)
        /\ j.entry[id].del <=> r.del = TRUE
        /\ r.del # TRUE => j.slots[j.entry[id].slot] = r.vec

Keeps(j, rows, V) ==
    /\ Slotted(j, V)
    /\ DOMAIN j.entry = {r.id : r \in rows}
    /\ \A id \in DOMAIN j.entry : Speaks(j, rows, id)

\* Versions are compared.
LEMMA Compare ==
    ASSUME NEW a \in Int, NEW b \in Int
    PROVE  ~(a > b) <=> a < b \/ a = b
OBVIOUS

\* A chain of comparisons.
LEMMA CompareChain ==
    ASSUME NEW a \in Int, NEW b \in Int, NEW c \in Int
    PROVE  /\ a < b /\ (c > b \/ c = b) => a < c
           /\ (a < b \/ a = b) /\ c > b => a < c
OBVIOUS

\* An entry that stands for a row gives way to the rows that are newer than that one.
LEMMA NewerMeans ==
    ASSUME NEW r, NEW x, NEW e, e.ver = Version(x), e.del <=> x.del = TRUE
    PROVE  Newer(r, e) <=> Version(r) > Version(x) \/ (Version(r) = Version(x) /\ r.del = TRUE /\ x.del # TRUE)
BY DEF Newer

\* One entry of a function changed.
LEMMA ChangedValues ==
    ASSUME NEW f, NEW x, NEW v
    PROVE  /\ DOMAIN Changed(f, x, v) = DOMAIN f \cup {x}
           /\ Changed(f, x, v)[x] = v
           /\ \A y \in DOMAIN f : y # x => Changed(f, x, v)[y] = f[y]
BY DEF Changed

\* An older row changes nothing: the id's row was the newest of those offered, and still is.
LEMMA OlderRow ==
    ASSUME NEW V, NEW rows, NEW j, NEW r, Keeps(j, rows, V), r.id \in DOMAIN j.entry, ~Newer(r, j.entry[r.id]),
           \A x \in rows \cup {r} : Version(x) \in Int
    PROVE  Keeps(j, rows \cup {r}, V)
<1>1. DOMAIN j.entry = {x.id : x \in rows \cup {r}}
      BY DEF Keeps
<1>2. ASSUME NEW id \in DOMAIN j.entry
      PROVE  Speaks(j, rows \cup {r}, id)
  <2>0. id \in DOMAIN j.entry /\ Speaks(j, rows, id)
        BY <1>2 DEF Keeps
  <2>1. PICK x \in rows :
          /\ x.id = id /\ IsNewest(rows, x) /\ j.entry[id].ver = Version(x)
          /\ j.entry[id].del <=> x.del = TRUE
          /\ x.del # TRUE => j.slots[j.entry[id].slot] = x.vec
        BY <2>0 DEF Speaks
  <2>2. IsNewest(rows \cup {r}, x)
    <3>1. \A s \in rows : s.id = x.id =>
             Version(s) < Version(x) \/ (Version(s) = Version(x) /\ (x.del = TRUE \/ s.del # TRUE))
          BY <2>1 DEF IsNewest
    <3>2. r.id = x.id => Version(r) < Version(x) \/ (Version(r) = Version(x) /\ (x.del = TRUE \/ r.del # TRUE))
      <4> SUFFICES ASSUME r.id = x.id
                   PROVE  Version(r) < Version(x) \/ (Version(r) = Version(x) /\ (x.del = TRUE \/ r.del # TRUE))
          OBVIOUS
      <4>0. /\ ~Newer(r, j.entry[id]) /\ j.entry[id].ver = Version(x) /\ (j.entry[id].del <=> x.del = TRUE)
            /\ j.entry[id].del \in BOOLEAN
            BY <2>1 DEF Keeps, Slotted
      <4>1. ~(Version(r) > Version(x)) /\ ~(Version(r) = Version(x) /\ r.del = TRUE /\ x.del # TRUE)
            BY <4>0, NewerMeans
      <4>2. Version(r) \in Int /\ Version(x) \in Int
            OBVIOUS
      <4>3. Version(r) < Version(x) \/ Version(r) = Version(x)
            BY <4>1, <4>2, Compare
      <4> QED BY <4>1, <4>3
    <3> QED BY <3>1, <3>2 DEF IsNewest
  <2> QED BY <2>1, <2>2 DEF Speaks
<1> QED BY <1>1, <1>2 DEF Keeps

\* The newest row of its id speaks for it, and the other ids' rows for them.
LEMMA NewerRow ==
    ASSUME NEW V, NEW rows, NEW j, NEW r, NEW k, Keeps(j, rows, V), r.id \in DOMAIN j.entry => Newer(r, j.entry[r.id]),
           \A x \in rows \cup {r} : Version(x) \in Int,
           Slotted(k, V), DOMAIN k.entry = DOMAIN j.entry \cup {r.id},
           \A id \in DOMAIN j.entry : id # r.id => k.entry[id] = j.entry[id],
           \A id \in DOMAIN j.entry :
              id # r.id /\ ~j.entry[id].del => k.slots[j.entry[id].slot] = j.slots[j.entry[id].slot],
           k.entry[r.id].ver = Version(r), k.entry[r.id].del <=> r.del = TRUE,
           r.del # TRUE => k.slots[k.entry[r.id].slot] = r.vec
    PROVE  Keeps(k, rows \cup {r}, V)
<1>1. DOMAIN k.entry = {x.id : x \in rows \cup {r}}
      BY DEF Keeps
<1>2. ASSUME NEW id \in DOMAIN k.entry, id # r.id
      PROVE  Speaks(k, rows \cup {r}, id)
  <2>0. id \in DOMAIN j.entry /\ Speaks(j, rows, id)
        BY <1>2 DEF Keeps
  <2>1. PICK x \in rows :
          /\ x.id = id /\ IsNewest(rows, x) /\ j.entry[id].ver = Version(x)
          /\ j.entry[id].del <=> x.del = TRUE
          /\ x.del # TRUE => j.slots[j.entry[id].slot] = x.vec
        BY <2>0 DEF Speaks
  <2>2. IsNewest(rows \cup {r}, x)
        BY <1>2, <2>1 DEF IsNewest
  <2> QED BY <1>2, <2>1, <2>2 DEF Speaks
<1>3. IsNewest(rows \cup {r}, r)
  <2>1. CASE r.id \in DOMAIN j.entry
    <3>1. PICK x \in rows :
            /\ x.id = r.id /\ IsNewest(rows, x) /\ j.entry[r.id].ver = Version(x)
            /\ j.entry[r.id].del <=> x.del = TRUE
          BY <2>1 DEF Keeps, Speaks
    <3>2. Version(r) > Version(x) \/ (Version(x) = Version(r) /\ r.del = TRUE /\ x.del # TRUE)
      <4>0. Newer(r, j.entry[r.id]) /\ j.entry[r.id].del \in BOOLEAN
            BY <2>1 DEF Keeps, Slotted
      <4>1. Version(r) > Version(x) \/ (Version(r) = Version(x) /\ r.del = TRUE /\ x.del # TRUE)
            BY <3>1, <4>0, NewerMeans
      <4> QED BY <4>1
    <3>3. ASSUME NEW s \in rows, s.id = r.id
          PROVE  Version(s) < Version(r) \/ (Version(s) = Version(r) /\ (r.del = TRUE \/ s.del # TRUE))
      <4>1. Version(s) < Version(x) \/ (Version(s) = Version(x) /\ (x.del = TRUE \/ s.del # TRUE))
            BY <3>1, <3>3 DEF IsNewest
      <4>2. Version(r) \in Int /\ Version(x) \in Int /\ Version(s) \in Int
            OBVIOUS
      <4> QED BY <3>2, <4>1, <4>2, CompareChain
    <3> QED BY <3>3 DEF IsNewest
  <2>2. CASE r.id \notin DOMAIN j.entry
        BY <2>2 DEF IsNewest, Keeps
  <2> QED BY <2>1, <2>2
<1>4. Speaks(k, rows \cup {r}, r.id)
      BY <1>3 DEF Speaks
<1> QED BY <1>1, <1>2, <1>4 DEF Keeps

\* All but the last of a sequence.
LEMMA FrontOf ==
    ASSUME NEW S, NEW q \in Seq(S), Len(q) > 0
    PROVE  /\ Front(q) \in Seq(S) /\ Len(Front(q)) = Len(q) - 1
           /\ \A i \in 1 .. Len(q) - 1 : Front(q)[i] = q[i]
<1> DEFINE n == Len(q) - 1
<1>1. 1 \in Int /\ n \in Nat /\ n \in Int /\ Len(q) \in Nat /\ Front(q) = SubSeq(q, 1, n)
      BY LenProperties DEF Front
<1>2. \A i \in 1 .. n : q[i] \in S
      BY <1>1, ElementOfSeq
<1> HIDE DEF n
<1>3. /\ SubSeq(q, 1, n) \in Seq(S)
      /\ Len(SubSeq(q, 1, n)) = IF 1 <= n THEN n - 1 + 1 ELSE 0
      /\ \A i \in 1 .. n - 1 + 1 : SubSeq(q, 1, n)[i] = q[1 + i - 1]
      BY <1>1, <1>2, SubSeqProperties
<1>4. n - 1 + 1 = n /\ (IF 1 <= n THEN n - 1 + 1 ELSE 0) = n /\ \A i \in 1 .. n : 1 + i - 1 = i
      BY <1>1
<1>5. Front(q) \in Seq(S) /\ Len(Front(q)) = n /\ \A i \in 1 .. n : Front(q)[i] = q[i]
      BY <1>1, <1>3, <1>4
<1> QED BY <1>5 DEF n

\* A delete takes its id's entry, and the slot of the id's vector is free.
LEMMA DeleteTaken ==
    ASSUME NEW V, NEW j, NEW x, NEW e, NEW old, Slotted(j, V), e.del = TRUE, e.slot = None,
           old = IF x \in DOMAIN j.entry THEN j.entry[x].slot ELSE None,
           NEW k, k = [entry |-> k.entry, slots |-> k.slots, free |-> k.free],
           k.entry = Changed(j.entry, x, e), k.slots = j.slots,
           k.free = IF old = None THEN j.free ELSE Append(j.free, old)
    PROVE  Slotted(k, V)
<1>1. /\ k = [entry |-> k.entry, slots |-> k.slots, free |-> k.free]
      /\ k.slots = j.slots /\ k.free = IF old = None THEN j.free ELSE Append(j.free, old)
      OBVIOUS
<1>2. /\ DOMAIN k.entry = DOMAIN j.entry \cup {x} /\ k.entry[x] = e
      /\ \A id \in DOMAIN j.entry : id # x => k.entry[id] = j.entry[id]
      BY DEF Changed
<1>3. None \notin Nat
      BY CallShapes
<1>4. /\ j.slots \in Seq(V) /\ j.free \in Seq(1 .. Len(j.slots)) /\ Len(j.slots) \in Nat /\ Len(j.free) \in Nat
      /\ \A a, b \in 1 .. Len(j.free) : j.free[a] = j.free[b] => a = b
      /\ \A a \in 1 .. Len(j.free) : j.free[a] \in 1 .. Len(j.slots)
      BY DEF Slotted
<1>5. \A a, b \in DOMAIN k.entry :
          ~k.entry[a].del /\ ~k.entry[b].del /\ k.entry[a].slot = k.entry[b].slot => a = b
      BY <1>2 DEF Slotted
<1>6. CASE old = None
  <2>1. k.free = j.free
        BY <1>1, <1>6
  <2>2. \A id \in DOMAIN k.entry :
          \/ k.entry[id].del = TRUE /\ k.entry[id].slot = None
          \/ /\ k.entry[id].del = FALSE /\ k.entry[id].slot \in 1 .. Len(k.slots)
             /\ \A a \in 1 .. Len(k.free) : k.free[a] # k.entry[id].slot
        BY <1>1, <1>2, <2>1 DEF Slotted
  <2> QED BY <1>1, <1>4, <1>5, <2>1, <2>2 DEF Slotted
<1>7. CASE old # None
  <2>1. /\ x \in DOMAIN j.entry /\ old = j.entry[x].slot /\ j.entry[x].del = FALSE /\ old \in 1 .. Len(j.slots)
        /\ \A a \in 1 .. Len(j.free) : j.free[a] # old
        BY <1>3, <1>7 DEF Slotted
  <2>2. /\ k.free \in Seq(1 .. Len(k.slots)) /\ Len(k.free) = Len(j.free) + 1
        /\ \A a \in 1 .. Len(j.free) : k.free[a] = j.free[a]
        /\ k.free[Len(j.free) + 1] = old
        BY <1>1, <1>4, <1>7, <2>1, AppendProperties
  <2>3. \A a \in 1 .. Len(k.free) : a = Len(j.free) + 1 \/ a \in 1 .. Len(j.free)
        BY <1>4, <2>2
  <2>4. \A a, b \in 1 .. Len(k.free) : k.free[a] = k.free[b] => a = b
        BY <1>4, <2>1, <2>2, <2>3
  <2>5. ASSUME NEW id \in DOMAIN j.entry, id # x
        PROVE  \/ k.entry[id].del = TRUE /\ k.entry[id].slot = None
               \/ /\ k.entry[id].del = FALSE /\ k.entry[id].slot \in 1 .. Len(k.slots)
                  /\ \A a \in 1 .. Len(k.free) : k.free[a] # k.entry[id].slot
    <3>1. k.entry[id] = j.entry[id]
          BY <1>2, <2>5
    <3>2. j.entry[id].del = FALSE => j.entry[id].slot # old
          BY <2>1, <2>5 DEF Slotted
    <3>3. \/ j.entry[id].del = TRUE /\ j.entry[id].slot = None
          \/ /\ j.entry[id].del = FALSE /\ j.entry[id].slot \in 1 .. Len(j.slots)
             /\ \A a \in 1 .. Len(j.free) : j.free[a] # j.entry[id].slot
          BY DEF Slotted
    <3> QED BY <1>1, <2>2, <2>3, <3>1, <3>2, <3>3
  <2>6. \A id \in DOMAIN k.entry :
          \/ k.entry[id].del = TRUE /\ k.entry[id].slot = None
          \/ /\ k.entry[id].del = FALSE /\ k.entry[id].slot \in 1 .. Len(k.slots)
             /\ \A a \in 1 .. Len(k.free) : k.free[a] # k.entry[id].slot
        BY <1>2, <2>5
  <2> QED BY <1>1, <1>4, <1>5, <2>2, <2>4, <2>6 DEF Slotted
<1> QED BY <1>1, <1>6, <1>7

\* The vectors with one more, at a slot that is taken again or at a new one.
Stored(slots, at, vec) == IF at > Len(slots) THEN Append(slots, vec) ELSE [slots EXCEPT ![at] = vec]

\* k is j with the entry e of id x, whose vector is in the slot.
Takes(j, x, e, vec, old, slot, k) ==
    /\ e.del = FALSE /\ e.slot = slot
    /\ old = IF x \in DOMAIN j.entry THEN j.entry[x].slot ELSE None
    /\ old # None => slot = old
    /\ old = None /\ j.free # <<>> => slot = Last(j.free)
    /\ old = None /\ j.free = <<>> => slot = Len(j.slots) + 1
    /\ k = [entry |-> k.entry, slots |-> k.slots, free |-> k.free]
    /\ k.entry = Changed(j.entry, x, e)
    /\ k.slots = Stored(j.slots, slot, vec)
    /\ k.free = IF old = None /\ j.free # <<>> THEN Front(j.free) ELSE j.free

\* A row with a vector takes its id's slot, else the last free one, else a new one: nobody else's.
LEMMA VectorTaken ==
    ASSUME NEW V, NEW j, NEW x, NEW e, NEW vec, NEW old, NEW slot, NEW k,
           Slotted(j, V), vec \in V, Takes(j, x, e, vec, old, slot, k)
    PROVE  /\ Slotted(k, V) /\ k.slots[slot] = vec
           /\ \A id \in DOMAIN j.entry :
                id # x /\ ~j.entry[id].del => k.slots[j.entry[id].slot] = j.slots[j.entry[id].slot]
<1>1. /\ k = [entry |-> k.entry, slots |-> k.slots, free |-> k.free]
      /\ k.slots = IF slot > Len(j.slots) THEN Append(j.slots, vec) ELSE [j.slots EXCEPT ![slot] = vec]
      /\ k.free = IF old = None /\ j.free # <<>> THEN Front(j.free) ELSE j.free
      BY DEF Stored, Takes
<1>2. /\ DOMAIN k.entry = DOMAIN j.entry \cup {x} /\ k.entry[x] = e /\ e.del = FALSE /\ e.slot = slot
      /\ \A id \in DOMAIN j.entry : id # x => k.entry[id] = j.entry[id]
      BY DEF Changed, Takes
<1>3. None \notin Nat
      BY CallShapes
<1>4. /\ j.slots \in Seq(V) /\ j.free \in Seq(1 .. Len(j.slots)) /\ Len(j.slots) \in Nat /\ Len(j.free) \in Nat
      /\ \A a, b \in 1 .. Len(j.free) : j.free[a] = j.free[b] => a = b
      /\ \A a \in 1 .. Len(j.free) : j.free[a] \in 1 .. Len(j.slots)
      BY DEF Slotted
\* The slot is in the new array, and neither free any more nor the slot of another live id.
<1>5. /\ slot \in 1 .. Len(j.slots) \/ slot = Len(j.slots) + 1
      /\ k.free \in Seq(1 .. Len(j.slots)) /\ Len(k.free) \in Nat /\ Len(k.free) <= Len(j.free)
      /\ \A a \in 1 .. Len(k.free) : k.free[a] = j.free[a] /\ k.free[a] # slot
      /\ \A id \in DOMAIN j.entry : id # x /\ j.entry[id].del = FALSE => j.entry[id].slot # slot
  <2>1. CASE old # None
    <3>1. slot = old /\ k.free = j.free
          BY <1>1, <2>1 DEF Takes
    <3>2. /\ x \in DOMAIN j.entry /\ old = j.entry[x].slot /\ j.entry[x].del = FALSE /\ old \in 1 .. Len(j.slots)
          /\ \A a \in 1 .. Len(j.free) : j.free[a] # old
          BY <1>3, <2>1 DEF Slotted, Takes
    <3>3. \A id \in DOMAIN j.entry : id # x /\ j.entry[id].del = FALSE => j.entry[id].slot # slot
          BY <3>1, <3>2 DEF Slotted
    <3> QED BY <1>4, <3>1, <3>2, <3>3
  <2>2. CASE old = None /\ j.free # <<>>
    <3>1. slot = j.free[Len(j.free)] /\ k.free = Front(j.free)
          BY <1>1, <2>2 DEF Last, Takes
    <3>2. Len(j.free) > 0
          BY <1>4, <2>2, EmptySeq
    <3>3. /\ k.free \in Seq(1 .. Len(j.slots)) /\ Len(k.free) = Len(j.free) - 1
          /\ \A a \in 1 .. Len(k.free) : k.free[a] = j.free[a]
      <4>1. PICK T : T = 1 .. Len(j.slots)
            OBVIOUS
      <4>2. j.free \in Seq(T)
            BY <1>4, <4>1
      <4>3. /\ Front(j.free) \in Seq(T) /\ Len(Front(j.free)) = Len(j.free) - 1
            /\ \A a \in 1 .. Len(j.free) - 1 : Front(j.free)[a] = j.free[a]
            BY <3>2, <4>2, FrontOf
      <4> QED BY <3>1, <4>1, <4>3
    <3>4. /\ Len(j.free) \in 1 .. Len(j.free)
          /\ \A a \in 1 .. Len(k.free) : a \in 1 .. Len(j.free) /\ a # Len(j.free)
          BY <1>4, <3>2, <3>3
    <3>5. \A a \in 1 .. Len(k.free) : k.free[a] # slot
          BY <1>4, <3>1, <3>3, <3>4
    <3>6. slot \in 1 .. Len(j.slots)
          BY <1>4, <3>1, <3>4
    <3>7. \A id \in DOMAIN j.entry : id # x /\ j.entry[id].del = FALSE => j.entry[id].slot # slot
          BY <3>1, <3>4 DEF Slotted
    <3>8. Len(k.free) \in Nat /\ Len(k.free) <= Len(j.free)
          BY <1>4, <3>2, <3>3
    <3> QED BY <3>3, <3>5, <3>6, <3>7, <3>8
  <2>3. CASE old = None /\ j.free = <<>>
    <3>1. slot = Len(j.slots) + 1 /\ k.free = j.free
          BY <1>1, <2>3 DEF Takes
    <3>2. \A n \in 1 .. Len(j.slots) : n # slot
          BY <1>4, <3>1
    <3>3. \A id \in DOMAIN j.entry : id # x /\ j.entry[id].del = FALSE => j.entry[id].slot # slot
          BY <3>2 DEF Slotted
    <3> QED BY <1>4, <3>1, <3>2, <3>3
  <2> QED BY <2>1, <2>2, <2>3
<1>6. /\ k.slots \in Seq(V) /\ Len(k.slots) \in Nat /\ Len(k.slots) >= Len(j.slots) /\ slot \in 1 .. Len(k.slots)
      /\ k.slots[slot] = vec
      /\ \A n \in 1 .. Len(j.slots) : n # slot => k.slots[n] = j.slots[n]
  <2>1. CASE slot \in 1 .. Len(j.slots)
    <3>1. k.slots = [j.slots EXCEPT ![slot] = vec]
          BY <1>1, <1>4, <2>1
    <3>2. /\ [j.slots EXCEPT ![slot] = vec] \in Seq(V) /\ Len([j.slots EXCEPT ![slot] = vec]) = Len(j.slots)
          /\ \A n \in 1 .. Len(j.slots) :
                [j.slots EXCEPT ![slot] = vec][n] = IF n = slot THEN vec ELSE j.slots[n]
          BY <1>4, <2>1, ExceptSeq
    <3>3. Len(k.slots) = Len(j.slots) /\ k.slots \in Seq(V)
          BY <3>1, <3>2
    <3>4. k.slots[slot] = vec /\ \A n \in 1 .. Len(j.slots) : n # slot => k.slots[n] = j.slots[n]
          BY <2>1, <3>1, <3>2
    <3>5. Len(k.slots) \in Nat /\ Len(k.slots) >= Len(j.slots)
          BY <1>4, <3>3
    <3>6. slot \in 1 .. Len(k.slots)
          BY <2>1, <3>3
    <3> QED BY <3>3, <3>4, <3>5, <3>6
  <2>2. CASE slot = Len(j.slots) + 1
    <3>1. k.slots = Append(j.slots, vec)
          BY <1>1, <1>4, <2>2
    <3>2. /\ k.slots \in Seq(V) /\ Len(k.slots) = Len(j.slots) + 1 /\ k.slots[Len(j.slots) + 1] = vec
          /\ \A n \in 1 .. Len(j.slots) : k.slots[n] = j.slots[n]
          BY <1>4, <3>1, AppendProperties
    <3>3. Len(k.slots) \in Nat /\ Len(k.slots) >= Len(j.slots) /\ slot \in 1 .. Len(k.slots)
          BY <1>4, <2>2, <3>2
    <3> QED BY <2>2, <3>2, <3>3
  <2> QED BY <1>5, <2>1, <2>2
<1>7. ASSUME NEW id \in DOMAIN j.entry, id # x
      PROVE  /\ k.entry[id] = j.entry[id]
             /\ \/ j.entry[id].del = TRUE /\ j.entry[id].slot = None
                \/ /\ j.entry[id].del = FALSE /\ j.entry[id].slot \in 1 .. Len(j.slots) /\ j.entry[id].slot # slot
                   /\ \A a \in 1 .. Len(j.free) : j.free[a] # j.entry[id].slot
      BY <1>2, <1>5, <1>7 DEF Slotted
<1>8. \A n \in 1 .. Len(j.slots) : n \in 1 .. Len(k.slots)
      BY <1>4, <1>6
<1>9. \A a \in 1 .. Len(k.free) : a \in 1 .. Len(j.free)
      BY <1>4, <1>5
<1>10. \A id \in DOMAIN k.entry :
          \/ k.entry[id].del = TRUE /\ k.entry[id].slot = None
          \/ /\ k.entry[id].del = FALSE /\ k.entry[id].slot \in 1 .. Len(k.slots)
             /\ \A a \in 1 .. Len(k.free) : k.free[a] # k.entry[id].slot
  <2>1. ASSUME NEW id \in DOMAIN j.entry, id # x
        PROVE  \/ k.entry[id].del = TRUE /\ k.entry[id].slot = None
               \/ /\ k.entry[id].del = FALSE /\ k.entry[id].slot \in 1 .. Len(k.slots)
                  /\ \A a \in 1 .. Len(k.free) : k.free[a] # k.entry[id].slot
    <3>1. j.entry[id].slot \in 1 .. Len(j.slots) => j.entry[id].slot \in 1 .. Len(k.slots)
          BY <1>8
    <3>2. (\A a \in 1 .. Len(j.free) : j.free[a] # j.entry[id].slot)
             => \A a \in 1 .. Len(k.free) : k.free[a] # j.entry[id].slot
          BY <1>5, <1>9
    <3> QED BY <1>7, <2>1, <3>1, <3>2
  <2>2. /\ k.entry[x].del = FALSE /\ k.entry[x].slot \in 1 .. Len(k.slots)
        /\ \A a \in 1 .. Len(k.free) : k.free[a] # k.entry[x].slot
        BY <1>2, <1>5, <1>6
  <2> QED BY <1>2, <2>1, <2>2
<1>11. \A a, b \in DOMAIN k.entry :
          ~k.entry[a].del /\ ~k.entry[b].del /\ k.entry[a].slot = k.entry[b].slot => a = b
  <2>1. \A a, b \in DOMAIN j.entry :
          ~j.entry[a].del /\ ~j.entry[b].del /\ j.entry[a].slot = j.entry[b].slot => a = b
        BY DEF Slotted
  <2>2. ASSUME NEW a \in DOMAIN j.entry, a # x, ~k.entry[a].del
        PROVE  k.entry[a].slot # slot
        BY <1>7, <2>2
  <2>3. k.entry[x].slot = slot
        BY <1>2
  <2>4. ASSUME NEW a \in DOMAIN j.entry, NEW b \in DOMAIN j.entry, a # x, b # x,
               ~k.entry[a].del, ~k.entry[b].del, k.entry[a].slot = k.entry[b].slot
        PROVE  a = b
    <3>1. k.entry[a] = j.entry[a] /\ k.entry[b] = j.entry[b]
          BY <1>7, <2>4
    <3> QED BY <2>1, <2>4, <3>1
  <2> QED BY <1>2, <2>2, <2>3, <2>4
<1>12. \A a, b \in 1 .. Len(k.free) : k.free[a] = k.free[b] => a = b
       BY <1>4, <1>5, <1>9
<1>13. k.free \in Seq(1 .. Len(k.slots))
  <2>1. 1 .. Len(j.slots) \subseteq 1 .. Len(k.slots)
        BY <1>8
  <2>2. Seq(1 .. Len(j.slots)) \subseteq Seq(1 .. Len(k.slots))
        BY <2>1, SeqMonotonic
  <2> QED BY <1>5, <2>2
<1>14. Slotted(k, V)
       BY <1>1, <1>6, <1>10, <1>11, <1>12, <1>13 DEF Slotted
<1> QED BY <1>6, <1>7, <1>14

\* Journal.offer: the journal of some rows, offered one more, is the journal of them all.
LEMMA OfferedKeeps ==
    ASSUME NEW V, NEW rows, NEW j, NEW r, Keeps(j, rows, V), r.del # TRUE => r.vec \in V,
           \A x \in rows \cup {r} : Version(x) \in Int
    PROVE  Keeps(Offered(j, r), rows \cup {r}, V)
<1> DEFINE known == r.id \in DOMAIN j.entry
           old == IF known THEN j.entry[r.id].slot ELSE None
           slot == CASE old # None -> old
                     [] old = None /\ j.free # <<>> -> Last(j.free)
                     [] OTHER -> Len(j.slots) + 1
           gone == [ver |-> Version(r), del |-> r.del = TRUE, slot |-> None]
           there == [ver |-> Version(r), del |-> r.del = TRUE, slot |-> slot]
           k == Offered(j, r)
<1>1. CASE known /\ ~Newer(r, j.entry[r.id])
  <2>1. Offered(j, r) = j
        BY <1>1 DEF Offered
  <2> QED BY <1>1, <2>1, OlderRow
<1>2. CASE (known => Newer(r, j.entry[r.id])) /\ r.del = TRUE
  <2>1. k = [j EXCEPT !.entry = Changed(j.entry, r.id, gone), !.free = IF old = None THEN @ ELSE Append(@, old)]
        BY <1>2 DEF Offered
  <2>2. gone.del = TRUE /\ gone.slot = None /\ gone.ver = Version(r)
        BY <1>2
  <2> HIDE DEF gone, slot, there, k
  <2>3. /\ k = [entry |-> k.entry, slots |-> k.slots, free |-> k.free]
        /\ k.entry = Changed(j.entry, r.id, gone) /\ k.slots = j.slots
        /\ k.free = IF old = None THEN j.free ELSE Append(j.free, old)
        BY <2>1 DEF Keeps, Slotted
  <2>4. old = IF r.id \in DOMAIN j.entry THEN j.entry[r.id].slot ELSE None
        OBVIOUS
  <2> HIDE DEF old
  <2>5. Slotted(k, V)
        BY <2>2, <2>3, <2>4, DeleteTaken DEF Keeps
  <2>6. /\ DOMAIN k.entry = DOMAIN j.entry \cup {r.id} /\ k.entry[r.id] = gone
        /\ \A id \in DOMAIN j.entry : id # r.id => k.entry[id] = j.entry[id]
        BY <2>3 DEF Changed
  <2>7. Keeps(k, rows \cup {r}, V)
        BY <1>2, <2>2, <2>3, <2>5, <2>6, NewerRow
  <2> QED BY <2>7 DEF k
<1>3. CASE (known => Newer(r, j.entry[r.id])) /\ r.del # TRUE
  <2>1. k = [entry |-> Changed(j.entry, r.id, there),
             slots |-> IF slot > Len(j.slots) THEN Append(j.slots, r.vec) ELSE [j.slots EXCEPT ![slot] = r.vec],
             free |-> IF old = None /\ j.free # <<>> THEN Front(j.free) ELSE j.free]
        BY <1>3 DEF Offered
  <2>2. there.del = FALSE /\ there.slot = slot /\ there.ver = Version(r)
        BY <1>3
  <2>3. /\ old # None => slot = old
        /\ old = None /\ j.free # <<>> => slot = Last(j.free)
        /\ old = None /\ j.free = <<>> => slot = Len(j.slots) + 1
        OBVIOUS
  <2>4. old = IF r.id \in DOMAIN j.entry THEN j.entry[r.id].slot ELSE None
        OBVIOUS
  <2> HIDE DEF gone, slot, there, k, old
  <2>5. /\ k = [entry |-> k.entry, slots |-> k.slots, free |-> k.free]
        /\ k.entry = Changed(j.entry, r.id, there)
        /\ k.slots = Stored(j.slots, slot, r.vec)
        /\ k.free = IF old = None /\ j.free # <<>> THEN Front(j.free) ELSE j.free
        BY <2>1 DEF Stored
  <2>6. PICK vec \in V : vec = r.vec
        BY <1>3
  <2>7. /\ Slotted(k, V) /\ k.slots[slot] = r.vec
        /\ \A id \in DOMAIN j.entry :
             id # r.id /\ ~j.entry[id].del => k.slots[j.entry[id].slot] = j.slots[j.entry[id].slot]
    <3>1. Slotted(j, V)
          BY DEF Keeps
    <3>2. k.slots = Stored(j.slots, slot, vec)
          BY <2>5, <2>6
    <3>3. /\ Slotted(k, V) /\ k.slots[slot] = vec
          /\ \A id \in DOMAIN j.entry :
               id # r.id /\ ~j.entry[id].del => k.slots[j.entry[id].slot] = j.slots[j.entry[id].slot]
      <4>1. Takes(j, r.id, there, vec, old, slot, k)
            BY <2>2, <2>3, <2>4, <2>5, <3>2 DEF Takes
      <4> QED BY <3>1, <4>1, VectorTaken
    <3> QED BY <2>6, <3>3
  <2>8. /\ DOMAIN k.entry = DOMAIN j.entry \cup {r.id} /\ k.entry[r.id] = there
        /\ \A id \in DOMAIN j.entry : id # r.id => k.entry[id] = j.entry[id]
        BY <2>5 DEF Changed
  <2>9. Keeps(k, rows \cup {r}, V)
        BY <1>3, <2>2, <2>7, <2>8, NewerRow
  <2> QED BY <2>9 DEF k
<1> QED BY <1>1, <1>2, <1>3

------------------------------------------------------------------------------
(* Answers: a search returns one for every query, by whatever plan.        *)

\* A list of n answers.
Answers(x, n) == x = [i \in 1 .. n |-> x[i]]
ListOf(x) == \E S : x \in Seq(S)

\* A list of n answers is a list of length n.
LEMMA AnswersAreLists ==
    ASSUME NEW x, NEW n \in Nat, Answers(x, n)
    PROVE  ListOf(x) /\ Len(x) = n
<1>1. x \in [1 .. n -> {x[i] : i \in 1 .. n}]
      BY DEF Answers
<1>2. x \in Seq({x[i] : i \in 1 .. n})
      BY <1>1, SeqDef
<1>3. Len(x) \in Nat /\ DOMAIN x = 1 .. Len(x) /\ DOMAIN x = 1 .. n
      BY <1>1, <1>2, LenProperties
<1>4. \A a, b \in Nat : 1 .. a = 1 .. b => a = b
  <2> SUFFICES ASSUME NEW a \in Nat, NEW b \in Nat, 1 .. a = 1 .. b PROVE a = b
      OBVIOUS
  <2>1. (a > 0 => a \in 1 .. a) /\ (b > 0 => b \in 1 .. b)
        OBVIOUS
  <2>2. (a > 0 => a \in 1 .. b) /\ (b > 0 => b \in 1 .. a)
        BY <2>1
  <2> QED BY <2>2
<1> QED BY <1>2, <1>3, <1>4 DEF ListOf

\* A list with one more at its end.
LEMMA ListsAppend ==
    ASSUME NEW q, NEW e, ListOf(q)
    PROVE  /\ ListOf(Append(q, e)) /\ Len(q) \in Nat /\ Len(Append(q, e)) = Len(q) + 1 /\ DOMAIN q = 1 .. Len(q)
           /\ DOMAIN Append(q, e) = 1 .. Len(q) + 1
           /\ \A i \in 1 .. Len(q) : Append(q, e)[i] = q[i]
           /\ Append(q, e)[Len(q) + 1] = e
<1>1. PICK S : q \in Seq(S)
      BY DEF ListOf
<1>2. PICK T : T = S \cup {e}
      OBVIOUS
<1>3. q \in Seq(T) /\ e \in T
      BY <1>1, <1>2, SeqMonotonic
<1> QED BY <1>3, AppendProperties, LenProperties DEF ListOf

\* Two lists, one after the other.
LEMMA ListsConcat ==
    ASSUME NEW p, NEW q, ListOf(p), ListOf(q)
    PROVE  ListOf(p \o q) /\ Len(p \o q) = Len(p) + Len(q) /\ Len(p) \in Nat /\ Len(q) \in Nat
<1>1. PICK S : p \in Seq(S)
      BY DEF ListOf
<1>2. PICK T : q \in Seq(T)
      BY DEF ListOf
<1>3. PICK U : U = S \cup T
      OBVIOUS
<1>4. p \in Seq(U) /\ q \in Seq(U)
      BY <1>1, <1>2, <1>3, SeqMonotonic
<1> QED BY <1>4, ConcatProperties, LenProperties DEF ListOf

\* A flat search answers every query.
LEMMA FlatAnswers ==
    ASSUME NEW s, NEW n \in Nat, DOMAIN s.queries = 1 .. n, NEW blocks, NEW turn
    PROVE  Answers(FlatSearch(s, blocks, turn), n)
<1>1. ASSUME NEW threads, NEW rows
      PROVE  Answers(SearchWith(s, blocks, threads, rows, turn), n)
      BY DEF SearchWith, Answers
<1> QED BY <1>1 DEF FlatSearch

\* Merging in another block keeps as many answers.
LEMMA MergedAnswers ==
    ASSUME NEW s, NEW x, NEW n \in Nat, Answers(x, n), NEW beside, NEW turn
    PROVE  Answers(Merged(s, x, beside, turn), n)
<1>1. DOMAIN x = 1 .. n
      BY DEF Answers
<1> QED BY <1>1 DEF Merged, Answers

\* A walk over the graph answers every query.
LEMMA GraphAnswers ==
    ASSUME NEW s, NEW n \in Nat, DOMAIN s.queries = 1 .. n,
           NEW set, NEW coded, NEW ef, NEW skip, NEW misses, NEW turn, NEW kept
    PROVE  Answers(GraphSearch(s, set, coded, ef, skip, misses, turn, kept).out, n)
<1>1. ASSUME NEW workers, NEW rest
      PROVE  Answers(Gathered(s, set, coded, workers, rest).out, n)
      BY DEF Gathered, Answers
<1> QED BY <1>1 DEF GraphSearch

\* Rescoring keeps as many answers.
LEMMA RescoredAnswers ==
    ASSUME NEW s, NEW x, NEW n \in Nat, Answers(x, n), NEW set, NEW plan
    PROVE  Answers(Rescored(s, set, plan, x), n)
<1>1. DOMAIN x = 1 .. n
      BY DEF Answers
<1> QED BY <1>1 DEF Rescored, Answers

\* index_search answers every query it is given.
LEMMA SearchAnswers ==
    ASSUME NEW s, NEW n \in Nat, DOMAIN s.queries = 1 .. n,
           s = [queries |-> s.queries, k |-> s.k, radius |-> s.radius, threads |-> s.threads],
           NEW set, NEW plan, NEW skip, NEW extra, NEW turn, NEW misses, NEW kept
    PROVE  Answers(IndexSearch(s, set, plan, skip, extra, turn, misses, kept).out, n)
<1>1. ASSUME NEW q, DOMAIN q.queries = 1 .. n, NEW coded, NEW passed
      PROVE  Answers(Candidates(q, set, plan, coded, passed, turn, misses, kept).out, n)
      BY <1>1, GraphAnswers, FlatAnswers DEF Candidates
<1>2. DOMAIN CandidateSearch(s, set, plan).queries = 1 .. n
      BY DEF CandidateSearch
<1>3. ASSUME NEW few, NEW live
      PROVE  Answers(SearchLive(s, set, plan, few, live, extra, turn, misses, kept).out, n)
  <2>1. Answers(ExactSearch(s, set, few, live, extra, turn), n)
        BY FlatAnswers DEF ExactSearch
  <2>2. PICK q : q = IF plan.codes THEN CandidateSearch(s, set, plan) ELSE s
        OBVIOUS
  <2>3. PICK found : found = Candidates(q, set, plan, IF plan.codes THEN Range8(set) ELSE None,
                                        DOMAIN set.rows \ live, turn, misses, kept)
        OBVIOUS
  <2>4. Answers(found.out, n)
        BY <1>1, <1>2, <2>2, <2>3
  <2>5. PICK ranked : ranked = IF plan.codes THEN Rescored(s, set, plan, found.out) ELSE found.out
        OBVIOUS
  <2>6. Answers(ranked, n)
        BY <2>4, <2>5, RescoredAnswers
  <2>7. Answers(IF extra = <<>> THEN ranked ELSE Merged(s, ranked, Floats(extra, {}), turn), n)
        BY <2>6, MergedAnswers
  <2> QED BY <2>1, <2>2, <2>3, <2>5, <2>7 DEF SearchLive
<1> QED BY <1>3 DEF IndexSearch

\* A list is that many answers.
LEMMA ListsAreAnswers ==
    ASSUME NEW x, ListOf(x)
    PROVE  Answers(x, Len(x)) /\ Len(x) \in Nat /\ DOMAIN x = 1 .. Len(x)
<1>1. PICK S : x \in Seq(S)
      BY DEF ListOf
<1>2. Len(x) \in Nat /\ DOMAIN x = 1 .. Len(x) /\ x = [i \in DOMAIN x |-> x[i]]
      BY <1>1, LenProperties
<1> QED BY <1>2 DEF Answers

------------------------------------------------------------------------------
(* The invariant: the view's snapshot and the one held; the journal of the rows read; the lists.          *)

Views ==
    /\ call \in Calls /\ active \in Nat \ {0} /\ active \in DOMAIN call.snaps \cup {1} /\ held \in 0 .. active
    /\ unread \subseteq call.rows /\ wanted \in Nat
    /\ pc \in {"open", "read", "search", "done", "failed", "cancelled"}
    /\ (pc = "failed") = (why # None)
    /\ pc = "open" => unread = call.rows /\ journal = EmptyJournal /\ wanted = 0
    /\ why = "stale" => held < wanted /\ call.kind = "vsearch"
    /\ call.kind = "vsearch" =>
          /\ \A r \in call.rows \ unread : r.sid <= wanted
          /\ wanted = 0 \/ \E r \in call.rows : r.sid = wanted
          /\ pc \in {"search", "done"} => unread = {} /\ wanted <= held

Vectors == {r.vec : r \in call.rows}
Journaled == call.kind = "vsearch" /\ pc # "failed" => Keeps(journal, JournalRows \ unread, Vectors)

Lists ==
    /\ ListOf(queries) /\ ListOf(out)
    /\ \A i \in DOMAIN queries : queries[i].vec # None
    /\ pc = "open" => queries = <<>> /\ out = <<>>
    /\ call.kind \in {"vknn", "vscan"} \/ pc = "done" => Len(out) = Len(queries)

Inv == Views /\ Journaled /\ Lists

\* The empty list.
LEMMA EmptyList == ListOf(<<>>) /\ Len(<<>>) = 0 /\ DOMAIN <<>> = {}
BY EmptySeq DEF ListOf

\* The empty journal is that of no rows.
LEMMA NothingKept == ASSUME NEW V PROVE Keeps(EmptyJournal, {}, V)
<1>1. /\ EmptyJournal.entry = <<>> /\ EmptyJournal.slots = <<>> /\ EmptyJournal.free = <<>>
      /\ EmptyJournal = [entry |-> EmptyJournal.entry, slots |-> EmptyJournal.slots, free |-> EmptyJournal.free]
      BY DEF EmptyJournal
<1>2. \A S : <<>> \in Seq(S)
      OBVIOUS
<1>3. 1 .. Len(<<>>) = {} /\ DOMAIN <<>> = {}
      BY EmptyList
<1> QED BY <1>1, <1>2, <1>3 DEF Keeps, Slotted

\* A call starts with the invariant.
LEMMA InitInv == Init => Inv
<1> SUFFICES ASSUME Init PROVE Inv
    OBVIOUS
<1> USE DEF Init
<1>1. JournalRows \ unread = {}
      BY DEF JournalRows
<1>2. Journaled
      BY <1>1, NothingKept DEF Journaled
<1>3. Lists
      BY EmptyList DEF Lists
<1>4. Views
  <2>1. None \notin {"argument", "row", "stale", "changed", "no query"}
        BY CallShapes
  <2>2. why = None /\ why # "stale" /\ pc = "open"
        BY <2>1
  <2>3. active \in Nat \ {0} /\ held \in 0 .. active /\ wanted \in Nat
        OBVIOUS
  <2>4. unread = call.rows /\ call.rows \ unread = {} /\ active \in DOMAIN call.snaps \cup {1}
        OBVIOUS
  <2> QED BY <2>2, <2>3, <2>4 DEF Views
<1> QED BY <1>2, <1>3, <1>4 DEF Inv

\* Rows have comparable versions.
LEMMA VersionsCompare == ASSUME call \in Calls PROVE \A r \in call.rows : Version(r) \in Int
<1> SUFFICES ASSUME call \in Calls, NEW r \in call.rows PROVE Version(r) \in Int
    OBVIOUS
<1>1. r.ver \in Nat \cup {None}
      BY CallShapes
<1>2. -1 \in Int
      OBVIOUS
<1> QED BY <1>1, <1>2 DEF Version

------------------------------------------------------------------------------
(* Every step keeps the views' part: whatever row comes when, and however ACTIVE moves.                   *)

Causes == {"argument", "row", "stale", "changed", "no query"}

\* A failed call has a reason.
LEMMA CausesAreSome == None \notin Causes
BY CallShapes DEF Causes

\* Opening a snapshot reads no row.
LEMMA OpenViews == Views /\ Open => Views'
<1> SUFFICES ASSUME Views, Open PROVE Views'
    OBVIOUS
<1>1. pc = "open" /\ why = None /\ UNCHANGED <<call, active, unread, wanted>>
      BY DEF Open, Views
<1>2. (pc' = "failed" /\ why' = "argument") \/ (pc' = "read" /\ why' = None)
      BY <1>1 DEF Open, Fail
<1>3. active \in Nat \ {0} /\ held' \in 1 .. active
      BY DEF Open, Views
<1>4. held' \in 0 .. active'
      BY <1>1, <1>3
<1>5. pc' \in {"open", "read", "search", "done", "failed", "cancelled"} /\ (pc' = "failed") = (why' # None)
      BY <1>2, CausesAreSome DEF Causes
<1>6. why' # "stale" /\ pc' # "open" /\ pc' \notin {"search", "done"}
      BY <1>2, CausesAreSome DEF Causes
<1> QED BY <1>1, <1>4, <1>5, <1>6 DEF Views

\* A load moves ACTIVE only.
LEMMA LoadViews == Views /\ Load => Views'
<1> SUFFICES ASSUME Views, Load PROVE Views'
    OBVIOUS
<1>1. /\ active < Len(call.snaps) /\ active' = active + 1
      /\ UNCHANGED <<call, held, unread, wanted, journal, pc, why>>
      BY DEF Load
<1>2. call \in Calls /\ active \in Nat \ {0} /\ held \in 0 .. active
      BY DEF Views
<1>3. Len(call.snaps) \in Nat /\ DOMAIN call.snaps = 1 .. Len(call.snaps)
      BY <1>2, CallShapes, LenProperties
<1>4. active' \in Nat \ {0} /\ active' \in DOMAIN call'.snaps /\ held' \in 0 .. active'
      BY <1>1, <1>2, <1>3
<1> QED BY <1>1, <1>4 DEF Views

\* The wanted snapshot is the newest of the rows read.
LEMMA RowViews == Views /\ VSearchRow => Views'
<1> SUFFICES ASSUME Views, VSearchRow PROVE Views'
    OBVIOUS
<1>1. PICK r \in unread :
        /\ unread' = unread \ {r} /\ wanted' = Most(wanted, r.sid)
        /\ (pc' = "failed" /\ why' = "row") \/ UNCHANGED <<pc, why>>
      BY DEF VSearchRow, Fail
<1>2. pc = "read" /\ call.kind = "vsearch" /\ UNCHANGED <<call, active, held>>
      BY DEF VSearchRow
<1>3. call \in Calls /\ unread \subseteq call.rows /\ why = None
      BY <1>2 DEF Views
<1>4. r.sid \in Nat /\ wanted \in Nat /\ r \in call.rows /\ \A x \in call.rows : x.sid \in Nat
      BY <1>3, CallShapes DEF Views
<1>5. wanted' \in Nat /\ wanted <= wanted' /\ r.sid <= wanted' /\ (wanted' = wanted \/ wanted' = r.sid)
      BY <1>1, <1>4 DEF Most
<1>6. \A x \in call.rows \ unread' : x.sid <= wanted'
  <2> SUFFICES ASSUME NEW x \in call.rows \ unread' PROVE x.sid <= wanted'
      OBVIOUS
  <2>1. CASE x = r
        BY <1>5, <2>1
  <2>2. CASE x # r
    <3>1. x.sid <= wanted /\ x.sid \in Nat
          BY <1>1, <1>2, <1>4, <2>2 DEF Views
    <3> QED BY <1>4, <1>5, <3>1
  <2> QED BY <2>1, <2>2
<1>7. wanted' = 0 \/ \E x \in call.rows : x.sid = wanted'
      BY <1>2, <1>4, <1>5 DEF Views
<1>8. pc' \in {"failed", "read"} /\ (pc' = "failed") = (why' # None) /\ why' # "stale"
      BY <1>1, <1>2, <1>3, CausesAreSome DEF Causes
<1>9. unread' \subseteq call.rows
      BY <1>1, <1>3
<1>10. call' \in Calls /\ active' \in Nat \ {0} /\ active' \in DOMAIN call'.snaps \cup {1} /\ held' \in 0 .. active'
       BY <1>2 DEF Views
<1> QED BY <1>2, <1>5, <1>6, <1>7, <1>8, <1>9, <1>10 DEF Views

\* When all rows are read, the snapshot held is as new as they are, or the call fails as stale.
LEMMA ReopenViews == Views /\ VSearchReopen => Views'
<1> SUFFICES ASSUME Views, VSearchReopen PROVE Views'
    OBVIOUS
<1>1. /\ pc = "read" /\ call.kind = "vsearch" /\ unread = {} /\ why = None
      /\ held' = IF held < wanted THEN active ELSE held
      /\ UNCHANGED <<call, active, unread, wanted, journal>>
      BY DEF VSearchReopen, Views
<1>2. held \in Nat /\ active \in Nat /\ held' \in 0 .. active /\ wanted \in Nat /\ held' \in Nat
      BY <1>1 DEF Views
<1>3. \/ pc' = "failed" /\ why' = "stale" /\ held' < wanted
      \/ pc' = "failed" /\ why' \in {"changed", "no query"}
      \/ pc' = "search" /\ why' = None /\ ~(held' < wanted)
      BY <1>1 DEF VSearchReopen, Fail, Stale
<1>4. ~(held' < wanted) => wanted <= held'
      BY <1>2
<1>5. pc' \in {"failed", "search"} /\ (pc' = "failed") = (why' # None)
      BY <1>3, CausesAreSome DEF Causes
<1>6. why' = "stale" => held' < wanted
      BY <1>3, CausesAreSome DEF Causes
<1>7. pc' = "search" => wanted <= held'
      BY <1>3, <1>4
<1> QED BY <1>1, <1>2, <1>5, <1>6, <1>7 DEF Views

\* The other steps leave the snapshots as they are.
LEMMA OtherViews ==
    Views /\ (VSearchSearch \/ VKnnRow \/ VKnnEnd \/ VScanOpen \/ VScanRow \/ VScanEnd \/ Cancel) => Views'
<1> SUFFICES ASSUME Views, VSearchSearch \/ VKnnRow \/ VKnnEnd \/ VScanOpen \/ VScanRow \/ VScanEnd \/ Cancel
             PROVE  Views'
    OBVIOUS
<1>1. UNCHANGED <<call, active, held, wanted, journal>>
      BY DEF VSearchSearch, VKnnRow, VKnnEnd, VScanOpen, VScanRow, VScanEnd, Cancel
<1>2. unread' \subseteq unread /\ (call.kind = "vsearch" => unread' = unread)
      BY DEF VSearchSearch, VKnnRow, VKnnEnd, VScanOpen, VScanRow, VScanEnd, Cancel
<1>3. /\ pc \in {"open", "read", "search"} /\ why = None
      /\ call.kind = "vsearch" /\ pc' = "done" => pc = "search"
      /\ \/ pc' \in {"read", "done", "cancelled"} /\ why' = None
         \/ pc' = "failed" /\ why' \in {"argument", "row"} /\ call.kind # "vsearch"
  <2>1. pc \in {"open", "read", "search"} /\ why = None
        BY DEF VSearchSearch, VKnnRow, VKnnEnd, VScanOpen, VScanRow, VScanEnd, Cancel, Views
  <2>2. CASE VKnnRow
    <3>1. UNCHANGED <<pc, why>> \/ Fail("row")
          BY <2>2 DEF VKnnRow
    <3> QED BY <2>1, <2>2, <3>1 DEF VKnnRow, Fail
  <2>3. CASE VScanRow
        BY <2>1, <2>3 DEF VScanRow, Fail
  <2>4. CASE VScanOpen
        BY <2>1, <2>4 DEF VScanOpen, Fail
  <2>5. CASE VSearchSearch \/ VKnnEnd \/ VScanEnd \/ Cancel
        BY <2>1, <2>5 DEF VSearchSearch, VKnnEnd, VScanEnd, Cancel
  <2> QED BY <2>2, <2>3, <2>4, <2>5
<1>4. (pc' = "failed") = (why' # None) /\ why' # "stale" /\ pc' \notin {"open", "search"}
      BY <1>3, CausesAreSome DEF Causes
<1>5. pc' \in {"open", "read", "search", "done", "failed", "cancelled"}
      BY <1>3
<1>6. unread' \subseteq call.rows
      BY <1>2 DEF Views
<1>7. call.kind = "vsearch" /\ pc' = "done" => unread' = {} /\ wanted <= held
      BY <1>2, <1>3 DEF Views
<1> QED BY <1>1, <1>2, <1>4, <1>5, <1>6, <1>7 DEF Views

\* So every step keeps the views' part.
LEMMA ViewsStep == Views /\ [Next]_vars => Views'
<1>1. Views /\ UNCHANGED vars => Views'
      BY DEF vars, Views
<1> QED BY <1>1, OpenViews, LoadViews, RowViews, ReopenViews, OtherViews DEF Next

------------------------------------------------------------------------------
(* Every step keeps the journal of the rows read.                           *)

\* A row read is offered to the journal, or is none of its rows.
LEMMA JournalRow == Inv /\ VSearchRow => Journaled'
<1> SUFFICES ASSUME Inv, VSearchRow PROVE Journaled'
    OBVIOUS
<1>1. PICK r \in unread :
        /\ unread' = unread \ {r}
        /\ \/ pc' = "failed"
           \/ journal' = IF IsJournal(r) /\ settings.apply THEN Offered(journal, r) ELSE journal
      BY DEF VSearchRow, Fail
<1>2. pc = "read" /\ call.kind = "vsearch" /\ UNCHANGED <<call, settings>>
      BY DEF VSearchRow
<1>3. CASE pc' = "failed"
      BY <1>3 DEF Journaled
<1>4. CASE pc' # "failed"
  <2>1. PICK rows : rows = JournalRows \ unread
        OBVIOUS
  <2>2. PICK V : V = Vectors
        OBVIOUS
  <2>3. Keeps(journal, rows, V)
        BY <1>2, <2>1, <2>2 DEF Inv, Journaled
  <2>4. /\ r \in call.rows /\ r.vec \in V /\ V = Vectors' /\ JournalRows' = JournalRows
        /\ unread \subseteq call.rows /\ rows \subseteq call.rows
        BY <1>2, <2>1, <2>2 DEF Inv, Views, Vectors, JournalRows
  <2>5. \A x \in rows \cup {r} : Version(x) \in Int
        BY <2>4, VersionsCompare DEF Inv, Views
  <2>6. CASE IsJournal(r) /\ settings.apply
    <3>1. journal' = Offered(journal, r)
          BY <1>1, <1>4, <2>6
    <3>2. JournalRows' \ unread' = rows \cup {r}
          BY <1>1, <2>1, <2>4, <2>6 DEF JournalRows
    <3>3. Keeps(Offered(journal, r), rows \cup {r}, V)
          BY <2>3, <2>4, <2>5, OfferedKeeps
    <3>4. Keeps(journal', rows \cup {r}, V)
          BY <3>1, <3>3
    <3> QED BY <2>4, <3>2, <3>4 DEF Journaled
  <2>7. CASE ~(IsJournal(r) /\ settings.apply)
    <3>1. journal' = journal
          BY <1>1, <1>4, <2>7
    <3>2. JournalRows' \ unread' = rows
          BY <1>1, <2>1, <2>4, <2>7 DEF JournalRows
    <3>3. Keeps(journal', rows, V)
          BY <2>3, <3>1
    <3> QED BY <2>4, <3>2, <3>3 DEF Journaled
  <2> QED BY <2>6, <2>7
<1> QED BY <1>3, <1>4

\* No row is read before the settings are: they tell which rows count.
LEMMA JournalOpen == Inv /\ Open => Journaled'
<1> SUFFICES ASSUME Inv, Open PROVE Journaled'
    OBVIOUS
<1>1. pc = "open" /\ UNCHANGED <<call, unread, journal>>
      BY DEF Open
<1>2. journal = EmptyJournal /\ unread = call.rows
      BY <1>1 DEF Inv, Views
<1>3. JournalRows' \ unread' = {}
      BY <1>1, <1>2 DEF JournalRows
<1>4. journal' = EmptyJournal
      BY <1>1, <1>2
<1>5. Keeps(journal', {}, Vectors')
      BY <1>4, NothingKept
<1> QED BY <1>3, <1>5 DEF Journaled

\* The other steps leave the journal and the rows read as they are.
LEMMA JournalOther ==
    Inv /\ (UNCHANGED vars \/ Load \/ VSearchReopen \/ VSearchSearch \/ VKnnRow \/ VKnnEnd
            \/ VScanOpen \/ VScanRow \/ VScanEnd \/ Cancel) => Journaled'
<1> SUFFICES ASSUME Inv, call.kind = "vsearch", pc' # "failed",
                    UNCHANGED vars \/ Load \/ VSearchReopen \/ VSearchSearch \/ Cancel
             PROVE  Journaled'
  <2>1. VKnnRow \/ VKnnEnd \/ VScanOpen \/ VScanRow \/ VScanEnd => call'.kind # "vsearch"
        BY DEF VKnnRow, VKnnEnd, VScanOpen, VScanRow, VScanEnd
  <2>2. UNCHANGED vars \/ Load \/ VSearchReopen \/ VSearchSearch \/ Cancel => call' = call
        BY DEF vars, Load, VSearchReopen, VSearchSearch, Cancel
  <2> QED BY <2>1, <2>2 DEF Journaled
<1>1. pc # "failed" /\ UNCHANGED <<call, settings, unread, journal>>
      BY DEF vars, Load, VSearchReopen, VSearchSearch, Cancel
<1>2. Keeps(journal, JournalRows \ unread, Vectors)
      BY <1>1 DEF Inv, Journaled
<1>3. journal' = journal /\ (JournalRows \ unread)' = JournalRows \ unread /\ Vectors' = Vectors
      BY <1>1 DEF JournalRows, Vectors
<1>4. Keeps(journal', JournalRows' \ unread', Vectors')
      BY <1>2, <1>3
<1> QED BY <1>4 DEF Journaled

\* So every step keeps the journal that of the rows read.
LEMMA JournaledStep == Inv /\ [Next]_vars => Journaled'
BY JournalRow, JournalOpen, JournalOther DEF Next

------------------------------------------------------------------------------
(* Every step keeps the lists: what is asked is a vector, and what is answered is asked.                  *)

\* The queries that are given are vectors.
LEMMA GivenQueries ==
    ASSUME call \in Calls, NEW qs, DOMAIN qs = DOMAIN call.given, qs = [i \in DOMAIN call.given |-> qs[i]],
           \A i \in DOMAIN call.given : qs[i].vec = call.given[i]
    PROVE  ListOf(qs) /\ Len(qs) = Len(call.given) /\ \A i \in DOMAIN qs : qs[i].vec # None
<1>1. ListOf(call.given) /\ None \notin ToSet(call.given)
      BY CallShapes DEF ListOf
<1>2. Len(call.given) \in Nat /\ DOMAIN call.given = 1 .. Len(call.given)
      BY <1>1, ListsAreAnswers
<1>3. Answers(qs, Len(call.given))
      BY <1>2 DEF Answers
<1>4. ListOf(qs) /\ Len(qs) = Len(call.given)
      BY <1>2, <1>3, AnswersAreLists
<1> QED BY <1>1, <1>4 DEF ToSet

\* vsearch and vknn open with no answers.
LEMMA OpenLists == Inv /\ Open => Lists'
<1> SUFFICES ASSUME Inv, Open PROVE Lists'
    OBVIOUS
<1>1. /\ pc = "open" /\ call.kind # "vscan" /\ UNCHANGED <<call, out>> /\ pc' \in {"failed", "read"}
      /\ \/ queries' = queries
         \/ queries' = <<>>
         \/ call.kind # "vknn" /\ queries' = [i \in DOMAIN call.given |-> [qid |-> 0, vec |-> call.given[i]]]
      BY DEF Open, Fail
<1>2. queries = <<>> /\ out = <<>> /\ call \in Calls
      BY <1>1 DEF Inv, Lists, Views
<1>3. CASE queries' = <<>>
      BY <1>1, <1>2, <1>3, EmptyList DEF Lists
<1>4. CASE call.kind # "vknn" /\ queries' = [i \in DOMAIN call.given |-> [qid |-> 0, vec |-> call.given[i]]]
  <2>1. ListOf(queries') /\ \A i \in DOMAIN queries' : queries'[i].vec # None
        BY <1>2, <1>4, GivenQueries
  <2> QED BY <1>1, <1>2, <1>4, <2>1, EmptyList DEF Lists
<1> QED BY <1>1, <1>2, <1>3, <1>4

\* vscan opens with an empty answer for every query.
LEMMA ScanOpenLists == Inv /\ VScanOpen => Lists'
<1> SUFFICES ASSUME Inv, VScanOpen PROVE Lists'
    OBVIOUS
<1>1. /\ pc = "open" /\ UNCHANGED call /\ pc' \in {"failed", "read"}
      /\ \/ UNCHANGED <<queries, out>>
         \/ /\ queries' = [i \in DOMAIN call.given |-> [qid |-> i, vec |-> call.given[i]]]
            /\ out' = NoneYet(call.given)
      BY DEF VScanOpen, Fail
<1>2. queries = <<>> /\ out = <<>> /\ call \in Calls
      BY <1>1 DEF Inv, Lists, Views
<1>3. CASE UNCHANGED <<queries, out>>
      BY <1>1, <1>2, <1>3, EmptyList DEF Lists
<1>4. CASE /\ queries' = [i \in DOMAIN call.given |-> [qid |-> i, vec |-> call.given[i]]]
           /\ out' = NoneYet(call.given)
  <2>1. ListOf(queries') /\ Len(queries') = Len(call.given) /\ \A i \in DOMAIN queries' : queries'[i].vec # None
        BY <1>2, <1>4, GivenQueries
  <2>2. ListOf(call.given)
        BY <1>2, CallShapes DEF ListOf
  <2>3. Len(call.given) \in Nat /\ DOMAIN call.given = 1 .. Len(call.given)
        BY <2>2, ListsAreAnswers
  <2>4. Answers(out', Len(call.given))
        BY <1>4, <2>3 DEF NoneYet, Answers
  <2>5. ListOf(out') /\ Len(out') = Len(call.given)
        BY <2>3, <2>4, AnswersAreLists
  <2> QED BY <1>1, <2>1, <2>5 DEF Lists
<1> QED BY <1>1, <1>3, <1>4

\* A query row is a query more.
LEMMA RowLists == Inv /\ VSearchRow => Lists'
<1> SUFFICES ASSUME Inv, VSearchRow PROVE Lists'
    OBVIOUS
<1>1. PICK r \in unread :
        IF RowError(r) THEN Fail("row") /\ UNCHANGED queries
        ELSE /\ queries' = IF IsQuery(r) THEN Append(queries, [qid |-> r.qid, vec |-> r.qvec]) ELSE queries
             /\ UNCHANGED <<pc, why>>
      BY DEF VSearchRow
<1>2. pc = "read" /\ call.kind = "vsearch" /\ UNCHANGED <<call, out>>
      BY DEF VSearchRow
<1>3. pc' \in {"read", "failed"}
      BY <1>1, <1>2 DEF Fail
<1>4. CASE queries' = queries
      BY <1>2, <1>3, <1>4 DEF Inv, Lists
<1>5. CASE ~RowError(r) /\ IsQuery(r)
  <2>1. PICK q : q = [qid |-> r.qid, vec |-> r.qvec]
        OBVIOUS
  <2>2. q.vec # None /\ queries' = Append(queries, q) /\ ListOf(queries)
        BY <1>1, <1>5, <2>1 DEF RowError, Inv, Lists
  <2>3. /\ ListOf(queries') /\ Len(queries) \in Nat /\ DOMAIN queries = 1 .. Len(queries)
        /\ DOMAIN queries' = 1 .. Len(queries) + 1
        /\ \A i \in 1 .. Len(queries) : queries'[i] = queries[i]
        /\ queries'[Len(queries) + 1] = q
        BY <2>2, ListsAppend
  <2>4. \A i \in 1 .. Len(queries) + 1 : i \in 1 .. Len(queries) \/ i = Len(queries) + 1
        BY <2>3
  <2>5. \A i \in DOMAIN queries' : queries'[i].vec # None
        BY <2>2, <2>3, <2>4 DEF Inv, Lists
  <2> QED BY <1>2, <1>3, <2>3, <2>5 DEF Inv, Lists
<1> QED BY <1>1, <1>4, <1>5

\* vsearch answers all its queries at once.
LEMMA SearchLists == Inv /\ VSearchSearch => Lists'
<1> SUFFICES ASSUME Inv, VSearchSearch PROVE Lists'
    OBVIOUS
<1>1. PICK set, plan, skip, extra, turn :
        out' = IndexSearch(Describe(queries), set, plan, skip, extra, turn, call.misses, pool).out
      BY DEF VSearchSearch
<1>2. UNCHANGED <<call, queries>> /\ pc' = "done"
      BY DEF VSearchSearch
<1>3. Len(queries) \in Nat /\ DOMAIN queries = 1 .. Len(queries)
      BY ListsAreAnswers DEF Inv, Lists
<1>4. PICK s : s = Describe(queries)
      OBVIOUS
<1>5. /\ DOMAIN s.queries = 1 .. Len(queries)
      /\ s = [queries |-> s.queries, k |-> s.k, radius |-> s.radius, threads |-> s.threads]
      BY <1>3, <1>4 DEF Describe
<1>6. Answers(out', Len(queries))
      BY <1>1, <1>3, <1>4, <1>5, SearchAnswers
<1>7. ListOf(out') /\ Len(out') = Len(queries)
      BY <1>3, <1>6, AnswersAreLists
<1> QED BY <1>2, <1>7 DEF Inv, Lists

\* A row of vknn is a query and an answer more, or neither.
LEMMA KnnLists == Inv /\ VKnnRow => Lists'
<1> SUFFICES ASSUME Inv, VKnnRow PROVE Lists'
    OBVIOUS
<1>1. pc = "read" /\ call.kind = "vknn" /\ UNCHANGED call /\ pc' \in {"read", "failed"}
      BY DEF VKnnRow, Fail
<1>2. ListOf(queries) /\ ListOf(out) /\ Len(out) = Len(queries) /\ \A i \in DOMAIN queries : queries[i].vec # None
      BY <1>1 DEF Inv, Lists
<1>3. CASE UNCHANGED <<queries, out>>
      BY <1>1, <1>2, <1>3 DEF Lists
<1>4. CASE ~UNCHANGED <<queries, out>>
  <2>1. PICK q, one, turn, plan :
          /\ q.vec # None /\ one = <<q>> /\ queries' = queries \o one
          /\ out' = out \o IndexSearch(Describe(one), Set, plan, Set.dead, <<>>, turn, call.misses, pool).out
    <3>1. PICK r, vec, one :
            /\ vec # None /\ one = <<[qid |-> r.qid, vec |-> vec]>> /\ queries' = queries \o one
            /\ \E turn \in Turns :
                 out' = out \o IndexSearch(Describe(one), Set, Plan(settings, Set, FALSE, {}), Set.dead, <<>>,
                                           turn, call.misses, pool).out
          BY <1>4 DEF VKnnRow
    <3>2. [qid |-> r.qid, vec |-> vec].vec # None
          BY <3>1
    <3> QED BY <3>1, <3>2
  <2>2. PICK found :
          found = IndexSearch(Describe(one), Set, plan, Set.dead, <<>>, turn, call.misses, pool).out
        OBVIOUS
  <2>3. DOMAIN one = 1 .. 1
        BY <2>1
  <2>4. PICK s : s = Describe(one)
        OBVIOUS
  <2>5. /\ DOMAIN s.queries = 1 .. 1
        /\ s = [queries |-> s.queries, k |-> s.k, radius |-> s.radius, threads |-> s.threads]
        BY <2>3, <2>4 DEF Describe
  <2>6. Answers(found, 1)
        BY <2>2, <2>4, <2>5, SearchAnswers
  <2>7. ListOf(found) /\ Len(found) = 1
        BY <2>6, AnswersAreLists
  <2>8. ListOf(out') /\ Len(out') = Len(out) + 1
        BY <1>2, <2>1, <2>2, <2>7, ListsConcat
  <2>9. queries' = Append(queries, q)
        BY <1>2, <2>1 DEF ListOf
  <2>10. /\ ListOf(queries') /\ Len(queries) \in Nat /\ DOMAIN queries = 1 .. Len(queries)
         /\ DOMAIN queries' = 1 .. Len(queries) + 1 /\ Len(queries') = Len(queries) + 1
         /\ \A i \in 1 .. Len(queries) : queries'[i] = queries[i]
         /\ queries'[Len(queries) + 1] = q
         BY <1>2, <2>9, ListsAppend
  <2>11. \A i \in 1 .. Len(queries) + 1 : i \in 1 .. Len(queries) \/ i = Len(queries) + 1
         BY <2>10
  <2>12. \A i \in DOMAIN queries' : queries'[i].vec # None
         BY <1>2, <2>1, <2>10, <2>11
  <2>13. Len(out') = Len(queries')
         BY <1>2, <2>8, <2>10
  <2> QED BY <1>1, <2>8, <2>10, <2>12, <2>13 DEF Lists
<1> QED BY <1>3, <1>4

\* A flush keeps as many answers.
LEMMA FlushedAnswers ==
    ASSUME ListOf(out), NEW rows, NEW turn
    PROVE  ListOf(Flushed(rows, turn)) /\ Len(Flushed(rows, turn)) = Len(out)
<1>1. Len(out) \in Nat /\ Answers(out, Len(out))
      BY ListsAreAnswers
<1>2. Answers(Flushed(rows, turn), Len(out))
      BY <1>1, MergedAnswers DEF Flushed
<1> QED BY <1>1, <1>2, AnswersAreLists

\* Rows of a table are no queries.
LEMMA ScanLists == Inv /\ (VScanRow \/ VScanEnd) => Lists'
<1> SUFFICES ASSUME Inv, VScanRow \/ VScanEnd PROVE Lists'
    OBVIOUS
<1>1. pc = "read" /\ call.kind = "vscan" /\ UNCHANGED <<call, queries>> /\ pc' \in {"read", "failed", "done"}
      BY DEF VScanRow, VScanEnd, Fail
<1>2. out' = out \/ \E rows, turn : out' = Flushed(rows, turn)
  <2>1. CASE VScanRow
    <3>1. PICK rows, full :
            \/ UNCHANGED out
            \/ \E turn \in Turns : out' = IF full THEN Flushed(rows, turn) ELSE out
          BY <2>1 DEF VScanRow
    <3> QED BY <3>1
  <2>2. CASE VScanEnd
        BY <2>2 DEF VScanEnd
  <2> QED BY <2>1, <2>2
<1>3. ListOf(out') /\ Len(out') = Len(out)
      BY <1>2, FlushedAnswers DEF Inv, Lists
<1> QED BY <1>1, <1>3 DEF Inv, Lists

\* The other steps leave the lists as they are.
LEMMA OtherLists == Inv /\ (UNCHANGED vars \/ Load \/ VSearchReopen \/ VKnnEnd \/ Cancel) => Lists'
<1> SUFFICES ASSUME Inv, UNCHANGED vars \/ Load \/ VSearchReopen \/ VKnnEnd \/ Cancel PROVE Lists'
    OBVIOUS
<1>1. UNCHANGED <<call, queries, out>> /\ (pc' = "open" => pc = "open")
      BY DEF vars, Load, VSearchReopen, VKnnEnd, Cancel, Fail
<1>2. pc' = "done" => pc = "done" \/ call.kind = "vknn"
      BY DEF vars, Load, VSearchReopen, VKnnEnd, Cancel, Fail
<1> QED BY <1>1, <1>2 DEF Inv, Lists

\* So every step keeps the lists.
LEMMA ListsStep == Inv /\ [Next]_vars => Lists'
BY OpenLists, ScanOpenLists, RowLists, SearchLists, KnnLists, ScanLists, OtherLists DEF Next

------------------------------------------------------------------------------
(* Theorems.                                                                *)

\* The types follow.
LEMMA TypesFollow == Inv => TypeOK
BY DEF Inv, Views, Lists, TypeOK

\* So does the journal's property.
LEMMA NewestFollow == Inv => NewestRowsKept
<1> DEFINE rows == JournalRows \ unread
           live == {id \in DOMAIN journal.entry : ~journal.entry[id].del}
<1> SUFFICES ASSUME Inv, pc \in {"read", "search", "done"}, call.kind = "vsearch"
             PROVE  /\ DOMAIN journal.entry = {r.id : r \in rows}
                    /\ \A id \in DOMAIN journal.entry : \E r \in rows :
                        /\ r.id = id /\ IsNewest(rows, r)
                        /\ id \in live <=> r.del # TRUE
                        /\ id \in live => journal.slots[journal.entry[id].slot] = r.vec
                    /\ \A id \in live : journal.entry[id].slot \notin ToSet(journal.free)
                    /\ \A a, b \in live : journal.entry[a].slot = journal.entry[b].slot => a = b
    BY DEF NewestRowsKept
<1> HIDE DEF rows
<1>1. Keeps(journal, rows, Vectors)
      BY DEF Inv, Journaled, rows
<1>2. ASSUME NEW id \in DOMAIN journal.entry
      PROVE  \E r \in rows :
                /\ r.id = id /\ IsNewest(rows, r)
                /\ id \in live <=> r.del # TRUE
                /\ id \in live => journal.slots[journal.entry[id].slot] = r.vec
  <2>1. Speaks(journal, rows, id)
        BY <1>1 DEF Keeps
  <2>2. PICK r \in rows :
          /\ r.id = id /\ IsNewest(rows, r)
          /\ journal.entry[id].del <=> r.del = TRUE
          /\ r.del # TRUE => journal.slots[journal.entry[id].slot] = r.vec
        BY <2>1 DEF Speaks
  <2>3. id \in live <=> r.del # TRUE
        BY <2>2
  <2> QED BY <2>2, <2>3
<1>3. ASSUME NEW id \in live
      PROVE  journal.entry[id].slot \notin ToSet(journal.free)
  <2>1. DOMAIN journal.free = 1 .. Len(journal.free)
        BY <1>1 DEF Keeps, Slotted
  <2>2. \A a \in 1 .. Len(journal.free) : journal.free[a] # journal.entry[id].slot
        BY <1>1 DEF Keeps, Slotted
  <2> QED BY <2>1, <2>2 DEF ToSet
<1>4. \A a, b \in live : journal.entry[a].slot = journal.entry[b].slot => a = b
      BY <1>1 DEF Keeps, Slotted
<1>5. DOMAIN journal.entry = {r.id : r \in rows}
      BY <1>1 DEF Keeps
<1> QED BY <1>2, <1>3, <1>4, <1>5

\* And that of the snapshots.
LEMMA WantedFollows == Inv => WantedSnapshot
<1> SUFFICES ASSUME Inv PROVE WantedSnapshot
    OBVIOUS
<1>1. call \in Calls /\ held \in Nat /\ wanted \in Nat
      BY DEF Inv, Views
<1>2. \A r \in call.rows : r.sid \in Nat
      BY <1>1, CallShapes
<1>3. ASSUME pc = "done", NEW r \in call.rows, call.kind = "vsearch"
      PROVE  r.sid <= held
  <2>1. r.sid <= wanted /\ wanted <= held
        BY <1>3 DEF Inv, Views
  <2> QED BY <1>1, <1>2, <2>1
<1>4. ASSUME why = "stale"
      PROVE  \E r \in call.rows : r.sid > held
  <2>1. held < wanted /\ (wanted = 0 \/ \E r \in call.rows : r.sid = wanted)
        BY <1>4 DEF Inv, Views
  <2> QED BY <1>1, <2>1
<1> QED BY <1>3, <1>4 DEF WantedSnapshot

\* What every call keeps to: the view's snapshot is never ahead of the one an answer comes from, the journal is
\* that of the rows read, and answers stand beside queries (vsearch.cpp, vknn.cpp, vscan.cpp).
THEOREM SearchInvariant == Spec => []Inv
<1>1. Inv /\ [Next]_vars => Inv'
      BY ViewsStep, JournaledStep, ListsStep DEF Inv
<1> HIDE DEF Inv
<1> QED BY InitInv, <1>1, PTL DEF Spec

\* Every variable stays in its type, a failed call has its reason, and a call that ends has one answer for every
\* query, by whatever plan, threads and visited arrays it was found.
THEOREM SearchTypeCorrect == Spec => []TypeOK
<1> HIDE DEF Inv, TypeOK
<1> QED BY SearchInvariant, TypesFollow, PTL

\* Journal.offer keeps the newest row of every id in whatever order the rows come, and never gives the slot of a
\* live vector to another id (vsearch.cpp).
THEOREM NewestRowsAreKept == Spec => []NewestRowsKept
<1> HIDE DEF Inv, NewestRowsKept
<1> QED BY SearchInvariant, NewestFollow, PTL

\* vsearch answers from a snapshot no older than its rows' and calls the cache stale only when it is, however
\* ACTIVE moves meanwhile (vsearch.cpp).
THEOREM WantedSnapshotAnswers == Spec => []WantedSnapshot
<1> HIDE DEF Inv, WantedSnapshot
<1> QED BY SearchInvariant, WantedFollows, PTL

------------------------------------------------------------------------------
(* Lists without repetition; folds; lists put one after the other.         *)

\* A set of numbers has a least one.
LEMMA LeastNat == ASSUME NEW T \in SUBSET Nat, T # {} PROVE \E x \in T : \A y \in T : x <= y
<1> DEFINE Less == {ss \in Nat \X Nat : ss[1] < ss[2]}
<1>1. IsWellFoundedOn(Less, Nat)
      BY NatLessThanWellFounded DEF OpToRel
<1>2. PICK x \in T : \A y \in T : ~(<<y, x>> \in Less)
  <2> HIDE DEF Less
  <2> QED BY <1>1, WFMin
<1>3. \A y \in T : ~(y < x)
      BY <1>2
<1> QED BY <1>3

\* What holds at first and from each number to the next holds up to the last: T are those where it does.
LEMMA CountUp ==
    ASSUME NEW n \in Nat, NEW T, 0 \in T, \A k \in 0 .. n - 1 : k \in T => k + 1 \in T
    PROVE  \A k \in 0 .. n : k \in T
<1> DEFINE F == {k \in 0 .. n : k \notin T}
<1>1. F = {}
  <2> SUFFICES ASSUME F # {} PROVE FALSE
      OBVIOUS
  <2>1. F \in SUBSET Nat
        OBVIOUS
  <2>2. PICK k \in F : \A i \in F : k <= i
    <3> HIDE DEF F
    <3> QED BY <2>1, LeastNat
  <2>3. k \in 0 .. n /\ k # 0 /\ k \notin T
        OBVIOUS
  <2>4. k - 1 \in 0 .. n - 1 /\ k - 1 \in 0 .. n /\ k = (k - 1) + 1
        BY <2>3
  <2>5. k - 1 \notin F
        BY <2>2, <2>3
  <2>6. k - 1 \in T
        BY <2>4, <2>5
  <2> QED BY <2>3, <2>4, <2>6
<1> QED BY <1>1

\* Every member of S once.
Enumerates(q, S) ==
    /\ q \in Seq(S)
    /\ \A i, j \in 1 .. Len(q) : q[i] = q[j] => i = j
    /\ \A x \in S : \E i \in 1 .. Len(q) : q[i] = x

\* Nothing enumerates the empty set.
LEMMA EnumeratesNone == Enumerates(<<>>, {})
BY DEF Enumerates

\* Two lists that share nothing, one after the other.
LEMMA ConcatEnumerates ==
    ASSUME NEW p, NEW q, NEW A, NEW B, Enumerates(p, A), Enumerates(q, B), A \cap B = {}
    PROVE  Enumerates(p \o q, A \cup B)
<1>1. p \in Seq(A \cup B) /\ q \in Seq(A \cup B) /\ Len(p) \in Nat /\ Len(q) \in Nat
      BY SeqMonotonic, LenProperties DEF Enumerates
<1>2. /\ p \o q \in Seq(A \cup B) /\ Len(p \o q) = Len(p) + Len(q)
      /\ \A i \in 1 .. Len(p) + Len(q) : (p \o q)[i] = IF i <= Len(p) THEN p[i] ELSE q[i - Len(p)]
      BY <1>1, ConcatProperties
<1>3. PICK r, m, n : r = p \o q /\ m = Len(p) /\ n = Len(q)
      OBVIOUS
<1>4. /\ m \in Nat /\ n \in Nat /\ r \in Seq(A \cup B) /\ Len(r) = m + n
      /\ \A i \in 1 .. m : r[i] = p[i] /\ p[i] \in A
      /\ \A i \in 1 .. n : r[m + i] = q[i] /\ q[i] \in B
  <2>1. \A i \in 1 .. m : p[i] \in A
        BY <1>3, ElementOfSeq DEF Enumerates
  <2>2. \A i \in 1 .. n : q[i] \in B
        BY <1>3, ElementOfSeq DEF Enumerates
  <2>3. \A i \in 1 .. m : r[i] = p[i]
        BY <1>1, <1>2, <1>3
  <2>4. ASSUME NEW i \in 1 .. n PROVE r[m + i] = q[i]
    <3>1. m + i \in 1 .. m + n /\ ~(m + i <= m) /\ m + i - m = i
          BY <1>1, <1>3
    <3> QED BY <1>2, <1>3, <3>1
  <2> QED BY <1>1, <1>2, <1>3, <2>1, <2>2, <2>3, <2>4
<1>5. \A i \in 1 .. m + n : i \in 1 .. m \/ (i - m \in 1 .. n /\ i = m + (i - m))
      BY <1>4
<1>6. /\ \A i, j \in 1 .. m : p[i] = p[j] => i = j
      /\ \A i, j \in 1 .. n : q[i] = q[j] => i = j
      BY <1>3 DEF Enumerates
<1>7. ASSUME NEW i \in 1 .. m + n, NEW j \in 1 .. m + n, r[i] = r[j] PROVE i = j
  <2>1. CASE i \in 1 .. m
    <3>1. j \in 1 .. m
          BY <1>4, <1>5, <1>7, <2>1
    <3> QED BY <1>4, <1>6, <1>7, <2>1, <3>1
  <2>2. CASE i \notin 1 .. m
    <3>1. i - m \in 1 .. n /\ i = m + (i - m)
          BY <1>5, <2>2
    <3>2. r[i] = q[i - m] /\ r[i] \in B
          BY <1>4, <3>1
    <3>3. j \notin 1 .. m
          BY <1>4, <1>7, <3>2
    <3>4. j - m \in 1 .. n /\ j = m + (j - m)
          BY <1>5, <3>3
    <3>5. r[j] = q[j - m]
          BY <1>4, <3>4
    <3>6. i - m = j - m
          BY <1>6, <1>7, <3>1, <3>2, <3>4, <3>5
    <3> QED BY <1>4, <3>6
  <2> QED BY <2>1, <2>2
<1>8. ASSUME NEW x \in A \cup B PROVE \E i \in 1 .. m + n : r[i] = x
  <2>1. CASE x \in A
    <3>1. PICK i \in 1 .. m : p[i] = x
          BY <1>3, <2>1 DEF Enumerates
    <3>2. i \in 1 .. m + n
          BY <1>4
    <3> QED BY <1>4, <3>1, <3>2
  <2>2. CASE x \in B
    <3>1. PICK i \in 1 .. n : q[i] = x
          BY <1>3, <2>2 DEF Enumerates
    <3>2. m + i \in 1 .. m + n
          BY <1>4
    <3> QED BY <1>4, <3>1, <3>2
  <2> QED BY <2>1, <2>2
<1> QED BY <1>3, <1>4, <1>7, <1>8 DEF Enumerates

\* The recursion of FlattenSeq.
Flattens(f, ss, n) == f = [i \in 1 .. n |-> IF i = 1 THEN ss[i] ELSE f[i - 1] \o ss[i]]

\* Its steps.
LEMMA FlattensAt ==
    ASSUME NEW f, NEW ss, NEW n \in Nat \ {0}, Flattens(f, ss, n)
    PROVE  f[1] = ss[1] /\ \A k \in 1 .. n - 1 : f[k + 1] = f[k] \o ss[k + 1]
<1>1. 1 \in 1 .. n /\ \A k \in 1 .. n - 1 : k + 1 \in 1 .. n /\ k + 1 # 1 /\ k + 1 - 1 = k
      OBVIOUS
<1>2. ASSUME NEW i \in 1 .. n PROVE f[i] = IF i = 1 THEN ss[i] ELSE f[i - 1] \o ss[i]
      BY DEF Flattens
<1>3. ASSUME NEW k \in 1 .. n - 1 PROVE f[k + 1] = f[k] \o ss[k + 1]
  <2>1. PICK i : i = k + 1
        OBVIOUS
  <2>2. i \in 1 .. n /\ i # 1 /\ i - 1 = k
        BY <1>1, <2>1
  <2>3. f[i] = f[i - 1] \o ss[i]
        BY <1>2, <2>2
  <2> QED BY <2>1, <2>2, <2>3
<1> QED BY <1>1, <1>2, <1>3

\* There is such a function.
LEMMA FlattenFound == ASSUME NEW ss, NEW n \in Nat PROVE \E f : Flattens(f, ss, n)
<1> DEFINE body(f, i) == IF i = 1 THEN ss[i] ELSE f[i - 1] \o ss[i]
           Is(k, f) == f = [i \in 1 .. k |-> body(f, i)]
           T == {k \in 0 .. n : \E f : Is(k, f)}
<1>1. \E f : Is(0, f)
  <2> DEFINE g == [i \in 1 .. 0 |-> 0]
  <2>1. Is(0, g)
    <3>1. 1 .. 0 = {}
          OBVIOUS
    <3> QED BY <3>1
  <2> HIDE DEF Is, g
  <2> QED BY <2>1
<1>2. ASSUME NEW k \in 0 .. n - 1, NEW f, Is(k, f) PROVE \E g : Is(k + 1, g)
  <2> DEFINE g == [i \in 1 .. k + 1 |-> body(f, i)]
  <2>1. ASSUME NEW i \in 1 .. k PROVE g[i] = f[i]
    <3>1. f[i] = body(f, i)
      <4> HIDE DEF body
      <4> QED BY <1>2
    <3>2. g[i] = body(f, i)
      <4>1. i \in 1 .. k + 1
            OBVIOUS
      <4> HIDE DEF body
      <4> QED BY <4>1
    <3> HIDE DEF g, body
    <3> QED BY <3>1, <3>2
  <2>2. ASSUME NEW i \in 1 .. k + 1 PROVE g[i] = body(g, i)
    <3>1. g[i] = body(f, i)
      <4> HIDE DEF body
      <4> QED OBVIOUS
    <3>2. i # 1 => i - 1 \in 1 .. k
          OBVIOUS
    <3>3. i # 1 => g[i - 1] = f[i - 1]
          BY <2>1, <3>2
    <3> HIDE DEF g
    <3> QED BY <3>1, <3>3
  <2>3. Is(k + 1, g)
    <3>1. g = [i \in 1 .. k + 1 |-> g[i]]
          OBVIOUS
    <3>2. [i \in 1 .. k + 1 |-> g[i]] = [i \in 1 .. k + 1 |-> body(g, i)]
      <4> HIDE DEF g, body
      <4> QED BY <2>2
    <3> HIDE DEF g, body
    <3> QED BY <3>1, <3>2
  <2> HIDE DEF g, Is
  <2> QED BY <2>3
<1>3. 0 \in T /\ \A k \in 0 .. n - 1 : k \in T => k + 1 \in T
  <2>1. 0 \in 0 .. n /\ \A k \in 0 .. n - 1 : k + 1 \in 0 .. n
        OBVIOUS
  <2> HIDE DEF Is
  <2> QED BY <1>1, <1>2, <2>1
<1>4. n \in T
  <2>1. n \in 0 .. n
        OBVIOUS
  <2> HIDE DEF T
  <2> QED BY <1>3, <2>1, CountUp
<1>5. PICK f : Is(n, f)
  <2> HIDE DEF Is
  <2> QED BY <1>4
<1> QED BY <1>5 DEF Flattens

\* Lists of sets that share nothing, one after the other, enumerate their union.
LEMMA FlattenEnumerates ==
    ASSUME NEW n \in Nat, NEW ss, Answers(ss, n), NEW sets,
           \A u \in 1 .. n : Enumerates(ss[u], sets[u]),
           \A u, v \in 1 .. n : u # v => sets[u] \cap sets[v] = {}
    PROVE  Enumerates(FlattenSeq(ss), UNION {sets[u] : u \in 1 .. n})
<1>1. Len(ss) = n /\ DOMAIN ss = 1 .. n
  <2>1. ss \in [1 .. n -> {ss[i] : i \in 1 .. n}] /\ DOMAIN ss = 1 .. n
        BY DEF Answers
  <2>2. ss \in Seq({ss[i] : i \in 1 .. n})
        BY <2>1, SeqDef
  <2>3. Len(ss) \in Nat /\ DOMAIN ss = 1 .. Len(ss)
        BY <2>2, LenProperties
  <2>4. PICK m : m = Len(ss)
        OBVIOUS
  <2>5. m \in Nat /\ 1 .. m = 1 .. n
        BY <2>1, <2>3, <2>4
  <2>6. m = n
    <3>1. (m > 0 => m \in 1 .. m) /\ (n > 0 => n \in 1 .. n)
          BY <2>5
    <3>2. (m > 0 => m \in 1 .. n) /\ (n > 0 => n \in 1 .. m)
          BY <2>5, <3>1
    <3> QED BY <2>5, <3>2
  <2> QED BY <2>1, <2>4, <2>6
<1>2. CASE n = 0
  <2>1. FlattenSeq(ss) = ss
        BY <1>1, <1>2 DEF FlattenSeq
  <2>2. 1 .. n = {}
        BY <1>2
  <2>3. ss = <<>> /\ UNION {sets[u] : u \in 1 .. n} = {}
        BY <1>1, <2>2 DEF Answers
  <2> QED BY <2>1, <2>3, EnumeratesNone
<1>3. CASE n # 0
  <2>1. PICK f : f = (CHOOSE g : Flattens(g, ss, n)) /\ Flattens(f, ss, n)
        BY FlattenFound
  <2>2. FlattenSeq(ss) = f[n]
        BY <1>1, <1>3, <2>1 DEF FlattenSeq, Flattens
  <2>3. f[1] = ss[1] /\ \A k \in 1 .. n - 1 : f[k + 1] = f[k] \o ss[k + 1]
    <3>1. Flattens(f, ss, n) /\ n \in Nat \ {0}
          BY <1>3, <2>1
    <3> QED BY <3>1, FlattensAt
  <2> DEFINE upto(k) == UNION {sets[u] : u \in 1 .. k}
             T == {k \in 0 .. n : k = 0 \/ Enumerates(f[k], upto(k))}
  <2>4. ASSUME NEW k \in 0 .. n - 1, k \in T PROVE k + 1 \in T
    <3>1. CASE k = 0
      <4>1. upto(k + 1) = sets[1]
        <5>1. 1 .. k + 1 = {1}
              BY <3>1
        <5> QED BY <5>1
      <4>2. 1 \in 1 .. n
            BY <1>3
      <4>3. Enumerates(f[1], sets[1])
            BY <2>3, <4>2
      <4>4. k + 1 = 1 /\ k + 1 \in 0 .. n
            BY <3>1
      <4> HIDE DEF upto
      <4> QED BY <4>1, <4>3, <4>4
    <3>2. CASE k # 0
      <4>1. Enumerates(f[k], upto(k)) /\ k \in 1 .. n - 1
        <5> HIDE DEF upto
        <5> QED BY <2>4, <3>2
      <4>2. Enumerates(ss[k + 1], sets[k + 1])
            OBVIOUS
      <4>3. upto(k) \cap sets[k + 1] = {}
        <5>1. \A u \in 1 .. k : u \in 1 .. n /\ k + 1 \in 1 .. n /\ u # k + 1
              OBVIOUS
        <5> QED BY <5>1
      <4>4. upto(k) \cup sets[k + 1] = upto(k + 1)
        <5>1. 1 .. k + 1 = (1 .. k) \cup {k + 1}
              BY <4>1
        <5> QED BY <5>1
      <4>5. f[k + 1] = f[k] \o ss[k + 1]
            BY <2>3, <4>1
      <4>6. k + 1 \in 0 .. n
            OBVIOUS
      <4> HIDE DEF upto
      <4>7. Enumerates(f[k] \o ss[k + 1], upto(k) \cup sets[k + 1])
            BY <4>1, <4>2, <4>3, ConcatEnumerates
      <4> QED BY <4>4, <4>5, <4>6, <4>7
    <3> QED BY <3>1, <3>2
  <2>5. n \in T
    <3>1. 0 \in T /\ n \in 0 .. n
          OBVIOUS
    <3> HIDE DEF T
    <3> QED BY <2>4, <3>1, CountUp
  <2>6. Enumerates(f[n], upto(n))
    <3> HIDE DEF upto
    <3> QED BY <1>3, <2>5
  <2> QED BY <2>2, <2>6
<1> QED BY <1>2, <1>3

\* The greatest of some numbers.
LEMMA MaxIs ==
    ASSUME NEW m \in Nat, NEW S \in SUBSET (1 .. m), S # {}
    PROVE  Max(S) \in S /\ \A y \in S : Max(S) >= y
<1> DEFINE T == {m - x : x \in S}
<1>1. T \in SUBSET Nat /\ T # {}
  <2>1. \A x \in S : x \in Int /\ x <= m
        OBVIOUS
  <2>2. \A x \in S : m - x \in Nat
        BY <2>1
  <2> QED BY <2>2
<1>2. PICK t \in T : \A u \in T : t <= u
  <2> HIDE DEF T
  <2> QED BY <1>1, LeastNat
<1>3. PICK x \in S : t = m - x
      OBVIOUS
<1>4. \A y \in S : x >= y
  <2> TAKE y \in S
  <2>1. m - x <= m - y
        BY <1>2, <1>3
  <2> QED BY <2>1
<1> QED BY <1>4 DEF Max

\* The greatest of the first k numbers is the k-th.
LEMMA MaxOfInterval ==
    ASSUME NEW m \in Nat, NEW k \in 1 .. m
    PROVE  1 .. k \in SUBSET (1 .. m) /\ 1 .. k # {} /\ Max(1 .. k) = k /\ (1 .. k) \ {k} = 1 .. k - 1
<1>1. PICK S : S = 1 .. k
      OBVIOUS
<1>2. S \in SUBSET (1 .. m) /\ k \in S /\ S \ {k} = 1 .. k - 1 /\ \A y \in S : k >= y
      BY <1>1
<1>3. Max(S) \in S /\ Max(S) >= k
      BY <1>2, MaxIs
<1>4. Max(S) = k
      BY <1>2, <1>3
<1> QED BY <1>1, <1>2, <1>4

\* The recursion of FoldLeft over a list of m: step takes what is folded so far and the place of the next.
FoldsUp(f, m, base, step) ==
    f = [S \in SUBSET (1 .. m) |-> IF S = {} THEN base ELSE step[<<f[S \ {Max(S)}], Max(S)>>]]

\* There is such a function.
LEMMA FoldFound == ASSUME NEW m \in Nat, NEW base, NEW step PROVE \E f : FoldsUp(f, m, base, step)
<1> DEFINE body(f, S) == IF S = {} THEN base ELSE step[<<f[S \ {Max(S)}], Max(S)>>]
           Is(k, f) == f = [S \in SUBSET (1 .. k) |-> body(f, S)]
<1>1. \E f : Is(0, f)
  <2> DEFINE g == [S \in SUBSET (1 .. 0) |-> base]
  <2>1. Is(0, g)
    <3>1. \A S \in SUBSET (1 .. 0) : S = {}
          OBVIOUS
    <3> QED BY <3>1
  <2> HIDE DEF Is, g
  <2> QED BY <2>1
<1>2. ASSUME NEW k \in 0 .. m - 1, NEW f, Is(k, f) PROVE \E g : Is(k + 1, g)
  <2> DEFINE P == 1 .. k
             Q == 1 .. k + 1
             g == [S \in SUBSET Q |-> IF k + 1 \in S THEN step[<<f[S \ {k + 1}], k + 1>>] ELSE f[S]]
  <2>1. \A S \in SUBSET Q : (k + 1 \in S => S # {} /\ Max(S) = k + 1) /\ (k + 1 \notin S => S \in SUBSET P)
    <3>1. ASSUME NEW S \in SUBSET Q, k + 1 \in S PROVE Max(S) = k + 1
      <4>1. k + 1 \in Nat /\ S \in SUBSET (1 .. k + 1)
            OBVIOUS
      <4>2. Max(S) \in S /\ Max(S) >= k + 1
            BY <3>1, <4>1, MaxIs
      <4>3. \A x \in S : x \in Int /\ x <= k + 1
            OBVIOUS
      <4>4. PICK x : x = Max(S)
            OBVIOUS
      <4>5. x \in Int /\ x <= k + 1 /\ x >= k + 1
            BY <4>2, <4>3, <4>4
      <4> QED BY <4>4, <4>5
    <3>2. ASSUME NEW S \in SUBSET Q, k + 1 \notin S PROVE S \in SUBSET P
      <4>1. \A x \in S : x \in Q /\ x # k + 1
            BY <3>2
      <4>2. \A x \in S : x \in P
            BY <4>1
      <4> QED BY <4>2
    <3> QED BY <3>1, <3>2
  <2>2. ASSUME NEW S \in SUBSET Q, NEW x PROVE k + 1 \notin S \/ x = k + 1 => g[S \ {x}] = f[S \ {x}]
    <3>1. S \ {x} \in SUBSET Q
          OBVIOUS
    <3>2. k + 1 \notin S \/ x = k + 1 => k + 1 \notin S \ {x}
          OBVIOUS
    <3> HIDE DEF Q
    <3> QED BY <3>1, <3>2
  <2>3. ASSUME NEW S \in SUBSET P PROVE f[S] = body(f, S)
    <3> HIDE DEF body, P
    <3> QED BY <1>2 DEF P
  <2>4. ASSUME NEW S \in SUBSET Q PROVE g[S] = body(g, S)
    <3>1. CASE k + 1 \in S
      <4>1. g[S] = step[<<f[S \ {k + 1}], k + 1>>]
            BY <3>1
      <4>2. g[S \ {k + 1}] = f[S \ {k + 1}]
            BY <2>2
      <4>3. S # {} /\ k + 1 = Max(S)
            BY <2>1, <3>1
      <4> HIDE DEF g, Q
      <4> QED BY <4>1, <4>2, <4>3
    <3>2. CASE k + 1 \notin S
      <4>1. g[S] = f[S]
            BY <3>2
      <4>2. f[S] = body(f, S)
        <5> HIDE DEF body, P, Q
        <5> QED BY <2>1, <2>3, <3>2
      <4>3. g[S \ {Max(S)}] = f[S \ {Max(S)}]
        <5> HIDE DEF g, Q
        <5> QED BY <2>2, <3>2
      <4> HIDE DEF g
      <4> QED BY <4>1, <4>2, <4>3
    <3> QED BY <3>1, <3>2
  <2>5. Is(k + 1, g)
    <3>1. g = [S \in SUBSET Q |-> g[S]]
          OBVIOUS
    <3>2. [S \in SUBSET Q |-> g[S]] = [S \in SUBSET Q |-> body(g, S)]
      <4> HIDE DEF g, Q, body
      <4> QED BY <2>4
    <3> HIDE DEF g, body
    <3> QED BY <3>1, <3>2
  <2> HIDE DEF g, Is
  <2> QED BY <2>5
<1> DEFINE T == {k \in 0 .. m : \E f : Is(k, f)}
<1>3. m \in T
  <2>1. 0 \in 0 .. m /\ m \in 0 .. m /\ \A k \in 0 .. m - 1 : k + 1 \in 0 .. m
        OBVIOUS
  <2> HIDE DEF Is
  <2>2. 0 \in T /\ \A k \in 0 .. m - 1 : k \in T => k + 1 \in T
        BY <1>1, <1>2, <2>1
  <2> HIDE DEF T
  <2> QED BY <2>1, <2>2, CountUp
<1>4. PICK f : Is(m, f)
  <2> HIDE DEF Is
  <2> QED BY <1>3
<1> QED BY <1>4 DEF FoldsUp

\* A fold whose steps stay in D does.
LEMMA FoldStays ==
    ASSUME NEW m \in Nat, NEW base, NEW step, NEW D, base \in D,
           \A a \in D : \A k \in 1 .. m : step[<<a, k>>] \in D
    PROVE  \E f : FoldsUp(f, m, base, step) /\ \A S \in SUBSET (1 .. m) : f[S] \in D
<1>1. PICK f : FoldsUp(f, m, base, step)
      BY FoldFound
<1>2. ASSUME NEW S \in SUBSET (1 .. m)
      PROVE  f[S] = IF S = {} THEN base ELSE step[<<f[S \ {Max(S)}], Max(S)>>]
      BY <1>1 DEF FoldsUp
<1> DEFINE T == {k \in 0 .. m : \A S \in SUBSET (1 .. k) : f[S] \in D}
<1>3. 0 \in T
  <2>1. \A S \in SUBSET (1 .. 0) : S = {} /\ S \in SUBSET (1 .. m)
        OBVIOUS
  <2>2. ASSUME NEW S \in SUBSET (1 .. 0) PROVE f[S] \in D
    <3>1. f[S] = base
          BY <1>2, <2>1
    <3> QED BY <3>1
  <2>3. 0 \in 0 .. m
        OBVIOUS
  <2> QED BY <2>2, <2>3
<1>4. ASSUME NEW k \in 0 .. m - 1, k \in T PROVE k + 1 \in T
  <2>1. \A S \in SUBSET (1 .. k) : f[S] \in D
        BY <1>4
  <2>2. ASSUME NEW S \in SUBSET (1 .. k + 1) PROVE f[S] \in D
    <3>1. S \in SUBSET (1 .. m)
          OBVIOUS
    <3>2. CASE S = {}
          BY <1>2, <3>1, <3>2
    <3>3. CASE S # {}
      <4>1. k + 1 \in Nat
            OBVIOUS
      <4>2. PICK x : x = Max(S)
            OBVIOUS
      <4>3. x \in S /\ \A y \in S : x >= y
            BY <3>3, <4>1, <4>2, MaxIs
      <4>4. S \ {x} \in SUBSET (1 .. k)
            BY <4>3
      <4>5. f[S \ {x}] \in D /\ x \in 1 .. m
            BY <2>1, <4>3, <4>4
      <4> QED BY <1>2, <3>1, <3>3, <4>2, <4>5
    <3> QED BY <3>2, <3>3
  <2>3. k + 1 \in 0 .. m
        OBVIOUS
  <2> QED BY <2>2, <2>3
<1>5. m \in T
  <2>1. m \in 0 .. m
        OBVIOUS
  <2> HIDE DEF T
  <2> QED BY <1>3, <1>4, <2>1, CountUp
<1> QED BY <1>1, <1>5

\* The values of a fold over the first places.
LEMMA FoldSteps ==
    ASSUME NEW m \in Nat, NEW base, NEW step, NEW f, FoldsUp(f, m, base, step)
    PROVE  f[1 .. 0] = base /\ \A k \in 1 .. m : f[1 .. k] = step[<<f[1 .. k - 1], k>>]
<1>1. ASSUME NEW S \in SUBSET (1 .. m)
      PROVE  f[S] = IF S = {} THEN base ELSE step[<<f[S \ {Max(S)}], Max(S)>>]
      BY DEF FoldsUp
<1>2. 1 .. 0 \in SUBSET (1 .. m) /\ 1 .. 0 = {}
      OBVIOUS
<1>3. ASSUME NEW k \in 1 .. m PROVE f[1 .. k] = step[<<f[1 .. k - 1], k>>]
  <2>1. 1 .. k \in SUBSET (1 .. m) /\ 1 .. k # {} /\ Max(1 .. k) = k /\ (1 .. k) \ {k} = 1 .. k - 1
        BY MaxOfInterval
  <2> QED BY <1>1, <2>1
<1> QED BY <1>1, <1>2, <1>3

------------------------------------------------------------------------------
(* Neighbours in order.                                                    *)

\* Neighbours with a key.
Keyed == [key : Int \ {NaN}, id : Int]

\* They are in a strict total order.
LEMMA CloserOrders ==
    /\ \A x \in Keyed : ~Closer(x, x)
    /\ \A x, y \in Keyed : x # y => Closer(x, y) \/ Closer(y, x)
    /\ \A x, y, z \in Keyed : Closer(x, y) /\ Closer(y, z) => Closer(x, z)
<1>1. \A x \in Keyed : x.key \in Int /\ x.id \in Int /\ x.key # NaN
      BY DEF Keyed
<1>2. \A x, y \in Keyed : Closer(x, y) <=> x.key < y.key \/ (x.key = y.key /\ x.id < y.id)
      BY <1>1 DEF Closer
<1>3. \A x, y \in Keyed : x.key = y.key /\ x.id = y.id => x = y
      BY DEF Keyed
<1>4. ASSUME NEW x \in Keyed, NEW y \in Keyed, x # y PROVE Closer(x, y) \/ Closer(y, x)
  <2>1. x.key # y.key \/ x.id # y.id
        BY <1>3, <1>4
  <2> QED BY <1>1, <1>2, <2>1
<1>5. ASSUME NEW x \in Keyed, NEW y \in Keyed, NEW z \in Keyed, Closer(x, y), Closer(y, z) PROVE Closer(x, z)
      BY <1>1, <1>2, <1>5
<1>6. ASSUME NEW x \in Keyed PROVE ~Closer(x, x)
      BY <1>1, <1>2
<1> QED BY <1>4, <1>5, <1>6

\* Each is closer than the next ones.
Ascends(h) == \A i, j \in 1 .. Len(h) : i < j => Closer(h[i], h[j])

\* Where a neighbour has its place among others.
LEMMA PlaceFound ==
    ASSUME NEW h \in Seq(Keyed), Ascends(h), NEW x \in Keyed, \A i \in 1 .. Len(h) : h[i] # x
    PROVE  \E c \in 0 .. Len(h) :
              /\ \A i \in 1 .. c : Closer(h[i], x)
              /\ \A i \in c + 1 .. Len(h) : Closer(x, h[i])
              /\ Cardinality({i \in DOMAIN h : ~Closer(x, h[i])}) = c
<1>1. PICK n \in Nat : n = Len(h)
      BY LenProperties
<1>2. DOMAIN h = 1 .. n /\ \A i \in 1 .. n : h[i] \in Keyed
      BY <1>1, LenProperties, ElementOfSeq
<1> DEFINE B == {i \in 1 .. n : Closer(x, h[i])}
           T == B \cup {n + 1}
<1>3. T \in SUBSET Nat /\ T # {}
      OBVIOUS
<1>4. PICK t \in T : \A u \in T : t <= u
  <2> HIDE DEF T
  <2> QED BY <1>3, LeastNat
<1>5. PICK c \in 0 .. n : t = c + 1
  <2>1. t \in 1 .. n + 1
        OBVIOUS
  <2>2. t - 1 \in 0 .. n /\ t = (t - 1) + 1
        BY <2>1
  <2> QED BY <2>2
<1>6. ASSUME NEW i \in 1 .. c PROVE i \in 1 .. n /\ ~Closer(x, h[i])
  <2>1. i \in 1 .. n /\ ~(t <= i)
        BY <1>5
  <2>2. i \notin T
        BY <1>4, <2>1
  <2> QED BY <2>1, <2>2
<1>7. ASSUME NEW i \in c + 1 .. n PROVE i \in 1 .. n /\ Closer(x, h[i])
  <2>1. i \in 1 .. n /\ t \in 1 .. n /\ t <= i
        BY <1>5
  <2>2. Closer(x, h[t])
        BY <2>1
  <2>3. t < i => Closer(h[t], h[i])
        BY <1>1, <2>1 DEF Ascends
  <2>4. t = i \/ t < i
        BY <2>1
  <2>5. h[t] \in Keyed /\ h[i] \in Keyed
        BY <1>2, <2>1
  <2> QED BY <2>1, <2>2, <2>3, <2>4, <2>5, CloserOrders
<1>8. \A i \in 1 .. c : Closer(h[i], x)
      BY <1>1, <1>2, <1>6, CloserOrders
<1>9. {i \in DOMAIN h : ~Closer(x, h[i])} = 1 .. c
  <2>1. \A i \in 1 .. n : i \in 1 .. c \/ i \in c + 1 .. n
        OBVIOUS
  <2> QED BY <1>2, <1>6, <1>7, <2>1
<1>10. Cardinality(1 .. c) = c
  <2>1. 1 \in Int /\ c \in Int /\ (IF 1 > c THEN 0 ELSE c - 1 + 1) = c
        OBVIOUS
  <2>2. Cardinality(1 .. c) = IF 1 > c THEN 0 ELSE c - 1 + 1
        BY <2>1, FS_Interval
  <2> QED BY <2>1, <2>2
<1> QED BY <1>1, <1>7, <1>8, <1>9, <1>10

\* One element put into a list behind the first c.
LEMMA InsertIs ==
    ASSUME NEW S, NEW h \in Seq(S), NEW x \in S, NEW c \in 0 .. Len(h)
    PROVE  /\ InsertAt(h, c + 1, x) \in Seq(S) /\ Len(InsertAt(h, c + 1, x)) = Len(h) + 1
           /\ \A i \in 1 .. c : InsertAt(h, c + 1, x)[i] = h[i]
           /\ InsertAt(h, c + 1, x)[c + 1] = x
           /\ \A i \in c + 1 .. Len(h) : InsertAt(h, c + 1, x)[i + 1] = h[i]
<1>1. PICK n \in Nat : n = Len(h)
      BY LenProperties
<1>2. \A i \in 1 .. n : h[i] \in S
      BY <1>1, ElementOfSeq
<1>3. c \in 0 .. n
      BY <1>1
<1>4. PICK p : p = SubSeq(h, 1, c)
      OBVIOUS
<1>5. PICK r : r = SubSeq(h, c + 1, n)
      OBVIOUS
<1>6. p \in Seq(S) /\ Len(p) = c /\ \A i \in 1 .. c : p[i] = h[i]
  <2>1. 1 \in Int /\ c \in Int /\ \A i \in 1 .. c : h[i] \in S
        BY <1>2, <1>3
  <2>2. /\ SubSeq(h, 1, c) \in Seq(S)
        /\ Len(SubSeq(h, 1, c)) = IF 1 <= c THEN c - 1 + 1 ELSE 0
        /\ \A i \in 1 .. c - 1 + 1 : SubSeq(h, 1, c)[i] = h[1 + i - 1]
        BY <2>1, SubSeqProperties
  <2>3. (IF 1 <= c THEN c - 1 + 1 ELSE 0) = c /\ c - 1 + 1 = c /\ \A i \in 1 .. c : 1 + i - 1 = i
        BY <1>3
  <2> QED BY <1>4, <2>2, <2>3
<1>7. r \in Seq(S) /\ Len(r) = n - c /\ \A i \in 1 .. n - c : r[i] = h[c + i]
  <2>1. c + 1 \in Int /\ n \in Int /\ \A i \in c + 1 .. n : h[i] \in S
        BY <1>2, <1>3
  <2>2. /\ SubSeq(h, c + 1, n) \in Seq(S)
        /\ Len(SubSeq(h, c + 1, n)) = IF c + 1 <= n THEN n - (c + 1) + 1 ELSE 0
        /\ \A i \in 1 .. n - (c + 1) + 1 : SubSeq(h, c + 1, n)[i] = h[c + 1 + i - 1]
        BY <2>1, SubSeqProperties
  <2>3. /\ (IF c + 1 <= n THEN n - (c + 1) + 1 ELSE 0) = n - c /\ n - (c + 1) + 1 = n - c
        /\ \A i \in 1 .. n - c : c + 1 + i - 1 = c + i
        BY <1>3
  <2> QED BY <1>5, <2>2, <2>3
<1>8. <<x>> \in Seq(S) /\ Len(<<x>>) = 1 /\ <<x>>[1] = x
      OBVIOUS
<1>9. PICK o : o = <<x>>
      OBVIOUS
<1>10. PICK u : u = p \o o
      OBVIOUS
<1>11. u \in Seq(S) /\ Len(u) = c + 1 /\ (\A i \in 1 .. c : u[i] = h[i]) /\ u[c + 1] = x
  <2>1. /\ p \o o \in Seq(S) /\ Len(p \o o) = Len(p) + Len(o)
        /\ \A i \in 1 .. Len(p) + Len(o) : (p \o o)[i] = IF i <= Len(p) THEN p[i] ELSE o[i - Len(p)]
        BY <1>6, <1>8, <1>9, ConcatProperties
  <2>2. /\ u \in Seq(S) /\ Len(u) = c + 1
        /\ \A i \in 1 .. c + 1 : u[i] = IF i <= c THEN p[i] ELSE o[i - c]
        BY <1>6, <1>8, <1>9, <1>10, <2>1
  <2>3. \A i \in 1 .. c : i \in 1 .. c + 1 /\ i <= c
        BY <1>3
  <2>4. c + 1 \in 1 .. c + 1 /\ ~(c + 1 <= c) /\ c + 1 - c = 1
        BY <1>3
  <2>5. u[c + 1] = o[1]
        BY <2>2, <2>4
  <2> QED BY <1>6, <1>8, <1>9, <2>2, <2>3, <2>5
<1>12. PICK z : z = u \o r
      OBVIOUS
<1>13. InsertAt(h, c + 1, x) = z
  <2>1. PICK d : d = c + 1
        OBVIOUS
  <2>2. d - 1 = c
        BY <1>3, <2>1
  <2>3. InsertAt(h, d, x) = SubSeq(h, 1, d - 1) \o <<x>> \o SubSeq(h, d, Len(h))
        BY DEF InsertAt
  <2>4. InsertAt(h, d, x) = SubSeq(h, 1, c) \o o \o SubSeq(h, d, n)
        BY <1>1, <1>9, <2>2, <2>3
  <2>5. InsertAt(h, c + 1, x) = p \o o \o r
        BY <1>4, <1>5, <2>1, <2>4
  <2> QED BY <1>10, <1>12, <2>5
<1>14. /\ z \in Seq(S) /\ Len(z) = n + 1
       /\ \A i \in 1 .. n + 1 : z[i] = IF i <= c + 1 THEN u[i] ELSE r[i - (c + 1)]
  <2>1. /\ u \o r \in Seq(S) /\ Len(u \o r) = Len(u) + Len(r)
        /\ \A i \in 1 .. Len(u) + Len(r) : (u \o r)[i] = IF i <= Len(u) THEN u[i] ELSE r[i - Len(u)]
        BY <1>7, <1>11, ConcatProperties
  <2>2. Len(u) + Len(r) = n + 1
        BY <1>3, <1>7, <1>11
  <2> QED BY <1>11, <1>12, <2>1, <2>2
<1>15. ASSUME NEW i \in 1 .. c PROVE z[i] = h[i]
  <2>1. i \in 1 .. n + 1 /\ i <= c + 1
        BY <1>3
  <2> QED BY <1>11, <1>14, <2>1
<1>16. z[c + 1] = x
  <2>1. c + 1 \in 1 .. n + 1 /\ c + 1 <= c + 1
        BY <1>3
  <2> QED BY <1>11, <1>14, <2>1
<1>17. ASSUME NEW i \in c + 1 .. n PROVE z[i + 1] = h[i]
  <2>1. i + 1 \in 1 .. n + 1 /\ ~(i + 1 <= c + 1) /\ i + 1 - (c + 1) = i - c /\ i - c \in 1 .. n - c /\ c + (i - c) = i
        BY <1>3
  <2>2. z[i + 1] = r[i - c]
        BY <1>14, <2>1
  <2> QED BY <1>7, <2>1, <2>2
<1> QED BY <1>1, <1>13, <1>14, <1>15, <1>16, <1>17

\* A neighbour that takes its place leaves a list of neighbours.
LEMMA PlacedType ==
    ASSUME NEW h \in Seq(Keyed), NEW x \in Keyed
    PROVE  Placed(h, x) \in Seq(Keyed)
<1>1. PICK n \in Nat : n = Len(h) /\ DOMAIN h = 1 .. n
      BY LenProperties
<1>2. PICK B : B = {i \in DOMAIN h : ~Closer(x, h[i])}
      OBVIOUS
<1>3. Cardinality(B) \in 0 .. n
  <2>1. IsFiniteSet(1 .. n) /\ Cardinality(1 .. n) = n
    <3>1. 1 \in Int /\ n \in Int /\ (IF 1 > n THEN 0 ELSE n - 1 + 1) = n
          OBVIOUS
    <3>2. IsFiniteSet(1 .. n) /\ Cardinality(1 .. n) = IF 1 > n THEN 0 ELSE n - 1 + 1
          BY <3>1, FS_Interval
    <3> QED BY <3>1, <3>2
  <2>2. B \in SUBSET (1 .. n)
        BY <1>1, <1>2
  <2>3. IsFiniteSet(B) /\ Cardinality(B) <= n
        BY <2>1, <2>2, FS_Subset
  <2>4. Cardinality(B) \in Nat
        BY <2>3, FS_CardinalityType
  <2> QED BY <2>3, <2>4
<1>4. PICK c \in 0 .. n : c = Cardinality(B)
      BY <1>3
<1>5. InsertAt(h, c + 1, x) \in Seq(Keyed)
      BY <1>1, InsertIs
<1> QED BY <1>2, <1>4, <1>5 DEF Placed

\* A neighbour behind the first c of a list in order.
LEMMA PlacedIs ==
    ASSUME NEW h \in Seq(Keyed), Ascends(h), NEW x \in Keyed, \A i \in 1 .. Len(h) : h[i] # x
    PROVE  /\ Placed(h, x) \in Seq(Keyed) /\ Len(Placed(h, x)) = Len(h) + 1 /\ Ascends(Placed(h, x))
           /\ \E c \in 0 .. Len(h) :
                 /\ \A i \in 1 .. c : Placed(h, x)[i] = h[i] /\ Closer(h[i], x)
                 /\ Placed(h, x)[c + 1] = x
                 /\ \A i \in c + 1 .. Len(h) : Placed(h, x)[i + 1] = h[i] /\ Closer(x, h[i])
<1>1. PICK n \in Nat : n = Len(h)
      BY LenProperties
<1>2. PICK c \in 0 .. n :
         /\ \A i \in 1 .. c : Closer(h[i], x)
         /\ \A i \in c + 1 .. n : Closer(x, h[i])
         /\ Cardinality({i \in DOMAIN h : ~Closer(x, h[i])}) = c
      BY <1>1, PlaceFound
<1>3. PICK z : z = Placed(h, x)
      OBVIOUS
<1>4. z = InsertAt(h, c + 1, x)
  <2>1. PICK B : B = {i \in DOMAIN h : ~Closer(x, h[i])}
        OBVIOUS
  <2>2. Placed(h, x) = InsertAt(h, Cardinality(B) + 1, x) /\ Cardinality(B) = c
        BY <1>2, <2>1 DEF Placed
  <2> QED BY <1>3, <2>2
<1>5. /\ z \in Seq(Keyed) /\ Len(z) = n + 1
      /\ \A i \in 1 .. c : z[i] = h[i]
      /\ z[c + 1] = x
      /\ \A i \in c + 1 .. n : z[i + 1] = h[i]
  <2>1. c \in 0 .. Len(h)
        BY <1>1
  <2>2. PICK r : r = InsertAt(h, c + 1, x)
        OBVIOUS
  <2>3. h \in Seq(Keyed) /\ x \in Keyed
        OBVIOUS
  <2>4. InsertAt(h, c + 1, x) \in Seq(Keyed)
        BY <2>1, <2>3, InsertIs
  <2>5. Len(InsertAt(h, c + 1, x)) = Len(h) + 1
        BY <2>1, <2>3, InsertIs
  <2>6. InsertAt(h, c + 1, x)[c + 1] = x
        BY <2>1, <2>3, InsertIs
  <2>7. \A i \in 1 .. c : InsertAt(h, c + 1, x)[i] = h[i]
        BY <2>1, <2>3, InsertIs
  <2>8. \A i \in c + 1 .. Len(h) : InsertAt(h, c + 1, x)[i + 1] = h[i]
        BY <2>1, <2>3, InsertIs
  <2>9. /\ r \in Seq(Keyed) /\ Len(r) = Len(h) + 1
        /\ \A i \in 1 .. c : r[i] = h[i]
        /\ r[c + 1] = x
        /\ \A i \in c + 1 .. Len(h) : r[i + 1] = h[i]
        BY <2>2, <2>3, <2>4, <2>5, <2>6, <2>7, <2>8
  <2>10. r = z
        BY <1>4, <2>2
  <2> QED BY <1>1, <2>9, <2>10
<1>6. \A i, j \in 1 .. n : i < j => Closer(h[i], h[j])
      BY <1>1 DEF Ascends
<1>7. ASSUME NEW i \in 1 .. n + 1, NEW j \in 1 .. n + 1, i < j PROVE Closer(z[i], z[j])
  <2>1. CASE j <= c
    <3>1. i \in 1 .. c /\ j \in 1 .. c /\ i \in 1 .. n /\ j \in 1 .. n
          BY <1>7, <2>1
    <3> QED BY <1>5, <1>6, <1>7, <3>1
  <2>2. CASE j = c + 1
    <3>1. i \in 1 .. c
          BY <1>7, <2>2
    <3> QED BY <1>2, <1>5, <2>2, <3>1
  <2>3. CASE j > c + 1
    <3>1. PICK b \in c + 1 .. n : j = b + 1
      <4>1. j - 1 \in c + 1 .. n /\ j = (j - 1) + 1
            BY <2>3
      <4> QED BY <4>1
    <3>2. z[j] = h[b] /\ Closer(x, h[b]) /\ b \in 1 .. n
          BY <1>2, <1>5, <3>1
    <3>3. CASE i <= c
      <4>1. i \in 1 .. c /\ i \in 1 .. n /\ i < b
            BY <3>1, <3>3
      <4> QED BY <1>5, <1>6, <3>2, <4>1
    <3>4. CASE i = c + 1
          BY <1>5, <3>2, <3>4
    <3>5. CASE i > c + 1
      <4>1. PICK a \in c + 1 .. n : i = a + 1
        <5>1. i - 1 \in c + 1 .. n /\ i = (i - 1) + 1
              BY <3>5
        <5> QED BY <5>1
      <4>2. z[i] = h[a] /\ a \in 1 .. n /\ a < b
            BY <1>5, <1>7, <3>1, <4>1
      <4> QED BY <1>6, <3>2, <4>2
    <3>6. i <= c \/ i = c + 1 \/ i > c + 1
          OBVIOUS
    <3> QED BY <3>3, <3>4, <3>5, <3>6
  <2>4. j <= c \/ j = c + 1 \/ j > c + 1
        OBVIOUS
  <2> QED BY <2>1, <2>2, <2>3, <2>4
<1>8. Ascends(z)
      BY <1>5, <1>7 DEF Ascends
<1> QED BY <1>1, <1>2, <1>3, <1>5, <1>8

\* The same as a set: nobody is lost, and the new one is there.
LEMMA PlacedEnumerates ==
    ASSUME NEW C \in SUBSET Keyed, NEW h, Enumerates(h, C), Ascends(h), NEW x \in Keyed, x \notin C
    PROVE  Enumerates(Placed(h, x), C \cup {x}) /\ Ascends(Placed(h, x))
<1>1. h \in Seq(C) /\ h \in Seq(Keyed) /\ \A i \in 1 .. Len(h) : h[i] # x /\ h[i] \in C
  <2>1. h \in Seq(C)
        BY DEF Enumerates
  <2> QED BY <2>1, SeqMonotonic, ElementOfSeq
<1>2. PICK n \in Nat : n = Len(h)
      BY <1>1, LenProperties
<1>3. PICK z : z = Placed(h, x)
      OBVIOUS
<1>4. z \in Seq(Keyed) /\ Len(z) = n + 1 /\ Ascends(z)
      BY <1>1, <1>2, <1>3, PlacedIs
<1>5. PICK c \in 0 .. n :
         /\ \A i \in 1 .. c : z[i] = h[i]
         /\ z[c + 1] = x
         /\ \A i \in c + 1 .. n : z[i + 1] = h[i]
  <2>1. \E c \in 0 .. Len(h) :
           /\ \A i \in 1 .. c : Placed(h, x)[i] = h[i] /\ Closer(h[i], x)
           /\ Placed(h, x)[c + 1] = x
           /\ \A i \in c + 1 .. Len(h) : Placed(h, x)[i + 1] = h[i] /\ Closer(x, h[i])
        BY <1>1, PlacedIs
  <2>2. PICK c \in 0 .. Len(h) :
           /\ \A i \in 1 .. c : Placed(h, x)[i] = h[i]
           /\ Placed(h, x)[c + 1] = x
           /\ \A i \in c + 1 .. Len(h) : Placed(h, x)[i + 1] = h[i]
        BY <2>1
  <2> QED BY <1>2, <1>3, <2>2
<1>6. ASSUME NEW i \in 1 .. n + 1 PROVE z[i] \in C \cup {x}
  <2>1. CASE i <= c
    <3>1. i \in 1 .. c /\ i \in 1 .. n
          BY <2>1
    <3> QED BY <1>1, <1>2, <1>5, <3>1
  <2>2. CASE i = c + 1
        BY <1>5, <2>2
  <2>3. CASE i > c + 1
    <3>1. i - 1 \in c + 1 .. n /\ i = (i - 1) + 1 /\ i - 1 \in 1 .. n
          BY <2>3
    <3>2. z[i] = h[i - 1]
          BY <1>5, <3>1
    <3> QED BY <1>1, <1>2, <3>1, <3>2
  <2>4. i <= c \/ i = c + 1 \/ i > c + 1
        OBVIOUS
  <2> QED BY <2>1, <2>2, <2>3, <2>4
<1>7. z \in Seq(C \cup {x})
  <2>1. z \in [1 .. n + 1 -> C \cup {x}]
    <3>1. z \in [1 .. n + 1 -> Keyed]
          BY <1>4, LenProperties
    <3> QED BY <1>6, <3>1
  <2>2. n + 1 \in Nat
        OBVIOUS
  <2> QED BY <2>1, <2>2, SeqDef
<1>8. ASSUME NEW i \in 1 .. n + 1, NEW j \in 1 .. n + 1, z[i] = z[j] PROVE i = j
  <2>1. z[i] \in Keyed /\ z[j] \in Keyed
        BY <1>4, ElementOfSeq
  <2>2. ~(i < j) /\ ~(j < i)
        BY <1>4, <1>8, <2>1, CloserOrders DEF Ascends
  <2> QED BY <2>2
<1>9. ASSUME NEW y \in C \cup {x} PROVE \E i \in 1 .. n + 1 : z[i] = y
  <2>1. CASE y = x
    <3>1. c + 1 \in 1 .. n + 1
          OBVIOUS
    <3> QED BY <1>5, <2>1, <3>1
  <2>2. CASE y \in C
    <3>1. PICK i \in 1 .. n : h[i] = y
          BY <1>2, <2>2 DEF Enumerates
    <3>2. i \in 1 .. c \/ i \in c + 1 .. n
          OBVIOUS
    <3>3. i \in 1 .. n + 1 /\ i + 1 \in 1 .. n + 1
          OBVIOUS
    <3> QED BY <1>5, <3>1, <3>2, <3>3
  <2> QED BY <2>1, <2>2
<1> QED BY <1>3, <1>4, <1>7, <1>8, <1>9 DEF Enumerates

\* The recursion of InOrder.
IsSorting(g, w, m) ==
    g = [S \in SUBSET (1 .. m) |-> IF S = {} THEN <<>> ELSE Placed(g[S \ {Max(S)}], w[Max(S)])]

\* There is such a function.
LEMMA SortingFound ==
    ASSUME NEW w \in Seq(Keyed), NEW m \in Nat, m = Len(w)
    PROVE  \E g : IsSorting(g, w, m)
<1> DEFINE D == Seq(Keyed)
           step == [a \in D \X (1 .. m) |-> Placed(a[1], w[a[2]])]
<1>1. \A k \in 1 .. m : w[k] \in Keyed
      BY ElementOfSeq
<1>2. ASSUME NEW a \in D, NEW k \in 1 .. m PROVE step[<<a, k>>] = Placed(a, w[k]) /\ step[<<a, k>>] \in D
  <2>1. Placed(a, w[k]) \in D
        BY <1>1, PlacedType
  <2> HIDE DEF D
  <2> QED BY <2>1
<1>3. <<>> \in D
      BY EmptySeq
<1> HIDE DEF D, step
<1>4. PICK g : FoldsUp(g, m, <<>>, step) /\ \A S \in SUBSET (1 .. m) : g[S] \in D
      BY <1>2, <1>3, FoldStays
<1>5. ASSUME NEW S \in SUBSET (1 .. m)
      PROVE  (IF S = {} THEN <<>> ELSE step[<<g[S \ {Max(S)}], Max(S)>>])
               = (IF S = {} THEN <<>> ELSE Placed(g[S \ {Max(S)}], w[Max(S)]))
  <2>1. CASE S = {}
        BY <2>1
  <2>2. CASE S # {}
    <3>1. PICK x : x = Max(S)
          OBVIOUS
    <3>2. x \in 1 .. m
          BY <2>2, <3>1, MaxIs
    <3>3. g[S \ {x}] \in D
          BY <1>4
    <3>4. step[<<g[S \ {x}], x>>] = Placed(g[S \ {x}], w[x])
          BY <1>2, <3>2, <3>3
    <3> QED BY <2>2, <3>1, <3>4
  <2> QED BY <2>1, <2>2
<1>6. IsSorting(g, w, m)
      BY <1>4, <1>5 DEF FoldsUp, IsSorting
<1> QED BY <1>6

\* Its steps.
LEMMA SortingSteps ==
    ASSUME NEW m \in Nat, NEW w, NEW g, IsSorting(g, w, m)
    PROVE  g[1 .. 0] = <<>> /\ \A k \in 1 .. m : g[1 .. k] = Placed(g[1 .. k - 1], w[k])
<1>1. ASSUME NEW S \in SUBSET (1 .. m)
      PROVE  g[S] = IF S = {} THEN <<>> ELSE Placed(g[S \ {Max(S)}], w[Max(S)])
      BY DEF IsSorting
<1>2. 1 .. 0 \in SUBSET (1 .. m) /\ 1 .. 0 = {}
      OBVIOUS
<1>3. ASSUME NEW k \in 1 .. m PROVE g[1 .. k] = Placed(g[1 .. k - 1], w[k])
  <2>1. 1 .. k \in SUBSET (1 .. m) /\ 1 .. k # {} /\ Max(1 .. k) = k /\ (1 .. k) \ {k} = 1 .. k - 1
        BY MaxOfInterval
  <2> QED BY <1>1, <2>1
<1> QED BY <1>1, <1>2, <1>3

\* Sorted neighbours are the same ones, in order.
LEMMA InOrderIs ==
    ASSUME NEW C \in SUBSET Keyed, NEW w, Enumerates(w, C)
    PROVE  Enumerates(InOrder(w), C) /\ Ascends(InOrder(w))
<1>1. w \in Seq(C) /\ w \in Seq(Keyed)
  <2>1. w \in Seq(C)
        BY DEF Enumerates
  <2> QED BY <2>1, SeqMonotonic
<1>2. PICK m \in Nat : m = Len(w) /\ DOMAIN w = 1 .. m
      BY <1>1, LenProperties
<1>3. PICK g : g = (CHOOSE f : IsSorting(f, w, m)) /\ IsSorting(g, w, m)
      BY <1>1, <1>2, SortingFound
<1>4. InOrder(w) = g[1 .. m]
      BY <1>2, <1>3 DEF InOrder, FoldLeft, MapThenFoldSet, IsSorting
<1>5. IsSorting(g, w, m)
      BY <1>3
<1>6. g[1 .. 0] = <<>> /\ \A k \in 1 .. m : g[1 .. k] = Placed(g[1 .. k - 1], w[k])
      BY <1>5, SortingSteps
<1> DEFINE upto(k) == {w[i] : i \in 1 .. k}
           T == {k \in 0 .. m : Enumerates(g[1 .. k], upto(k)) /\ Ascends(g[1 .. k])}
<1>7. \A i \in 1 .. m : w[i] \in C /\ w[i] \in Keyed
      BY <1>1, <1>2, ElementOfSeq
<1>8. 0 \in T
  <2>1. upto(0) = {}
        OBVIOUS
  <2>2. Ascends(<<>>)
        BY DEF Ascends
  <2>3. 0 \in 0 .. m
        OBVIOUS
  <2> QED BY <1>6, <2>1, <2>2, <2>3, EnumeratesNone
<1>9. ASSUME NEW k \in 0 .. m - 1, k \in T PROVE k + 1 \in T
  <2>1. PICK h : h = g[1 .. k]
        OBVIOUS
  <2>2. PICK C0 : C0 = upto(k)
        OBVIOUS
  <2>3. Enumerates(h, C0) /\ Ascends(h)
        BY <1>9, <2>1, <2>2
  <2>4. k + 1 \in 1 .. m /\ k + 1 \in 0 .. m /\ k + 1 - 1 = k
        OBVIOUS
  <2>5. g[1 .. k + 1] = Placed(h, w[k + 1])
        BY <1>6, <2>1, <2>4
  <2>6. C0 \in SUBSET Keyed /\ w[k + 1] \in Keyed
    <3>1. \A i \in 1 .. k : i \in 1 .. m
          OBVIOUS
    <3> QED BY <1>7, <2>2, <2>4, <3>1
  <2>7. w[k + 1] \notin C0
    <3>1. \A i \in 1 .. k : i \in 1 .. m /\ i # k + 1
          OBVIOUS
    <3>2. \A i, j \in 1 .. m : w[i] = w[j] => i = j
          BY <1>2 DEF Enumerates
    <3> QED BY <2>2, <2>4, <3>1, <3>2
  <2>8. C0 \cup {w[k + 1]} = upto(k + 1)
    <3>1. 1 .. k + 1 = (1 .. k) \cup {k + 1}
          OBVIOUS
    <3> QED BY <2>2, <3>1
  <2> HIDE DEF upto
  <2>9. Enumerates(Placed(h, w[k + 1]), C0 \cup {w[k + 1]}) /\ Ascends(Placed(h, w[k + 1]))
        BY <2>3, <2>6, <2>7, PlacedEnumerates
  <2> QED BY <2>4, <2>5, <2>8, <2>9
<1>10. m \in T
  <2>1. m \in 0 .. m
        OBVIOUS
  <2> HIDE DEF T
  <2> QED BY <1>8, <1>9, <2>1, CountUp
<1>11. upto(m) = C
  <2>1. \A x \in C : \E i \in 1 .. m : w[i] = x
        BY <1>2 DEF Enumerates
  <2> QED BY <1>7, <2>1
<1>12. Enumerates(g[1 .. m], upto(m)) /\ Ascends(g[1 .. m])
  <2> HIDE DEF upto
  <2> QED BY <1>10
<1> HIDE DEF upto
<1> QED BY <1>4, <1>11, <1>12

------------------------------------------------------------------------------
(* The members of a finite set in order.                                   *)

\* R puts S in order.
Orders(R, S) ==
    /\ \A x \in S : <<x, x>> \notin R
    /\ \A x, y \in S : x # y => <<x, y>> \in R \/ <<y, x>> \in R
    /\ \A x, y, z \in S : <<x, y>> \in R /\ <<y, z>> \in R => <<x, z>> \in R
\* How many go before x, and the members by how many do.
RankOf(R, S, x) == Cardinality({y \in S : <<y, x>> \in R})
Ranked(R, S) == [i \in 1 .. Cardinality(S) |-> CHOOSE x \in S : RankOf(R, S, x) = i - 1]

\* The ranks of the members are 0, 1, ..., each of one member, and grow with the order.
LEMMA RanksAre ==
    ASSUME NEW S, IsFiniteSet(S), NEW R, Orders(R, S)
    PROVE  /\ Cardinality(S) \in Nat
           /\ \A x \in S : RankOf(R, S, x) \in 0 .. Cardinality(S) - 1
           /\ \A x, y \in S : <<x, y>> \in R => RankOf(R, S, x) < RankOf(R, S, y)
           /\ \A x, y \in S : RankOf(R, S, x) = RankOf(R, S, y) => x = y
           /\ \A k \in 0 .. Cardinality(S) - 1 : \E x \in S : RankOf(R, S, x) = k
<1> DEFINE n == Cardinality(S)
           T == 0 .. n - 1
           before(x) == {y \in S : <<y, x>> \in R}
           rank == [x \in S |-> Cardinality(before(x))]
<1>1. n \in Nat
      BY FS_CardinalityType
<1>2. /\ \A x \in S : x \notin before(x)
      /\ \A x, y \in S : <<x, y>> \in R => before(x) \subseteq before(y) /\ x \in before(y)
      /\ \A x, y \in S : x # y => <<x, y>> \in R \/ <<y, x>> \in R
      BY DEF Orders
<1>3. \A x \in S : before(x) \in SUBSET S
      OBVIOUS
<1>4. ASSUME NEW A \in SUBSET S, NEW B \in SUBSET A, NEW x \in A, x \notin B
      PROVE  Cardinality(B) \in Nat /\ Cardinality(A) \in Nat /\ Cardinality(B) < Cardinality(A)
  <2>1. IsFiniteSet(A) /\ IsFiniteSet(B)
        BY FS_Subset
  <2>2. Cardinality(B) <= Cardinality(A) /\ (Cardinality(A) = Cardinality(B) => A = B)
        BY <2>1, FS_Subset
  <2>3. Cardinality(B) \in Nat /\ Cardinality(A) \in Nat
        BY <2>1, FS_CardinalityType
  <2> QED BY <1>4, <2>2, <2>3
<1> HIDE DEF before
<1>5. \A x \in S : rank[x] \in T
      BY <1>1, <1>2, <1>3, <1>4
<1>6. \A x, y \in S : <<x, y>> \in R => rank[x] < rank[y]
      BY <1>2, <1>3, <1>4
<1>7. ASSUME NEW x \in S, NEW y \in S, rank[x] = rank[y] PROVE x = y
  <2>1. rank[x] \in Int /\ rank[y] \in Int
        BY <1>5
  <2>2. ~(rank[x] < rank[y]) /\ ~(rank[y] < rank[x])
        BY <1>7, <2>1
  <2> HIDE DEF rank
  <2> QED BY <1>2, <1>6, <2>2
<1>8. rank \in Injection(S, T)
  <2>1. rank \in [S -> T]
        BY <1>5
  <2> HIDE DEF rank
  <2> QED BY <1>7, <2>1 DEF Injection, IsInjective
<1>9. IsFiniteSet(T) /\ Cardinality(T) = n
  <2>1. PICK last \in Int : last = n - 1
        BY <1>1
  <2>2. IsFiniteSet(0 .. last) /\ Cardinality(0 .. last) = IF 0 > last THEN 0 ELSE last - 0 + 1
        BY FS_Interval
  <2>3. T = 0 .. last /\ (IF 0 > last THEN 0 ELSE last - 0 + 1) = n
        BY <1>1, <2>1
  <2> QED BY <2>2, <2>3
<1>10. rank \in Surjection(S, T)
       BY <1>8, <1>9, FS_Injection
<1>11. \A k \in T : \E x \in S : rank[x] = k
       BY <1>10 DEF Surjection
<1>12. \A x \in S : rank[x] = RankOf(R, S, x)
       BY DEF before, RankOf
<1> HIDE DEF rank
<1> QED BY <1>1, <1>5, <1>6, <1>7, <1>11, <1>12

\* Ranks enumerate an ordered finite set, in its order.
LEMMA RankedIs ==
    ASSUME NEW S, IsFiniteSet(S), NEW R, Orders(R, S)
    PROVE  /\ Enumerates(Ranked(R, S), S)
           /\ \A i, j \in 1 .. Len(Ranked(R, S)) : i < j => <<Ranked(R, S)[i], Ranked(R, S)[j]>> \in R
<1>1. PICK n : n = Cardinality(S)
      OBVIOUS
<1>2. PICK q : q = Ranked(R, S)
      OBVIOUS
<1>3. n \in Nat
      BY <1>1, RanksAre
<1>4. ASSUME NEW i \in 1 .. n PROVE q[i] \in S /\ RankOf(R, S, q[i]) = i - 1
  <2>1. i - 1 \in 0 .. n - 1
        BY <1>3
  <2>2. \E x \in S : RankOf(R, S, x) = i - 1
        BY <1>1, <2>1, RanksAre
  <2>3. q[i] = CHOOSE x \in S : RankOf(R, S, x) = i - 1
        BY <1>1, <1>2 DEF Ranked
  <2> QED BY <2>2, <2>3
<1>5. q \in [1 .. n -> S]
      BY <1>1, <1>2, <1>4 DEF Ranked
<1>6. q \in Seq(S) /\ Len(q) = n
      BY <1>3, <1>5
<1>7. ASSUME NEW i \in 1 .. n, NEW j \in 1 .. n, q[i] = q[j] PROVE i = j
      BY <1>3, <1>4, <1>7
<1>8. ASSUME NEW x \in S PROVE \E i \in 1 .. n : q[i] = x
  <2>1. RankOf(R, S, x) \in 0 .. n - 1
        BY <1>1, RanksAre
  <2>2. PICK i \in 1 .. n : RankOf(R, S, x) = i - 1
    <3>1. RankOf(R, S, x) + 1 \in 1 .. n /\ RankOf(R, S, x) = (RankOf(R, S, x) + 1) - 1
          BY <1>3, <2>1
    <3> QED BY <3>1
  <2>3. RankOf(R, S, q[i]) = RankOf(R, S, x) /\ q[i] \in S
        BY <1>4, <2>2
  <2> QED BY <2>3, RanksAre
<1>9. ASSUME NEW i \in 1 .. n, NEW j \in 1 .. n, i < j PROVE <<q[i], q[j]>> \in R
  <2>1. q[i] \in S /\ q[j] \in S /\ RankOf(R, S, q[i]) = i - 1 /\ RankOf(R, S, q[j]) = j - 1
        BY <1>4
  <2>2. q[i] # q[j]
        BY <1>9, <2>1
  <2>3. ~(RankOf(R, S, q[j]) < RankOf(R, S, q[i]))
        BY <1>9, <2>1
  <2>4. <<q[j], q[i]>> \notin R
        BY <2>1, <2>3, RanksAre
  <2> QED BY <2>1, <2>2, <2>4 DEF Orders
<1> QED BY <1>2, <1>6, <1>7, <1>8, <1>9 DEF Enumerates

\* The ranks by closer() and by number.
CloserRank(C, x) == Cardinality({y \in C : Closer(y, x)})
NumberRank(C, x) == Cardinality({y \in C : y < x})

\* Finitely many neighbours, closest first.
LEMMA SortedCloser ==
    ASSUME NEW C \in SUBSET Keyed, IsFiniteSet(C)
    PROVE  Enumerates(Sorted(C, Closer), C) /\ Ascends(Sorted(C, Closer))
<1> DEFINE R == {p \in C \X C : Closer(p[1], p[2])}
<1>1. \A x, y \in C : <<x, y>> \in R <=> Closer(x, y)
      OBVIOUS
<1>2. \A x \in C : {y \in C : <<y, x>> \in R} = {y \in C : Closer(y, x)}
      BY <1>1
<1>3. \A x \in C : RankOf(R, C, x) = CloserRank(C, x)
      BY <1>2 DEF RankOf, CloserRank
<1> HIDE DEF R
<1>4. ASSUME NEW i \in 1 .. Cardinality(C)
      PROVE  (CHOOSE x \in C : CloserRank(C, x) = i - 1) = (CHOOSE x \in C : RankOf(R, C, x) = i - 1)
      BY <1>3
<1>5. Sorted(C, Closer) = Ranked(R, C)
  <2>1. Sorted(C, Closer) = [i \in 1 .. Cardinality(C) |-> CHOOSE x \in C : CloserRank(C, x) = i - 1]
        BY DEF Sorted, CloserRank
  <2> QED BY <1>4, <2>1 DEF Ranked
<1>6. Orders(R, C)
  <2>1. \A x \in C : x \in Keyed
        OBVIOUS
  <2> QED BY <1>1, <2>1, CloserOrders DEF Orders
<1>7. PICK q : q = Ranked(R, C)
      OBVIOUS
<1>8. Enumerates(q, C) /\ \A i, j \in 1 .. Len(q) : i < j => <<q[i], q[j]>> \in R
      BY <1>6, <1>7, RankedIs
<1>9. \A i \in 1 .. Len(q) : q[i] \in C
      BY <1>8, ElementOfSeq DEF Enumerates
<1>10. Ascends(q)
       BY <1>1, <1>8, <1>9 DEF Ascends
<1> QED BY <1>5, <1>7, <1>8, <1>10

\* Finitely many numbers, smallest first.
LEMMA SortedNumbers ==
    ASSUME NEW C \in SUBSET Int, IsFiniteSet(C)
    PROVE  Enumerates(Sorted(C, <), C)
<1> DEFINE R == {p \in C \X C : p[1] < p[2]}
<1>1. \A x, y \in C : <<x, y>> \in R <=> x < y
      OBVIOUS
<1>2. \A x \in C : {y \in C : <<y, x>> \in R} = {y \in C : y < x}
      BY <1>1
<1>3. \A x \in C : RankOf(R, C, x) = NumberRank(C, x)
      BY <1>2 DEF RankOf, NumberRank
<1> HIDE DEF R
<1>4. ASSUME NEW i \in 1 .. Cardinality(C)
      PROVE  (CHOOSE x \in C : NumberRank(C, x) = i - 1) = (CHOOSE x \in C : RankOf(R, C, x) = i - 1)
      BY <1>3
<1>5. Sorted(C, <) = Ranked(R, C)
  <2>1. Sorted(C, <) = [i \in 1 .. Cardinality(C) |-> CHOOSE x \in C : NumberRank(C, x) = i - 1]
        BY DEF Sorted, NumberRank
  <2> QED BY <1>4, <2>1 DEF Ranked
<1>6. Orders(R, C)
      BY <1>1 DEF Orders
<1> QED BY <1>5, <1>6, RankedIs

------------------------------------------------------------------------------
(* The k best.                                                             *)

\* The k closest of C, in order: what is missing is behind k of them.
IsBest(h, C, k) ==
    /\ h \in Seq(C) /\ Len(h) <= k /\ Ascends(h)
    /\ \A x \in C : (\E i \in 1 .. Len(h) : h[i] = x) \/ (Len(h) = k /\ Closer(h[k], x))

\* What is in the types of the k best.
LEMMA BestTypes ==
    ASSUME NEW C \in SUBSET Keyed, NEW k \in Nat \ {0}, NEW h, IsBest(h, C, k)
    PROVE  /\ h \in Seq(C) /\ h \in Seq(Keyed) /\ Len(h) \in Nat /\ Len(h) <= k /\ DOMAIN h = 1 .. Len(h)
           /\ \A i \in 1 .. Len(h) : h[i] \in C /\ h[i] \in Keyed
           /\ \A i, j \in 1 .. Len(h) : i < j => Closer(h[i], h[j])
           /\ \A i, j \in 1 .. Len(h) : h[i] = h[j] => i = j
<1>1. h \in Seq(C) /\ Len(h) <= k /\ Ascends(h)
      BY DEF IsBest
<1>2. h \in Seq(Keyed) /\ Len(h) \in Nat /\ DOMAIN h = 1 .. Len(h) /\ \A i \in 1 .. Len(h) : h[i] \in C
      BY <1>1, SeqMonotonic, LenProperties, ElementOfSeq
<1>3. \A i, j \in 1 .. Len(h) : i < j => Closer(h[i], h[j])
      BY <1>1 DEF Ascends
<1>4. ASSUME NEW i \in 1 .. Len(h), NEW j \in 1 .. Len(h), h[i] = h[j] PROVE i = j
  <2>1. ~Closer(h[i], h[j]) /\ ~Closer(h[j], h[i])
        BY <1>2, <1>4, CloserOrders
  <2>2. ~(i < j) /\ ~(j < i)
        BY <1>3, <2>1
  <2> QED BY <1>2, <2>2
<1> QED BY <1>1, <1>2, <1>3, <1>4

\* Of two lists of the k best, neither is closer where they first differ, or longer.
LEMMA BestNoCloser ==
    ASSUME NEW C \in SUBSET Keyed, NEW k \in Nat \ {0}, NEW a, IsBest(a, C, k), NEW b, IsBest(b, C, k),
           NEW i \in 1 .. Len(a), \A j \in 1 .. i - 1 : j \in 1 .. Len(b) /\ a[j] = b[j]
    PROVE  i \in 1 .. Len(b) /\ ~Closer(a[i], b[i])
<1>1. /\ Len(a) \in Nat /\ Len(a) <= k /\ a[i] \in C /\ a[i] \in Keyed
      /\ \A x, y \in 1 .. Len(a) : a[x] = a[y] => x = y
      BY BestTypes
<1>2. /\ Len(b) \in Nat /\ Len(b) <= k /\ \A x \in 1 .. Len(b) : b[x] \in Keyed
      /\ \A x, y \in 1 .. Len(b) : x < y => Closer(b[x], b[y])
      BY BestTypes
<1>3. CASE \E j \in 1 .. Len(b) : b[j] = a[i]
  <2>1. PICK j \in 1 .. Len(b) : b[j] = a[i]
        BY <1>3
  <2>2. ~(j < i)
    <3>1. SUFFICES ASSUME j < i PROVE FALSE
          OBVIOUS
    <3>2. j \in 1 .. i - 1 /\ j \in 1 .. Len(a)
          BY <1>1, <3>1
    <3>3. a[j] = a[i]
          BY <2>1, <3>2
    <3> QED BY <1>1, <3>1, <3>2, <3>3
  <2>3. i \in 1 .. Len(b) /\ (i = j \/ i < j)
        BY <1>1, <1>2, <2>2
  <2>4. b[i] = a[i] \/ Closer(b[i], a[i])
        BY <1>2, <2>1, <2>3
  <2> QED BY <1>1, <1>2, <2>3, <2>4, CloserOrders
<1>4. CASE ~(\E j \in 1 .. Len(b) : b[j] = a[i])
  <2>1. Len(b) = k /\ Closer(b[k], a[i])
        BY <1>1, <1>4 DEF IsBest
  <2>2. i \in 1 .. Len(b) /\ k \in 1 .. Len(b) /\ (i = k \/ i < k)
        BY <1>1, <2>1
  <2>3. b[i] = b[k] \/ Closer(b[i], b[k])
        BY <1>2, <2>2
  <2>4. b[i] \in Keyed /\ b[k] \in Keyed
        BY <1>2, <2>2
  <2>5. Closer(b[i], a[i])
        BY <1>1, <2>1, <2>3, <2>4, CloserOrders
  <2>6. ~Closer(a[i], b[i])
        BY <1>1, <2>4, <2>5, CloserOrders
  <2> QED BY <2>2, <2>6
<1> QED BY <1>3, <1>4

\* There is one list of the k best.
LEMMA BestUnique ==
    ASSUME NEW C \in SUBSET Keyed, NEW k \in Nat \ {0}, NEW a, IsBest(a, C, k), NEW b, IsBest(b, C, k)
    PROVE  a = b
<1>1. PICK m \in Nat : m = Len(a)
      BY BestTypes
<1>2. PICK n \in Nat : n = Len(b)
      BY BestTypes
<1> DEFINE T == {i \in 0 .. m : \A j \in 1 .. i : j \in 1 .. n /\ a[j] = b[j]}
<1>3. 0 \in T
      OBVIOUS
<1>4. ASSUME NEW i \in 0 .. m - 1, i \in T PROVE i + 1 \in T
  <2>1. \A j \in 1 .. i : j \in 1 .. n /\ a[j] = b[j]
        BY <1>4
  <2>2. PICK t : t = i + 1
        OBVIOUS
  <2>3. t \in 1 .. m /\ t - 1 = i
        BY <2>2
  <2>4. t \in 1 .. n /\ ~Closer(a[t], b[t])
    <3>1. t \in 1 .. Len(a) /\ \A j \in 1 .. t - 1 : j \in 1 .. Len(b) /\ a[j] = b[j]
          BY <1>1, <1>2, <2>1, <2>3
    <3> QED BY <1>2, <3>1, BestNoCloser
  <2>5. ~Closer(b[t], a[t])
    <3>1. t \in 1 .. Len(b) /\ \A j \in 1 .. t - 1 : j \in 1 .. Len(a) /\ b[j] = a[j]
      <4>1. \A j \in 1 .. i : j \in 1 .. m
            OBVIOUS
      <4> QED BY <1>1, <1>2, <2>1, <2>3, <2>4, <4>1
    <3> QED BY <3>1, BestNoCloser
  <2>6. a[t] \in Keyed /\ b[t] \in Keyed
    <3>1. \A j \in 1 .. m : a[j] \in Keyed
          BY <1>1, BestTypes
    <3>2. \A j \in 1 .. n : b[j] \in Keyed
          BY <1>2, BestTypes
    <3> QED BY <2>3, <2>4, <3>1, <3>2
  <2>7. a[t] = b[t]
        BY <2>4, <2>5, <2>6, CloserOrders
  <2>8. ASSUME NEW j \in 1 .. t PROVE j \in 1 .. n /\ a[j] = b[j]
    <3>1. j = t \/ j \in 1 .. i
          BY <2>2
    <3> QED BY <2>1, <2>4, <2>7, <3>1
  <2>9. t \in 0 .. m
        BY <2>3
  <2> QED BY <2>2, <2>8, <2>9
<1>5. m \in T
  <2>1. m \in 0 .. m
        OBVIOUS
  <2> HIDE DEF T
  <2> QED BY <1>3, <1>4, <2>1, CountUp
<1>6. \A j \in 1 .. m : j \in 1 .. n /\ a[j] = b[j]
      BY <1>5
<1>7. m = n
  <2>1. m <= n
        BY <1>6
  <2>2. ASSUME m < n PROVE FALSE
    <3>1. PICK t : t = m + 1
          OBVIOUS
    <3>2. t \in 1 .. n /\ t - 1 = m
          BY <2>2, <3>1
    <3>3. t \in 1 .. Len(b) /\ \A j \in 1 .. t - 1 : j \in 1 .. Len(a) /\ b[j] = a[j]
          BY <1>1, <1>2, <1>6, <3>2
    <3>4. t \in 1 .. Len(a)
          BY <3>3, BestNoCloser
    <3> QED BY <1>1, <3>1, <3>4
  <2> QED BY <2>1, <2>2
<1>8. a \in Seq(C) /\ b \in Seq(C)
      BY BestTypes
<1> QED BY <1>1, <1>2, <1>6, <1>7, <1>8, SeqEqual

\* The first k of a list.
LEMMA UptoIs ==
    ASSUME NEW S, NEW q \in Seq(S), NEW k \in Nat
    PROVE  /\ Upto(q, k) \in Seq(S) /\ Len(Upto(q, k)) = Least(k, Len(q))
           /\ \A i \in 1 .. Len(Upto(q, k)) : Upto(q, k)[i] = q[i] /\ i \in 1 .. Len(q)
<1>1. PICK n \in Nat : n = Len(q)
      BY LenProperties
<1>2. PICK m : m = Least(k, Len(q))
      OBVIOUS
<1>3. m \in Nat /\ m <= n
      BY <1>1, <1>2 DEF Least
<1>4. \A i \in 1 .. n : q[i] \in S
      BY <1>1, ElementOfSeq
<1>5. 1 \in Int /\ m \in Int /\ \A i \in 1 .. m : q[i] \in S /\ i \in 1 .. n
      BY <1>3, <1>4
<1>6. /\ SubSeq(q, 1, m) \in Seq(S)
      /\ Len(SubSeq(q, 1, m)) = IF 1 <= m THEN m - 1 + 1 ELSE 0
      /\ \A i \in 1 .. m - 1 + 1 : SubSeq(q, 1, m)[i] = q[1 + i - 1]
      BY <1>5, SubSeqProperties
<1>7. (IF 1 <= m THEN m - 1 + 1 ELSE 0) = m /\ m - 1 + 1 = m /\ \A i \in 1 .. m : 1 + i - 1 = i
      BY <1>3
<1>8. PICK r : r = Upto(q, k)
      OBVIOUS
<1>9. r = SubSeq(q, 1, m)
      BY <1>2, <1>8 DEF Upto
<1>10. r \in Seq(S) /\ Len(r) = m /\ \A i \in 1 .. m : r[i] = q[i]
       BY <1>6, <1>7, <1>9
<1> QED BY <1>1, <1>2, <1>5, <1>8, <1>10

\* All that is in some lists, and in some sets.
AllOf(heaps, T) == UNION {{heaps[t][i] : i \in 1 .. Len(heaps[t])} : t \in T}
Whole(parts, T) == UNION {parts[t] : t \in T}

\* Lists of the k best of parts, put together in order and cut, are the k best of the whole.
LEMMA MergeIsBest ==
    ASSUME NEW T, NEW parts, \A t \in T : parts[t] \in SUBSET Keyed, NEW k \in Nat \ {0},
           NEW heaps, \A t \in T : IsBest(heaps[t], parts[t], k),
           NEW z, Ascends(z), Enumerates(z, AllOf(heaps, T))
    PROVE  IsBest(Upto(z, k), Whole(parts, T), k)
<1> DEFINE M == UNION {{heaps[t][i] : i \in 1 .. Len(heaps[t])} : t \in T}
           C == UNION {parts[t] : t \in T}
<1>1. C \in SUBSET Keyed
      OBVIOUS
<1>2. ASSUME NEW t \in T
      PROVE  /\ Len(heaps[t]) \in Nat /\ Len(heaps[t]) <= k
             /\ \A i \in 1 .. Len(heaps[t]) : heaps[t][i] \in parts[t] /\ heaps[t][i] \in Keyed
             /\ \A i, j \in 1 .. Len(heaps[t]) : i < j => Closer(heaps[t][i], heaps[t][j])
  <2>1. parts[t] \in SUBSET Keyed /\ IsBest(heaps[t], parts[t], k)
        OBVIOUS
  <2> QED BY <2>1, BestTypes
<1>3. M \in SUBSET C
      BY <1>2
<1>4. z \in Seq(M) /\ z \in Seq(C) /\ \A x \in M : \E i \in 1 .. Len(z) : z[i] = x
  <2>1. z \in Seq(M) /\ \A x \in M : \E i \in 1 .. Len(z) : z[i] = x
        BY DEF Enumerates, AllOf
  <2> HIDE DEF M, C
  <2> QED BY <1>3, <2>1, SeqMonotonic
<1>5. PICK n \in Nat : n = Len(z)
      BY <1>4, LenProperties
<1>6. PICK u : u = Upto(z, k)
      OBVIOUS
<1>7. PICK m : m = Least(k, n)
      OBVIOUS
<1>8. m \in Nat /\ m <= k /\ m <= n /\ (n >= k => m = k) /\ (n < k => m = n)
      BY <1>5, <1>7 DEF Least
<1>9. u \in Seq(C) /\ Len(u) = m /\ \A i \in 1 .. m : u[i] = z[i] /\ i \in 1 .. n
  <2> HIDE DEF C
  <2>1. /\ Upto(z, k) \in Seq(C) /\ Len(Upto(z, k)) = Least(k, Len(z))
        /\ \A i \in 1 .. Len(Upto(z, k)) : Upto(z, k)[i] = z[i] /\ i \in 1 .. Len(z)
        BY <1>4, UptoIs
  <2> QED BY <1>5, <1>6, <1>7, <2>1
<1>10. \A i, j \in 1 .. n : i < j => Closer(z[i], z[j])
       BY <1>5 DEF Ascends
<1>11. \A i \in 1 .. n : z[i] \in Keyed
  <2>1. \A i \in 1 .. n : z[i] \in C
    <3> HIDE DEF C
    <3> QED BY <1>4, <1>5, ElementOfSeq
  <2> QED BY <1>1, <2>1
<1>12. Ascends(u)
       BY <1>9, <1>10 DEF Ascends
<1>13. ASSUME NEW t \in T, NEW x \in parts[t]
       PROVE  (\E i \in 1 .. m : u[i] = x) \/ (m = k /\ Closer(u[k], x))
  <2> DEFINE h == heaps[t]
  <2>1. \A i \in 1 .. Len(h) : \E p \in 1 .. n : z[p] = h[i]
    <3>1. \A i \in 1 .. Len(h) : h[i] \in M
          OBVIOUS
    <3> HIDE DEF M, h
    <3> QED BY <1>4, <1>5, <3>1
  <2>2. CASE \E i \in 1 .. Len(h) : h[i] = x
    <3>1. PICK p \in 1 .. n : z[p] = x
          BY <2>1, <2>2
    <3>2. CASE p <= k
      <4>1. p \in 1 .. m
            BY <1>8, <3>2
      <4> QED BY <1>9, <3>1, <4>1
    <3>3. CASE ~(p <= k)
      <4>1. m = k /\ k < p /\ k \in 1 .. n /\ k \in 1 .. m
            BY <1>8, <3>3
      <4>2. Closer(z[k], z[p])
            BY <1>10, <4>1
      <4> QED BY <1>9, <3>1, <4>1, <4>2
    <3> QED BY <3>2, <3>3
  <2>3. CASE ~(\E i \in 1 .. Len(h) : h[i] = x)
    <3>1. Len(h) = k /\ Closer(h[k], x)
      <4>1. IsBest(h, parts[t], k)
            OBVIOUS
      <4> HIDE DEF h
      <4> QED BY <1>13, <2>3, <4>1 DEF IsBest
    <3>2. \A i \in 1 .. k : h[i] \in Keyed
          BY <1>2, <3>1
    <3>3. \A i, j \in 1 .. k : i < j => Closer(h[i], h[j])
          BY <1>2, <3>1
    <3> DEFINE W == {i \in 0 .. k : i = 0 \/ \A p \in 1 .. n : z[p] = h[i] => p >= i}
    <3> HIDE DEF h
    <3>4. ASSUME NEW i \in 0 .. k - 1, i \in W PROVE i + 1 \in W
      <4>1. i + 1 \in 1 .. k /\ i + 1 \in 0 .. k
            OBVIOUS
      <4>2. ASSUME NEW p \in 1 .. n, z[p] = h[i + 1] PROVE p >= i + 1
        <5>1. CASE i = 0
              BY <5>1
        <5>2. CASE i # 0
          <6>1. i \in 1 .. k /\ i < i + 1
                BY <5>2
          <6>2. PICK b \in 1 .. n : z[b] = h[i]
                BY <2>1, <3>1, <6>1
          <6>3. b >= i
                BY <3>4, <5>2, <6>2
          <6>4. Closer(z[b], z[p])
                BY <3>3, <4>1, <4>2, <6>1, <6>2
          <6>5. ~Closer(z[p], z[b]) /\ z[p] # z[b]
                BY <1>11, <6>4, CloserOrders
          <6>6. ~(p < b) /\ p # b
                BY <1>10, <6>5
          <6> QED BY <6>3, <6>6
        <5> QED BY <5>1, <5>2
      <4> QED BY <4>1, <4>2
    <3>5. k \in W
      <4>1. 0 \in W /\ k \in 0 .. k /\ k \in Nat
            OBVIOUS
      <4> HIDE DEF W
      <4> QED BY <3>4, <4>1, CountUp
    <3>6. PICK p \in 1 .. n : z[p] = h[k]
      <4>1. k \in 1 .. k
            OBVIOUS
      <4> QED BY <2>1, <3>1, <4>1
    <3>7. p >= k
          BY <3>5, <3>6
    <3>8. m = k /\ k \in 1 .. n /\ k \in 1 .. m /\ k \in 1 .. k
          BY <1>8, <3>7
    <3>9. z[k] = h[k] \/ Closer(z[k], h[k])
      <4>1. k = p \/ k < p
            BY <3>7
      <4> QED BY <1>10, <3>6, <3>8, <4>1
    <3>10. z[k] \in Keyed /\ h[k] \in Keyed /\ x \in Keyed
      <4>1. parts[t] \in SUBSET Keyed
            OBVIOUS
      <4> QED BY <1>11, <1>13, <3>2, <3>8, <4>1
    <3>11. Closer(z[k], x)
           BY <3>1, <3>9, <3>10, CloserOrders
    <3> QED BY <1>9, <3>8, <3>11
  <2> QED BY <2>2, <2>3
<1>14. \A x \in C : (\E i \in 1 .. m : u[i] = x) \/ (m = k /\ Closer(u[k], x))
       BY <1>13
<1> HIDE DEF C, M
<1>15. IsBest(u, C, k)
       BY <1>8, <1>9, <1>12, <1>14 DEF IsBest
<1> QED BY <1>6, <1>15 DEF C, Whole

\* A neighbour that may be returned and is offered leaves the k best of those offered.
LEMMA OfferBest ==
    ASSUME NEW C \in SUBSET Keyed, NEW s, s.k \in Nat \ {0}, NEW h, IsBest(h, C, s.k),
           NEW x \in Keyed, x \notin C, Within(s, x.key), NEW skipped, ~skipped
    PROVE  IsBest(Offer(s, h, x, skipped), C \cup {x}, s.k)
<1>1. PICK k \in Nat \ {0} : k = s.k
      OBVIOUS
<1>2. PICK n \in Nat : n = Len(h)
      BY BestTypes
<1>3. /\ h \in Seq(C) /\ h \in Seq(Keyed) /\ n <= k
      /\ \A i \in 1 .. n : h[i] \in C /\ h[i] \in Keyed /\ h[i] # x
      /\ \A i, j \in 1 .. n : i < j => Closer(h[i], h[j])
  <2>1. IsBest(h, C, k)
        BY <1>1
  <2>2. /\ h \in Seq(C) /\ h \in Seq(Keyed) /\ Len(h) <= k
        /\ \A i \in 1 .. Len(h) : h[i] \in C /\ h[i] \in Keyed
        /\ \A i, j \in 1 .. Len(h) : i < j => Closer(h[i], h[j])
        BY <2>1, BestTypes
  <2>3. \A i \in 1 .. Len(h) : h[i] # x
        BY <2>2
  <2> QED BY <1>2, <2>2, <2>3
<1>4. Ascends(h)
      BY DEF IsBest
<1>5. \A y \in C : (\E i \in 1 .. n : h[i] = y) \/ (n = k /\ Closer(h[k], y))
      BY <1>1, <1>2 DEF IsBest
<1>6. x.key # NaN
      BY DEF Keyed
<1>7. CASE n = k /\ ~Closer(x, h[n])
  <2>1. Offer(s, h, x, skipped) = h
        BY <1>1, <1>2, <1>7 DEF Offer, Last
  <2>2. k \in 1 .. n /\ h[k] \in Keyed /\ h[k] # x
        BY <1>3, <1>7
  <2>3. Closer(h[k], x)
        BY <1>7, <2>2, CloserOrders
  <2>4. h \in Seq(C \cup {x})
        BY <1>3, SeqMonotonic
  <2>5. IsBest(h, C \cup {x}, k)
        BY <1>2, <1>3, <1>4, <1>5, <1>7, <2>3, <2>4 DEF IsBest
  <2> QED BY <1>1, <2>1, <2>5
<1>8. CASE ~(n = k /\ ~Closer(x, h[n]))
  <2>1. PICK z : z = Placed(h, x)
        OBVIOUS
  <2>2. Offer(s, h, x, skipped) = Upto(z, k)
        BY <1>1, <1>2, <1>6, <1>8, <2>1 DEF Offer, Last
  <2>3. /\ z \in Seq(Keyed) /\ Len(z) = n + 1 /\ Ascends(z)
        /\ \E c \in 0 .. n :
              /\ \A i \in 1 .. c : z[i] = h[i] /\ Closer(h[i], x)
              /\ z[c + 1] = x
              /\ \A i \in c + 1 .. n : z[i + 1] = h[i] /\ Closer(x, h[i])
    <3>1. /\ Placed(h, x) \in Seq(Keyed) /\ Len(Placed(h, x)) = Len(h) + 1 /\ Ascends(Placed(h, x))
          /\ \E c \in 0 .. Len(h) :
                /\ \A i \in 1 .. c : Placed(h, x)[i] = h[i] /\ Closer(h[i], x)
                /\ Placed(h, x)[c + 1] = x
                /\ \A i \in c + 1 .. Len(h) : Placed(h, x)[i + 1] = h[i] /\ Closer(x, h[i])
          BY <1>2, <1>3, <1>4, PlacedIs
    <3> QED BY <1>2, <2>1, <3>1
  <2>4. PICK c \in 0 .. n :
           /\ \A i \in 1 .. c : z[i] = h[i] /\ Closer(h[i], x)
           /\ z[c + 1] = x
           /\ \A i \in c + 1 .. n : z[i + 1] = h[i] /\ Closer(x, h[i])
        BY <2>3
  <2>5. PICK D : D = C \cup {x}
        OBVIOUS
  <2>6. ASSUME NEW i \in 1 .. n + 1 PROVE z[i] \in D
    <3>1. CASE i <= c
      <4>1. i \in 1 .. c /\ i \in 1 .. n
            BY <3>1
      <4> QED BY <1>3, <2>4, <2>5, <4>1
    <3>2. CASE i = c + 1
          BY <2>4, <2>5, <3>2
    <3>3. CASE i > c + 1
      <4>1. i - 1 \in c + 1 .. n /\ i = (i - 1) + 1 /\ i - 1 \in 1 .. n
            BY <3>3
      <4>2. z[i] = h[i - 1]
            BY <2>4, <4>1
      <4> QED BY <1>3, <2>5, <4>1, <4>2
    <3>4. i <= c \/ i = c + 1 \/ i > c + 1
          OBVIOUS
    <3> QED BY <3>1, <3>2, <3>3, <3>4
  <2>7. z \in Seq(D)
    <3>1. z \in [1 .. n + 1 -> Keyed]
          BY <2>3, LenProperties
    <3>2. z \in [1 .. n + 1 -> D] /\ n + 1 \in Nat
          BY <2>6, <3>1
    <3> QED BY <3>2, SeqDef
  <2>8. PICK u : u = Upto(z, k)
        OBVIOUS
  <2>9. PICK m : m = Least(k, n + 1)
        OBVIOUS
  <2>10. m \in Nat /\ m <= k /\ m <= n + 1 /\ (n < k => m = n + 1) /\ (n = k => m = k)
         BY <1>3, <2>9 DEF Least
  <2>11. u \in Seq(D) /\ Len(u) = m /\ \A i \in 1 .. m : u[i] = z[i] /\ i \in 1 .. n + 1
    <3>1. /\ Upto(z, k) \in Seq(D) /\ Len(Upto(z, k)) = Least(k, Len(z))
          /\ \A i \in 1 .. Len(Upto(z, k)) : Upto(z, k)[i] = z[i] /\ i \in 1 .. Len(z)
          BY <2>7, UptoIs
    <3> QED BY <2>3, <2>8, <2>9, <3>1
  <2>12. \A i, j \in 1 .. n + 1 : i < j => Closer(z[i], z[j])
         BY <2>3 DEF Ascends
  <2>13. Ascends(u)
         BY <2>11, <2>12 DEF Ascends
  <2>14. ASSUME NEW y \in D, ~(\E i \in 1 .. m : u[i] = y) PROVE m = k /\ Closer(u[k], y)
    <3>1. n = k
      <4>1. ASSUME n < k PROVE FALSE
        <5>1. m = n + 1 /\ n # k
              BY <2>10, <4>1
        <5>2. CASE y = x
          <6>1. c + 1 \in 1 .. m
                BY <5>1
          <6> QED BY <2>4, <2>11, <2>14, <5>2, <6>1
        <5>3. CASE y # x
          <6>1. PICK i \in 1 .. n : h[i] = y
                BY <1>5, <2>5, <5>1, <5>3
          <6>2. i \in 1 .. c \/ i \in c + 1 .. n
                OBVIOUS
          <6>3. i \in 1 .. m /\ i + 1 \in 1 .. m
                BY <5>1
          <6> QED BY <2>4, <2>11, <2>14, <6>1, <6>2, <6>3
        <5> QED BY <5>2, <5>3
      <4> QED BY <1>3, <4>1
    <3>2. m = k /\ Closer(x, h[n]) /\ n \in 1 .. n
          BY <1>8, <2>10, <3>1
    <3>3. ~Closer(h[n], x)
          BY <1>3, <3>2, CloserOrders
    <3>4. c < n
          BY <2>4, <3>2, <3>3
    <3>5. z[n + 1] = h[n]
      <4>1. n \in c + 1 .. n
            BY <3>4
      <4> QED BY <2>4, <4>1
    <3>6. Closer(z[k], h[n]) /\ z[k] \in Keyed
      <4>1. k \in 1 .. n + 1 /\ n + 1 \in 1 .. n + 1 /\ k < n + 1
            BY <3>1
      <4>2. z[k] \in Keyed
            BY <2>3, <4>1, ElementOfSeq
      <4>3. Closer(z[k], z[n + 1])
            BY <2>12, <4>1
      <4> QED BY <3>5, <4>2, <4>3
    <3>7. u[k] = z[k]
      <4>1. k \in 1 .. m
            BY <3>2
      <4> QED BY <2>11, <4>1
    <3>8. y # x
      <4>1. c + 1 \in 1 .. m
            BY <3>1, <3>2, <3>4
      <4> QED BY <2>4, <2>11, <2>14, <4>1
    <3>9. y \in C /\ y \in Keyed
          BY <2>5, <3>8
    <3>10. CASE y = h[n]
           BY <3>2, <3>6, <3>7, <3>10
    <3>11. CASE y # h[n]
      <4>1. ~(\E i \in 1 .. n : h[i] = y)
        <5>1. SUFFICES ASSUME NEW i \in 1 .. n, h[i] = y PROVE FALSE
              OBVIOUS
        <5>2. i # n
              BY <3>11, <5>1
        <5>3. i \in 1 .. m /\ i + 1 \in 1 .. m /\ (i \in 1 .. c \/ i \in c + 1 .. n)
              BY <3>1, <3>2, <5>2
        <5> QED BY <2>4, <2>11, <2>14, <5>1, <5>3
      <4>2. Closer(h[k], y)
            BY <1>5, <3>9, <4>1
      <4>3. h[n] \in Keyed /\ h[k] = h[n]
            BY <1>3, <3>1, <3>2
      <4>4. Closer(z[k], y)
            BY <3>6, <3>9, <4>2, <4>3, CloserOrders
      <4> QED BY <3>2, <3>7, <4>4
    <3> QED BY <3>10, <3>11
  <2>15. IsBest(u, D, k)
         BY <2>10, <2>11, <2>13, <2>14 DEF IsBest
  <2> QED BY <1>1, <2>2, <2>5, <2>8, <2>15
<1> QED BY <1>7, <1>8

\* What is not offered is not kept, and a heap stays one.
LEMMA OfferNot ==
    ASSUME NEW s, NEW h, NEW x, NEW skipped, skipped \/ x.key = NaN \/ ~Within(s, x.key)
    PROVE  Offer(s, h, x, skipped) = h
BY DEF Offer

\* What is offered keeps a list of neighbours one.
LEMMA OfferType ==
    ASSUME NEW s, s.k \in Nat \ {0}, NEW h \in Seq(Keyed), NEW x, x.key = NaN \/ x \in Keyed, NEW skipped
    PROVE  Offer(s, h, x, skipped) \in Seq(Keyed)
<1>1. CASE skipped \/ x.key = NaN \/ ~Within(s, x.key)
      BY <1>1, OfferNot
<1>2. CASE ~(skipped \/ x.key = NaN \/ ~Within(s, x.key))
  <2>1. x \in Keyed
        BY <1>2
  <2>2. Placed(h, x) \in Seq(Keyed)
        BY <2>1, PlacedType
  <2>3. Upto(Placed(h, x), s.k) \in Seq(Keyed)
        BY <2>2, UptoIs
  <2> QED BY <2>3 DEF Offer
<1> QED BY <1>1, <1>2

------------------------------------------------------------------------------
(* The flat search: what is offered of a row, and what a thread finds.     *)

\* Row r = <<block, row>> as a neighbour of q, and whether it may be returned.
RowOf(blocks, q, r) ==
    [key |-> KeyOf(blocks[r[1]].coded, q, blocks[r[1]].rows[r[2]].vec),
     id |-> IF blocks[r[1]].coded = None THEN blocks[r[1]].rows[r[2]].id ELSE r[2]]
Counts(s, blocks, q, r) ==
    /\ r[2] \notin blocks[r[1]].skip
    /\ RowOf(blocks, q, r).key # NaN /\ Within(s, RowOf(blocks, q, r).key)
Good(s, blocks, q, R) == {RowOf(blocks, q, r) : r \in {x \in R : Counts(s, blocks, q, x)}}
\* Keys and ids are numbers, and no two rows to search have an id.
Apart(blocks, q, R) ==
    /\ \A r \in R : RowOf(blocks, q, r).key \in Int \cup {NaN} /\ RowOf(blocks, q, r).id \in Int
    /\ \A r, x \in R :
          /\ r[2] \notin blocks[r[1]].skip /\ x[2] \notin blocks[x[1]].skip
          /\ RowOf(blocks, q, r).id = RowOf(blocks, q, x).id
          => r = x

\* A row is a neighbour or has no key.
LEMMA RowIs ==
    ASSUME NEW blocks, NEW q, NEW R, Apart(blocks, q, R), NEW r \in R
    PROVE  RowOf(blocks, q, r).key = NaN \/ RowOf(blocks, q, r) \in Keyed
<1>1. PICK x : x = RowOf(blocks, q, r)
      OBVIOUS
<1>2. x.key \in Int \cup {NaN} /\ x.id \in Int
      BY <1>1 DEF Apart
<1>3. x = [key |-> x.key, id |-> x.id]
      BY <1>1 DEF RowOf
<1> QED BY <1>1, <1>2, <1>3 DEF Keyed

\* Rows that count are neighbours.
LEMMA GoodIs ==
    ASSUME NEW s, NEW blocks, NEW q, NEW R, Apart(blocks, q, R)
    PROVE  Good(s, blocks, q, R) \in SUBSET Keyed
<1>1. ASSUME NEW r \in R, Counts(s, blocks, q, r) PROVE RowOf(blocks, q, r) \in Keyed
      BY <1>1, RowIs DEF Counts
<1> QED BY <1>1 DEF Good

\* The recursion of Scan.
IsScan(g, s, q, blocks, w, m) ==
    g = [S \in SUBSET (1 .. m) |->
            IF S = {} THEN <<>>
            ELSE Offer(s, g[S \ {Max(S)}], RowOf(blocks, q, w[Max(S)]), w[Max(S)][2] \in blocks[w[Max(S)][1]].skip)]

\* There is such a function.
LEMMA ScanFound ==
    ASSUME NEW s, s.k \in Nat \ {0}, NEW q, NEW blocks, NEW R, Apart(blocks, q, R),
           NEW w \in Seq(R), NEW m \in Nat, m = Len(w)
    PROVE  \E g : IsScan(g, s, q, blocks, w, m)
<1> DEFINE D == Seq(Keyed)
           next(h, r) == Offer(s, h, RowOf(blocks, q, r), r[2] \in blocks[r[1]].skip)
           step == [a \in D \X (1 .. m) |-> next(a[1], w[a[2]])]
<1>1. ASSUME NEW h \in D, NEW r \in R PROVE next(h, r) \in D
      BY RowIs, OfferType
<1>2. \A k \in 1 .. m : w[k] \in R
      BY ElementOfSeq
<1> HIDE DEF next
<1>3. ASSUME NEW a \in D, NEW k \in 1 .. m PROVE step[<<a, k>>] = next(a, w[k]) /\ step[<<a, k>>] \in D
  <2>1. next(a, w[k]) \in D
        BY <1>1, <1>2
  <2> HIDE DEF D
  <2> QED BY <2>1
<1>4. <<>> \in D
      BY EmptySeq
<1> HIDE DEF D, step
<1>5. PICK g : FoldsUp(g, m, <<>>, step) /\ \A S \in SUBSET (1 .. m) : g[S] \in D
      BY <1>3, <1>4, FoldStays
<1>6. ASSUME NEW S \in SUBSET (1 .. m)
      PROVE  (IF S = {} THEN <<>> ELSE step[<<g[S \ {Max(S)}], Max(S)>>])
               = (IF S = {} THEN <<>> ELSE next(g[S \ {Max(S)}], w[Max(S)]))
  <2>1. CASE S = {}
        BY <2>1
  <2>2. CASE S # {}
    <3>1. PICK x : x = Max(S)
          OBVIOUS
    <3>2. x \in 1 .. m
          BY <2>2, <3>1, MaxIs
    <3>3. g[S \ {x}] \in D
          BY <1>5
    <3>4. step[<<g[S \ {x}], x>>] = next(g[S \ {x}], w[x])
          BY <1>3, <3>2, <3>3
    <3> QED BY <2>2, <3>1, <3>4
  <2> QED BY <2>1, <2>2
<1>7. g = [S \in SUBSET (1 .. m) |-> IF S = {} THEN <<>> ELSE next(g[S \ {Max(S)}], w[Max(S)])]
      BY <1>5, <1>6 DEF FoldsUp
<1>8. IsScan(g, s, q, blocks, w, m)
      BY <1>7 DEF IsScan, next
<1> QED BY <1>8

ScanUps(g, s, q, blocks, w, m) ==
    /\ g[1 .. 0] = <<>>
    /\ \A k \in 1 .. m : g[1 .. k] = Offer(s, g[1 .. k - 1], RowOf(blocks, q, w[k]), w[k][2] \in blocks[w[k][1]].skip)

\* Its steps.
LEMMA ScanSteps ==
    ASSUME NEW s, NEW q, NEW blocks, NEW w, NEW m \in Nat, NEW g, IsScan(g, s, q, blocks, w, m)
    PROVE  ScanUps(g, s, q, blocks, w, m)
<1> DEFINE next(h, r) == Offer(s, h, RowOf(blocks, q, r), r[2] \in blocks[r[1]].skip)
<1>1. ASSUME NEW S \in SUBSET (1 .. m)
      PROVE  g[S] = IF S = {} THEN <<>> ELSE next(g[S \ {Max(S)}], w[Max(S)])
      BY DEF IsScan
<1>2. 1 .. 0 \in SUBSET (1 .. m) /\ 1 .. 0 = {}
      OBVIOUS
<1>3. ASSUME NEW k \in 1 .. m PROVE g[1 .. k] = next(g[1 .. k - 1], w[k])
  <2>1. 1 .. k \in SUBSET (1 .. m) /\ 1 .. k # {} /\ Max(1 .. k) = k /\ (1 .. k) \ {k} = 1 .. k - 1
        BY MaxOfInterval
  <2> HIDE DEF next
  <2> QED BY <1>1, <2>1
<1> QED BY <1>1, <1>2, <1>3 DEF ScanUps

\* A thread finds the k best of the rows it takes.
LEMMA ScanBest ==
    ASSUME NEW s, s.k \in Nat \ {0}, NEW q, NEW blocks, NEW R, Apart(blocks, q, R), NEW w, Enumerates(w, R)
    PROVE  IsBest(Scan(s, q, <<>>, blocks, w), Good(s, blocks, q, R), s.k)
<1>1. w \in Seq(R)
      BY DEF Enumerates
<1>2. PICK m \in Nat : m = Len(w) /\ DOMAIN w = 1 .. m
      BY <1>1, LenProperties
<1>3. \E g : IsScan(g, s, q, blocks, w, m) /\ Scan(s, q, <<>>, blocks, w) = g[1 .. m]
  <2>1. PICK g : g = (CHOOSE f : IsScan(f, s, q, blocks, w, m)) /\ IsScan(g, s, q, blocks, w, m)
        BY <1>1, <1>2, ScanFound
  <2>2. Scan(s, q, <<>>, blocks, w) = g[1 .. m]
        BY <1>2, <2>1 DEF Scan, FoldLeft, MapThenFoldSet, IsScan, RowOf
  <2> QED BY <2>1, <2>2
<1>4. PICK g : IsScan(g, s, q, blocks, w, m) /\ Scan(s, q, <<>>, blocks, w) = g[1 .. m]
      BY <1>3
<1>5. IsScan(g, s, q, blocks, w, m)
      BY <1>4
<1>6. /\ g[1 .. 0] = <<>>
      /\ \A k \in 1 .. m : g[1 .. k] = Offer(s, g[1 .. k - 1], RowOf(blocks, q, w[k]), w[k][2] \in blocks[w[k][1]].skip)
  <2>1. ScanUps(g, s, q, blocks, w, m)
        BY <1>5, ScanSteps
  <2> QED BY <2>1 DEF ScanUps
<1> DEFINE upto(k) == {w[i] : i \in 1 .. k}
           good(k) == Good(s, blocks, q, upto(k))
           T == {k \in 0 .. m : IsBest(g[1 .. k], good(k), s.k)}
<1>7. \A i \in 1 .. m : w[i] \in R
      BY <1>1, <1>2, ElementOfSeq
<1>8. 0 \in T
  <2>1. good(0) = {}
    <3>1. upto(0) = {}
          OBVIOUS
    <3> QED BY <3>1 DEF Good
  <2>2. IsBest(<<>>, {}, s.k)
        BY DEF IsBest, Ascends
  <2>3. 0 \in 0 .. m
        OBVIOUS
  <2> QED BY <1>6, <2>1, <2>2, <2>3
<1>9. ASSUME NEW k \in 0 .. m - 1, k \in T PROVE k + 1 \in T
  <2>1. PICK h : h = g[1 .. k]
        OBVIOUS
  <2>2. PICK C : C = good(k)
        OBVIOUS
  <2>3. IsBest(h, C, s.k)
        BY <1>9, <2>1, <2>2
  <2>4. k + 1 \in 1 .. m /\ k + 1 \in 0 .. m /\ k + 1 - 1 = k
        OBVIOUS
  <2>5. PICK r \in R : r = w[k + 1]
        BY <1>7, <2>4
  <2>6. PICK x : x = RowOf(blocks, q, r)
        OBVIOUS
  <2>7. g[1 .. k + 1] = Offer(s, h, x, r[2] \in blocks[r[1]].skip)
        BY <1>6, <2>1, <2>4, <2>5, <2>6
  <2>8. upto(k + 1) = upto(k) \cup {r}
    <3>1. 1 .. k + 1 = (1 .. k) \cup {k + 1}
          OBVIOUS
    <3> QED BY <2>5, <3>1
  <2>9. upto(k) \in SUBSET R /\ r \notin upto(k)
    <3>1. \A i \in 1 .. k : i \in 1 .. m /\ i # k + 1
          OBVIOUS
    <3>2. \A i, j \in 1 .. m : w[i] = w[j] => i = j
          BY <1>2 DEF Enumerates
    <3> QED BY <1>7, <2>4, <2>5, <3>1, <3>2
  <2> HIDE DEF upto
  <2>10. C \in SUBSET Keyed
    <3>1. Apart(blocks, q, upto(k))
          BY <2>9 DEF Apart
    <3> QED BY <2>2, <3>1, GoodIs
  <2>11. CASE Counts(s, blocks, q, r)
    <3>1. good(k + 1) = C \cup {x}
      <4>1. {y \in upto(k + 1) : Counts(s, blocks, q, y)} = {y \in upto(k) : Counts(s, blocks, q, y)} \cup {r}
            BY <2>8, <2>11
      <4> QED BY <2>2, <2>6, <4>1 DEF Good
    <3>2. x \in Keyed /\ x.key # NaN
          BY <2>6, <2>11, RowIs DEF Counts
    <3>3. x \notin C
      <4>1. SUFFICES ASSUME x \in C PROVE FALSE
            OBVIOUS
      <4>2. PICK y \in upto(k) : Counts(s, blocks, q, y) /\ x = RowOf(blocks, q, y)
            BY <2>2, <4>1 DEF Good
      <4>3. y \in R /\ RowOf(blocks, q, r).id = RowOf(blocks, q, y).id
            BY <2>6, <2>9, <4>2
      <4>4. y = r
            BY <2>11, <4>2, <4>3 DEF Apart, Counts
      <4> QED BY <2>9, <4>2, <4>4
    <3>4. Within(s, x.key) /\ ~(r[2] \in blocks[r[1]].skip)
          BY <2>6, <2>11 DEF Counts
    <3>5. IsBest(Offer(s, h, x, r[2] \in blocks[r[1]].skip), C \cup {x}, s.k)
          BY <2>3, <2>10, <3>2, <3>3, <3>4, OfferBest
    <3> HIDE DEF good
    <3> QED BY <2>4, <2>7, <3>1, <3>5
  <2>12. CASE ~Counts(s, blocks, q, r)
    <3>1. good(k + 1) = C
      <4>1. {y \in upto(k + 1) : Counts(s, blocks, q, y)} = {y \in upto(k) : Counts(s, blocks, q, y)}
            BY <2>8, <2>12
      <4> QED BY <2>2, <4>1 DEF Good
    <3>2. r[2] \in blocks[r[1]].skip \/ x.key = NaN \/ ~Within(s, x.key)
          BY <2>6, <2>12 DEF Counts
    <3>3. Offer(s, h, x, r[2] \in blocks[r[1]].skip) = h
          BY <3>2, OfferNot
    <3> HIDE DEF good
    <3> QED BY <2>3, <2>4, <2>7, <3>1, <3>3
  <2> QED BY <2>11, <2>12
<1>10. m \in T
  <2>1. m \in 0 .. m
        OBVIOUS
  <2> HIDE DEF T
  <2> QED BY <1>8, <1>9, <2>1, CountUp
<1>11. upto(m) = R
  <2>1. \A x \in R : \E i \in 1 .. m : w[i] = x
        BY <1>2 DEF Enumerates
  <2> QED BY <1>7, <2>1
<1> QED BY <1>4, <1>10, <1>11

------------------------------------------------------------------------------
(* Units of rows.                                                           *)

\* Division by a positive number.
LEMMA DivIs ==
    ASSUME NEW a \in Nat, NEW d \in Nat \ {0}
    PROVE  a \div d \in Nat /\ (a \div d) * d <= a /\ a < (a \div d) * d + d
OBVIOUS

\* A later unit starts where an earlier one has ended.
LEMMA LaterUnit ==
    ASSUME NEW a \in Nat, NEW b \in Nat, NEW d \in Nat \ {0}, a < b
    PROVE  a * d \in Nat /\ b * d \in Nat /\ a * d + d <= b * d
OBVIOUS

\* Products.
LEMMA OneLess ==
    ASSUME NEW u \in Nat \ {0}, NEW d \in Nat
    PROVE  (u - 1) * d \in Nat /\ u * d \in Nat /\ u * d = (u - 1) * d + d
OBVIOUS

\* The members of a list.
Members(x) == {x[i] : i \in 1 .. Len(x)}

\* Unit u of the n rows of block b.
Unit(size, n, b, u) == [i \in 1 .. Least(size, n - (u - 1) * size) |-> <<b, (u - 1) * size + i>>]

IsUnit(size, n, b, u) ==
    \E o \in Nat : \E l \in 1 .. size :
        /\ o = (u - 1) * size /\ o + l <= n /\ Unit(size, n, b, u) = [i \in 1 .. l |-> <<b, o + i>>]

\* A unit is a piece of the rows that starts at a multiple of its size.
LEMMA UnitIs ==
    ASSUME NEW n \in Nat, NEW size \in Nat \ {0}, NEW b, NEW u \in 1 .. CeilDiv(n, size)
    PROVE  IsUnit(size, n, b, u)
<1>1. PICK c : c = CeilDiv(n, size)
      OBVIOUS
<1>2. n + size - 1 \in Nat
      OBVIOUS
<1>3. c \in Nat /\ c * size <= n + size - 1
      BY <1>1, <1>2, DivIs DEF CeilDiv
<1>4. u \in 1 .. c
      BY <1>1
<1>5. PICK o : o = (u - 1) * size
      OBVIOUS
<1>6. o \in Nat /\ u * size = o + size /\ u * size \in Nat
      BY <1>3, <1>4, <1>5, OneLess
<1>7. u * size <= c * size
  <2>1. CASE u = c
        BY <1>6, <2>1
  <2>2. CASE u < c
    <3>1. u * size \in Nat /\ c * size \in Nat /\ u * size + size <= c * size
          BY <1>3, <1>4, <2>2, LaterUnit
    <3> QED BY <3>1
  <2> QED BY <1>3, <1>4, <2>1, <2>2
<1>8. c * size \in Nat
      BY <1>3, <1>4, OneLess
<1>9. o < n
      BY <1>3, <1>6, <1>7, <1>8
<1>10. PICK l : l = Least(size, n - o)
      OBVIOUS
<1>11. l \in 1 .. size /\ o + l <= n
      BY <1>6, <1>9, <1>10 DEF Least
<1>12. Unit(size, n, b, u) = [i \in 1 .. l |-> <<b, o + i>>]
      BY <1>5, <1>10 DEF Unit
<1> QED BY <1>5, <1>6, <1>11, <1>12 DEF IsUnit

\* The units of a block hold each of its rows once.
LEMMA UnitsAre ==
    ASSUME NEW n \in Nat, NEW size \in Nat \ {0}, NEW b
    PROVE  /\ CeilDiv(n, size) \in Nat
           /\ \A u \in 1 .. CeilDiv(n, size) :
                 /\ Enumerates(Unit(size, n, b, u), Members(Unit(size, n, b, u)))
                 /\ Members(Unit(size, n, b, u)) # {}
                 /\ Members(Unit(size, n, b, u)) \subseteq {<<b, i>> : i \in 1 .. n}
           /\ \A u, v \in 1 .. CeilDiv(n, size) :
                 u # v => Members(Unit(size, n, b, u)) \cap Members(Unit(size, n, b, v)) = {}
           /\ \A i \in 1 .. n : \E u \in 1 .. CeilDiv(n, size) : <<b, i>> \in Members(Unit(size, n, b, u))
<1>1. PICK c : c = CeilDiv(n, size)
      OBVIOUS
<1>2. n + size - 1 \in Nat
      OBVIOUS
<1>3. c \in Nat /\ c * size <= n + size - 1 /\ n + size - 1 < c * size + size
      BY <1>1, <1>2, DivIs DEF CeilDiv
<1>4. ASSUME NEW u \in 1 .. c
      PROVE  IsUnit(size, n, b, u)
  <2>1. u \in 1 .. CeilDiv(n, size)
        BY <1>1
  <2> QED BY <2>1, UnitIs
<1>5. ASSUME NEW u \in 1 .. c
      PROVE  /\ Enumerates(Unit(size, n, b, u), Members(Unit(size, n, b, u)))
             /\ Members(Unit(size, n, b, u)) # {}
             /\ Members(Unit(size, n, b, u)) \subseteq {<<b, i>> : i \in 1 .. n}
  <2>1. PICK o \in Nat : \E l \in 1 .. size :
           /\ o = (u - 1) * size /\ o + l <= n /\ Unit(size, n, b, u) = [i \in 1 .. l |-> <<b, o + i>>]
        BY <1>4 DEF IsUnit
  <2>2. PICK l \in 1 .. size : o + l <= n /\ Unit(size, n, b, u) = [i \in 1 .. l |-> <<b, o + i>>]
        BY <2>1
  <2>3. PICK x : x = [i \in 1 .. l |-> <<b, o + i>>]
        OBVIOUS
  <2>4. PICK M : M = Members(x)
        OBVIOUS
  <2>5. l \in Nat /\ \A i \in 1 .. l : x[i] = <<b, o + i>>
        BY <2>3
  <2>6. x \in [1 .. l -> {<<b, o + i>> : i \in 1 .. l}]
        BY <2>3
  <2>7. x \in Seq({<<b, o + i>> : i \in 1 .. l})
        BY <2>5, <2>6, SeqDef
  <2>8. Len(x) = l
        BY <2>6, <2>7, LenProperties
  <2>9. M = {<<b, o + i>> : i \in 1 .. l}
        BY <2>4, <2>5, <2>8 DEF Members
  <2>10. Enumerates(x, M)
    <3>1. \A i, j \in 1 .. l : x[i] = x[j] => i = j
      <4> TAKE i, j \in 1 .. l
      <4>1. PICK y, z \in Int : y = o + i /\ z = o + j /\ (y = z => i = j)
            OBVIOUS
      <4>2. x[i] = <<b, y>> /\ x[j] = <<b, z>>
            BY <2>5, <4>1
      <4>3. <<b, y>> = <<b, z>> => y = z
            OBVIOUS
      <4> QED BY <4>1, <4>2, <4>3
    <3>2. \A y \in M : \E i \in 1 .. l : x[i] = y
          BY <2>5, <2>9
    <3> QED BY <2>7, <2>8, <2>9, <3>1, <3>2 DEF Enumerates
  <2>11. M # {}
    <3>1. 1 \in 1 .. l
          OBVIOUS
    <3> QED BY <2>9, <3>1
  <2>12. M \subseteq {<<b, i>> : i \in 1 .. n}
    <3>1. \A i \in 1 .. l : o + i \in 1 .. n
          BY <2>2
    <3> QED BY <2>9, <3>1
  <2> QED BY <2>2, <2>3, <2>4, <2>10, <2>11, <2>12
<1>6. ASSUME NEW u \in 1 .. c, NEW y \in Members(Unit(size, n, b, u))
      PROVE  \E i \in 1 .. n : y = <<b, i>> /\ (u - 1) * size < i /\ i <= u * size
  <2>1. PICK o \in Nat : \E l \in 1 .. size :
           /\ o = (u - 1) * size /\ o + l <= n /\ Unit(size, n, b, u) = [i \in 1 .. l |-> <<b, o + i>>]
        BY <1>4 DEF IsUnit
  <2>2. PICK l \in 1 .. size : o + l <= n /\ Unit(size, n, b, u) = [i \in 1 .. l |-> <<b, o + i>>]
        BY <2>1
  <2>3. PICK x : x = Unit(size, n, b, u)
        OBVIOUS
  <2>4. x = [i \in 1 .. l |-> <<b, o + i>>] /\ Len(x) = l
    <3>1. x = [i \in 1 .. l |-> <<b, o + i>>]
          BY <2>2, <2>3
    <3>2. l \in Nat /\ x \in [1 .. l -> {<<b, o + i>> : i \in 1 .. l}]
          BY <3>1
    <3>3. x \in Seq({<<b, o + i>> : i \in 1 .. l})
          BY <3>2, SeqDef
    <3> QED BY <3>1, <3>2, <3>3, LenProperties
  <2>5. PICK j \in 1 .. l : y = <<b, o + j>>
        BY <2>3, <2>4 DEF Members
  <2>6. u * size = o + size
        BY <1>3, <2>1, OneLess
  <2>7. o + j \in 1 .. n /\ o < o + j /\ o + j <= u * size
        BY <2>2, <2>6
  <2> QED BY <2>1, <2>5, <2>7
<1>7. ASSUME NEW u \in 1 .. c, NEW v \in 1 .. c, u < v
      PROVE  Members(Unit(size, n, b, u)) \cap Members(Unit(size, n, b, v)) = {}
  <2>1. SUFFICES ASSUME NEW y \in Members(Unit(size, n, b, u)), y \in Members(Unit(size, n, b, v)) PROVE FALSE
        OBVIOUS
  <2>2. PICK i \in 1 .. n : y = <<b, i>> /\ (u - 1) * size < i /\ i <= u * size
        BY <1>6
  <2>3. PICK j \in 1 .. n : y = <<b, j>> /\ (v - 1) * size < j /\ j <= v * size
        BY <1>6, <2>1
  <2>4. i = j
        BY <2>2, <2>3
  <2>5. u * size <= (v - 1) * size /\ u * size \in Nat /\ (v - 1) * size \in Nat
    <3>1. v - 1 \in Nat /\ u \in Nat /\ (u = v - 1 \/ u < v - 1)
          BY <1>3, <1>7
    <3>2. CASE u = v - 1
      <4>1. u * size \in Nat
            BY <3>1
      <4> QED BY <3>2, <4>1
    <3>3. CASE u < v - 1
      <4>1. u * size \in Nat /\ (v - 1) * size \in Nat /\ u * size + size <= (v - 1) * size
            BY <3>1, <3>3, LaterUnit
      <4> QED BY <4>1
    <3> QED BY <3>1, <3>2, <3>3
  <2>6. PICK x \in Nat : x = u * size
        BY <2>5
  <2>7. PICK z \in Nat : z = (v - 1) * size
        BY <2>5
  <2>8. i <= x /\ z < j /\ x <= z
        BY <2>2, <2>3, <2>5, <2>6, <2>7
  <2> QED BY <2>4, <2>8
<1>8. ASSUME NEW i \in 1 .. n PROVE \E u \in 1 .. c : <<b, i>> \in Members(Unit(size, n, b, u))
  <2>1. PICK w : w = (i - 1) \div size
        OBVIOUS
  <2>2. w \in Nat /\ w * size <= i - 1 /\ i - 1 < w * size + size /\ w * size \in Nat
    <3>1. i - 1 \in Nat
          OBVIOUS
    <3>2. w \in Nat /\ w * size <= i - 1 /\ i - 1 < w * size + size
          BY <2>1, <3>1, DivIs
    <3>3. w * size \in Nat
          BY <3>2
    <3> QED BY <3>2, <3>3
  <2>3. w < c
    <3>1. SUFFICES ASSUME c <= w PROVE FALSE
          BY <1>3, <2>2
    <3>2. c * size <= w * size /\ c * size \in Nat
      <4>1. c * size \in Nat
            BY <1>3
      <4>2. CASE c = w
            BY <2>2, <4>2
      <4>3. CASE c < w
        <5>1. c * size + size <= w * size
              BY <1>3, <2>2, <4>3, LaterUnit
        <5> QED BY <2>2, <4>1, <5>1
      <4> QED BY <1>3, <2>2, <3>1, <4>1, <4>2, <4>3
    <3>3. PICK x \in Nat : x = c * size
          BY <3>2
    <3>4. PICK y \in Nat : y = w * size
          BY <2>2
    <3> QED BY <1>3, <2>2, <3>2, <3>3, <3>4
  <2>4. PICK u \in 1 .. c : u = w + 1
        BY <1>3, <2>2, <2>3
  <2>5. PICK o \in Nat : o = w * size
        BY <2>2
  <2>6. (u - 1) * size = o
    <3>1. u - 1 = w
          BY <2>2, <2>4
    <3> QED BY <2>5, <3>1
  <2>7. PICK p \in Nat : \E l \in 1 .. size :
           /\ p = (u - 1) * size /\ p + l <= n /\ Unit(size, n, b, u) = [k \in 1 .. l |-> <<b, p + k>>]
        BY <1>4 DEF IsUnit
  <2>8. p = o /\ o < i /\ i <= o + size
        BY <2>2, <2>5, <2>6, <2>7
  <2>9. PICK l : l = Least(size, n - o)
        OBVIOUS
  <2>10. l \in 1 .. size /\ i - o \in 1 .. l
        BY <2>8, <2>9 DEF Least
  <2>11. PICK x : x = Unit(size, n, b, u)
        OBVIOUS
  <2>12. x = [k \in 1 .. l |-> <<b, o + k>>]
        BY <2>6, <2>9, <2>11 DEF Unit
  <2>13. Len(x) = l
    <3>1. l \in Nat /\ x \in [1 .. l -> {<<b, o + k>> : k \in 1 .. l}]
          BY <2>10, <2>12
    <3>2. x \in Seq({<<b, o + k>> : k \in 1 .. l})
          BY <3>1, SeqDef
    <3> QED BY <3>1, <3>2, LenProperties
  <2>14. x[i - o] = <<b, i>>
    <3>1. o + (i - o) = i
          OBVIOUS
    <3> QED BY <2>10, <2>12, <3>1
  <2> QED BY <2>4, <2>10, <2>11, <2>13, <2>14 DEF Members
<1>9. \A u, v \in 1 .. c : u # v => Members(Unit(size, n, b, u)) \cap Members(Unit(size, n, b, v)) = {}
  <2>1. \A u, v \in 1 .. c : u < v \/ v < u \/ u = v
        BY <1>3
  <2>2. \A u, v \in 1 .. c : u < v => Members(Unit(size, n, b, u)) \cap Members(Unit(size, n, b, v)) = {}
        BY <1>7
  <2> QED BY <2>1, <2>2
<1> QED BY <1>1, <1>3, <1>5, <1>8, <1>9

\* The rows of a list of n blocks.
RowsIn(blocks, n) == UNION {{<<b, i>> : i \in 1 .. Len(blocks[b].rows)} : b \in 1 .. n}
\* A list of n units holds each row of R once.
Splits(units, n, R) ==
    /\ n \in Nat /\ DOMAIN units = 1 .. n
    /\ \A u \in 1 .. n : Enumerates(units[u], Members(units[u]))
    /\ \A u, v \in 1 .. n : u # v => Members(units[u]) \cap Members(units[v]) = {}
    /\ R = UNION {Members(units[u]) : u \in 1 .. n}

\* The units of some blocks hold each of their rows once.
LEMMA RowUnitsSplit ==
    ASSUME NEW m \in Nat, NEW blocks, DOMAIN blocks = 1 .. m, \A b \in 1 .. m : Len(blocks[b].rows) \in Nat,
           NEW size \in Nat \ {0}
    PROVE  \E n : Splits(RowUnits(blocks, size), n, RowsIn(blocks, m))
<1> DEFINE len(b) == Len(blocks[b].rows)
           count(b) == CeilDiv(len(b), size)
           unit(b, u) == Unit(size, len(b), b, u)
           of == [b \in 1 .. m |-> [u \in 1 .. count(b) |-> unit(b, u)]]
           sets == [b \in 1 .. m |-> {unit(b, u) : u \in 1 .. count(b)}]
           all == UNION {sets[b] : b \in 1 .. m}
<1>1. RowUnits(blocks, size) = FlattenSeq(of)
      BY DEF RowUnits, Unit
<1>2. ASSUME NEW b \in 1 .. m
      PROVE  /\ count(b) \in Nat
             /\ \A u \in 1 .. count(b) :
                   /\ Enumerates(unit(b, u), Members(unit(b, u)))
                   /\ Members(unit(b, u)) # {}
                   /\ Members(unit(b, u)) \subseteq {<<b, i>> : i \in 1 .. len(b)}
             /\ \A u, v \in 1 .. count(b) : u # v => Members(unit(b, u)) \cap Members(unit(b, v)) = {}
             /\ \A i \in 1 .. len(b) : \E u \in 1 .. count(b) : <<b, i>> \in Members(unit(b, u))
  <2>1. PICK l \in Nat : l = len(b)
        OBVIOUS
  <2>2. /\ CeilDiv(l, size) \in Nat
        /\ \A u \in 1 .. CeilDiv(l, size) :
              /\ Enumerates(Unit(size, l, b, u), Members(Unit(size, l, b, u)))
              /\ Members(Unit(size, l, b, u)) # {}
              /\ Members(Unit(size, l, b, u)) \subseteq {<<b, i>> : i \in 1 .. l}
        /\ \A u, v \in 1 .. CeilDiv(l, size) :
              u # v => Members(Unit(size, l, b, u)) \cap Members(Unit(size, l, b, v)) = {}
        /\ \A i \in 1 .. l : \E u \in 1 .. CeilDiv(l, size) : <<b, i>> \in Members(Unit(size, l, b, u))
        BY UnitsAre
  <2> QED BY <2>1, <2>2
<1> HIDE DEF count, unit
<1>3. ASSUME NEW b \in 1 .. m PROVE Enumerates(of[b], sets[b])
  <2>1. PICK c \in Nat : c = count(b)
        BY <1>2
  <2>2. PICK x : x = of[b]
        OBVIOUS
  <2>3. x = [u \in 1 .. c |-> unit(b, u)]
        BY <2>1, <2>2
  <2>4. \A u \in 1 .. c : x[u] = unit(b, u)
        BY <2>3
  <2>5. PICK S : S = {unit(b, u) : u \in 1 .. c}
        OBVIOUS
  <2>6. x \in [1 .. c -> S]
        BY <2>3, <2>5
  <2>7. x \in Seq(S)
        BY <2>6, SeqDef
  <2>8. Len(x) = c
        BY <2>6, <2>7, LenProperties
  <2>9. \A u, v \in 1 .. c : x[u] = x[v] => u = v
    <3> SUFFICES ASSUME NEW u \in 1 .. c, NEW v \in 1 .. c, x[u] = x[v], u # v PROVE FALSE
        OBVIOUS
    <3>1. unit(b, u) = unit(b, v)
          BY <2>4
    <3>2. Members(unit(b, u)) # {} /\ Members(unit(b, u)) \cap Members(unit(b, v)) = {}
          BY <1>2, <2>1
    <3> QED BY <3>1, <3>2
  <2>10. \A y \in S : \E u \in 1 .. c : x[u] = y
         BY <2>4, <2>5
  <2>11. Enumerates(x, S)
         BY <2>7, <2>8, <2>9, <2>10 DEF Enumerates
  <2>12. sets[b] = S
         BY <2>1, <2>5
  <2> QED BY <2>2, <2>11, <2>12
<1>4. ASSUME NEW b \in 1 .. m, NEW x \in sets[b]
      PROVE  /\ Enumerates(x, Members(x)) /\ Members(x) # {}
             /\ Members(x) \subseteq {<<b, i>> : i \in 1 .. len(b)}
  <2>1. PICK u \in 1 .. count(b) : x = unit(b, u)
        BY <1>4
  <2> QED BY <1>2, <2>1
<1>5. \A b, c \in 1 .. m : b # c => sets[b] \cap sets[c] = {}
  <2> SUFFICES ASSUME NEW b \in 1 .. m, NEW c \in 1 .. m, b # c, NEW x \in sets[b], x \in sets[c] PROVE FALSE
      OBVIOUS
  <2>1. PICK y \in Members(x) : TRUE
        BY <1>4
  <2> HIDE DEF sets
  <2>2. y \in {<<b, i>> : i \in 1 .. len(b)} /\ y \in {<<c, i>> : i \in 1 .. len(c)}
        BY <1>4
  <2> QED BY <2>2
<1>6. Enumerates(RowUnits(blocks, size), all)
  <2>1. Answers(of, m)
        BY DEF Answers
  <2> HIDE DEF of, sets
  <2>2. Enumerates(FlattenSeq(of), UNION {sets[b] : b \in 1 .. m})
        BY <1>3, <1>5, <2>1, FlattenEnumerates
  <2> QED BY <1>1, <2>2
<1>7. ASSUME NEW x \in all, NEW y \in all, x # y PROVE Members(x) \cap Members(y) = {}
  <2>1. PICK b \in 1 .. m : x \in sets[b]
        OBVIOUS
  <2>2. PICK c \in 1 .. m : y \in sets[c]
        OBVIOUS
  <2>3. CASE b = c
    <3>1. PICK u \in 1 .. count(b) : x = unit(b, u)
          BY <2>1
    <3>2. PICK v \in 1 .. count(b) : y = unit(b, v)
          BY <2>2, <2>3
    <3> QED BY <1>2, <1>7, <3>1, <3>2
  <2>4. CASE b # c
    <3> SUFFICES ASSUME NEW r \in Members(x), r \in Members(y) PROVE FALSE
        OBVIOUS
    <3> HIDE DEF sets
    <3>1. r \in {<<b, i>> : i \in 1 .. len(b)} /\ r \in {<<c, i>> : i \in 1 .. len(c)}
          BY <1>4, <2>1, <2>2
    <3> QED BY <2>4, <3>1
  <2> QED BY <2>3, <2>4
<1>8. RowsIn(blocks, m) = UNION {Members(x) : x \in all}
  <2>1. ASSUME NEW x \in all, NEW r \in Members(x) PROVE r \in RowsIn(blocks, m)
    <3>1. PICK b \in 1 .. m : x \in sets[b]
          OBVIOUS
    <3>2. r \in {<<b, i>> : i \in 1 .. len(b)}
      <4> HIDE DEF sets
      <4> QED BY <1>4, <2>1, <3>1
    <3> QED BY <3>2 DEF RowsIn
  <2>2. ASSUME NEW r \in RowsIn(blocks, m) PROVE \E x \in all : r \in Members(x)
    <3>1. PICK b \in 1 .. m : r \in {<<b, i>> : i \in 1 .. len(b)}
          BY DEF RowsIn
    <3>2. PICK i \in 1 .. len(b) : r = <<b, i>>
          BY <3>1
    <3>3. PICK u \in 1 .. count(b) : r \in Members(unit(b, u))
          BY <1>2, <3>2
    <3>4. unit(b, u) \in sets[b]
          OBVIOUS
    <3> QED BY <3>3, <3>4
  <2> HIDE DEF all
  <2> QED BY <2>1, <2>2
<1>9. PICK w : w = RowUnits(blocks, size)
      OBVIOUS
<1>10. PICK n : n = Len(w)
       OBVIOUS
<1>11. w \in Seq(all) /\ n \in Nat /\ DOMAIN w = 1 .. n /\ \A u \in 1 .. n : w[u] \in all
  <2> HIDE DEF all
  <2>1. w \in Seq(all)
        BY <1>6, <1>9 DEF Enumerates
  <2> QED BY <1>10, <2>1, LenProperties, ElementOfSeq
<1>12. /\ \A u, v \in 1 .. n : w[u] = w[v] => u = v
       /\ \A x \in all : \E u \in 1 .. n : w[u] = x
  <2> HIDE DEF all
  <2> QED BY <1>6, <1>9, <1>10 DEF Enumerates
<1>13. \A x \in all : Enumerates(x, Members(x))
  <2> TAKE x \in all
  <2>1. PICK b \in 1 .. m : x \in sets[b]
        OBVIOUS
  <2> HIDE DEF sets
  <2> QED BY <1>4, <2>1
<1> HIDE DEF all
<1>14. UNION {Members(w[u]) : u \in 1 .. n} = UNION {Members(x) : x \in all}
       BY <1>11, <1>12
<1>15. Splits(w, n, RowsIn(blocks, m))
       BY <1>7, <1>8, <1>11, <1>12, <1>13, <1>14 DEF Splits
<1> QED BY <1>9, <1>15

------------------------------------------------------------------------------
(* The threads.                                                             *)

\* The thread that takes unit u.
Taker(turn, threads, u) == 1 + ((turn[((u - 1) % Len(turn)) + 1] - 1) % threads)
\* The rows that thread t takes.
Share(units, n, turn, threads, t) == UNION {Members(units[u]) : u \in {v \in 1 .. n : Taker(turn, threads, v) = t}}

\* Some thread takes every unit.
LEMMA TakerIs ==
    ASSUME NEW turn \in Seq(Int), Len(turn) # 0, NEW threads \in Nat \ {0}, NEW u \in Nat \ {0}
    PROVE  Taker(turn, threads, u) \in 1 .. threads
<1>1. Len(turn) \in Nat \ {0}
      BY LenProperties
<1>2. ((u - 1) % Len(turn)) + 1 \in 1 .. Len(turn)
      BY <1>1
<1>3. turn[((u - 1) % Len(turn)) + 1] \in Int
      BY <1>2, ElementOfSeq
<1> QED BY <1>3 DEF Taker

\* Every thread takes each row of its units once.
LEMMA TakenIs ==
    ASSUME NEW units, NEW n, NEW R, Splits(units, n, R), NEW turn, NEW threads, NEW t
    PROVE  Enumerates(Taken(units, turn, threads, t), Share(units, n, turn, threads, t))
<1> DEFINE mine(u) == Taker(turn, threads, u) = t
           ss == [u \in 1 .. n |-> IF mine(u) THEN units[u] ELSE <<>>]
           sets == [u \in 1 .. n |-> IF mine(u) THEN Members(units[u]) ELSE {}]
<1>1. n \in Nat /\ DOMAIN units = 1 .. n
      BY DEF Splits
<1>2. Taken(units, turn, threads, t) = FlattenSeq(ss)
      BY <1>1 DEF Taken, Taker
<1>3. \A u \in 1 .. n : Enumerates(ss[u], sets[u])
  <2> TAKE u \in 1 .. n
  <2>1. CASE mine(u)
        BY <2>1 DEF Splits
  <2>2. CASE ~mine(u)
        BY <2>2, EnumeratesNone
  <2> QED BY <2>1, <2>2
<1>4. \A u, v \in 1 .. n : u # v => sets[u] \cap sets[v] = {}
      BY DEF Splits
<1>5. Answers(ss, n)
      BY DEF Answers
<1>6. UNION {sets[u] : u \in 1 .. n} = Share(units, n, turn, threads, t)
      BY DEF Share
<1> HIDE DEF ss, sets
<1>7. Enumerates(FlattenSeq(ss), UNION {sets[u] : u \in 1 .. n})
      BY <1>1, <1>3, <1>4, <1>5, FlattenEnumerates
<1> QED BY <1>2, <1>6, <1>7

\* Every row is taken by one thread.
LEMMA SharesAre ==
    ASSUME NEW units, NEW n, NEW R, Splits(units, n, R), NEW turn \in Seq(Int), Len(turn) # 0,
           NEW threads \in Nat \ {0}
    PROVE  /\ R = UNION {Share(units, n, turn, threads, t) : t \in 1 .. threads}
           /\ \A t, s \in 1 .. threads :
                 t # s => Share(units, n, turn, threads, t) \cap Share(units, n, turn, threads, s) = {}
<1>1. n \in Nat
      BY DEF Splits
<1>2. \A u \in 1 .. n : Taker(turn, threads, u) \in 1 .. threads
  <2> TAKE u \in 1 .. n
  <2>1. u \in Nat \ {0}
        OBVIOUS
  <2> QED BY <2>1, TakerIs
<1>3. R = UNION {Members(units[u]) : u \in 1 .. n}
      BY DEF Splits
<1>4. R = UNION {Share(units, n, turn, threads, t) : t \in 1 .. threads}
      BY <1>2, <1>3 DEF Share
<1>5. ASSUME NEW t \in 1 .. threads, NEW s \in 1 .. threads, t # s,
             NEW r \in Share(units, n, turn, threads, t), r \in Share(units, n, turn, threads, s)
      PROVE  FALSE
  <2>1. PICK u \in 1 .. n : Taker(turn, threads, u) = t /\ r \in Members(units[u])
        BY DEF Share
  <2>2. PICK v \in 1 .. n : Taker(turn, threads, v) = s /\ r \in Members(units[v])
        BY <1>5 DEF Share
  <2>3. u = v
        BY <2>1, <2>2 DEF Splits
  <2> QED BY <1>5, <2>1, <2>2, <2>3
<1> QED BY <1>4, <1>5

\* What holds of rows holds of fewer.
LEMMA FewerApart ==
    ASSUME NEW blocks, NEW q, NEW R, Apart(blocks, q, R), NEW S \in SUBSET R
    PROVE  Apart(blocks, q, S)
BY DEF Apart

\* The k best are some of the members, each once.
LEMMA BestMembers ==
    ASSUME NEW C \in SUBSET Keyed, NEW k \in Nat \ {0}, NEW h, IsBest(h, C, k)
    PROVE  Enumerates(h, Members(h)) /\ Members(h) \subseteq C
<1>1. /\ h \in Seq(Keyed) /\ Len(h) \in Nat /\ DOMAIN h = 1 .. Len(h)
      /\ \A i \in 1 .. Len(h) : h[i] \in C
      /\ \A i, j \in 1 .. Len(h) : h[i] = h[j] => i = j
      BY BestTypes
<1>2. Members(h) \subseteq C /\ \A x \in Members(h) : \E i \in 1 .. Len(h) : h[i] = x
      BY <1>1 DEF Members
<1>3. h \in Seq(Members(h))
  <2>1. \A i \in 1 .. Len(h) : h[i] \in Members(h)
        BY DEF Members
  <2>2. h \in [1 .. Len(h) -> Keyed]
        BY <1>1, LenProperties
  <2>3. h \in [1 .. Len(h) -> Members(h)]
        BY <2>1, <2>2
  <2> QED BY <1>1, <2>3, SeqDef
<1> QED BY <1>1, <1>2, <1>3 DEF Enumerates

\* The k best of the heaps of the threads are the k best of all the rows.
LEMMA HeapsBest ==
    ASSUME NEW s, s.k \in Nat \ {0}, NEW q, NEW blocks, NEW R, Apart(blocks, q, R),
           NEW units, NEW n, Splits(units, n, R), NEW turn \in Seq(Int), Len(turn) # 0, NEW threads \in Nat \ {0}
    PROVE  IsBest(Upto(InOrder(FlattenSeq(Heaps(s, q, blocks, units, threads, turn))), s.k),
                  Good(s, blocks, q, R), s.k)
<1> DEFINE T == 1 .. threads
           share(t) == Share(units, n, turn, threads, t)
<1>1. PICK heaps : heaps = Heaps(s, q, blocks, units, threads, turn)
      OBVIOUS
<1>2. PICK parts : parts = [t \in T |-> Good(s, blocks, q, share(t))]
      OBVIOUS
<1>3. PICK k \in Nat \ {0} : k = s.k
      OBVIOUS
<1>4. /\ R = UNION {share(t) : t \in T}
      /\ \A t, u \in T : t # u => share(t) \cap share(u) = {}
      BY SharesAre
<1>5. \A t \in T : Enumerates(Taken(units, turn, threads, t), share(t))
      BY TakenIs
<1> HIDE DEF share
<1>6. \A t \in T : share(t) \in SUBSET R /\ Apart(blocks, q, share(t))
      BY <1>4, FewerApart
<1>7. \A t \in T : heaps[t] = Scan(s, q, <<>>, blocks, Taken(units, turn, threads, t))
      BY <1>1 DEF Heaps
<1>8. \A t \in T : parts[t] = Good(s, blocks, q, share(t)) /\ parts[t] \in SUBSET Keyed
      BY <1>2, <1>6, GoodIs
<1>9. ASSUME NEW t \in T PROVE IsBest(heaps[t], parts[t], k)
  <2>1. PICK w : w = Taken(units, turn, threads, t)
        OBVIOUS
  <2>2. Enumerates(w, share(t)) /\ Apart(blocks, q, share(t))
        BY <1>5, <1>6, <2>1
  <2>3. IsBest(Scan(s, q, <<>>, blocks, w), Good(s, blocks, q, share(t)), s.k)
        BY <2>2, ScanBest
  <2> QED BY <1>3, <1>7, <1>8, <2>1, <2>3
<1>10. \A t, u \in T : t # u => parts[t] \cap parts[u] = {}
  <2> SUFFICES ASSUME NEW t \in T, NEW u \in T, t # u, NEW x \in parts[t], x \in parts[u] PROVE FALSE
      OBVIOUS
  <2>1. PICK r \in share(t) : Counts(s, blocks, q, r) /\ x = RowOf(blocks, q, r)
        BY <1>8 DEF Good
  <2>2. PICK y \in share(u) : Counts(s, blocks, q, y) /\ x = RowOf(blocks, q, y)
        BY <1>8 DEF Good
  <2>3. r \in R /\ y \in R /\ RowOf(blocks, q, r).id = RowOf(blocks, q, y).id
        BY <1>6, <2>1, <2>2
  <2>4. r = y
        BY <2>1, <2>2, <2>3 DEF Apart, Counts
  <2> QED BY <1>4, <2>1, <2>2, <2>4
<1>11. ASSUME NEW t \in T PROVE Enumerates(heaps[t], Members(heaps[t])) /\ Members(heaps[t]) \subseteq parts[t]
  <2>1. PICK C \in SUBSET Keyed : C = parts[t]
        BY <1>8
  <2>2. IsBest(heaps[t], C, k)
        BY <1>9, <2>1
  <2> QED BY <2>1, <2>2, BestMembers
<1>12. PICK sets : sets = [t \in T |-> Members(heaps[t])]
       OBVIOUS
<1>13. \A t \in T : sets[t] = Members(heaps[t])
       BY <1>12
<1>14. \A t \in T : Enumerates(heaps[t], sets[t]) /\ sets[t] \subseteq parts[t]
       BY <1>11, <1>13
<1>15. \A t, u \in T : t # u => sets[t] \cap sets[u] = {}
       BY <1>10, <1>14
<1>16. PICK C : C = UNION {sets[t] : t \in T}
       OBVIOUS
<1>17. C \in SUBSET Keyed
       BY <1>8, <1>14, <1>16
<1>18. Enumerates(FlattenSeq(heaps), C)
  <2>1. Answers(heaps, threads)
        BY <1>1 DEF Answers, Heaps
  <2>2. \A t \in 1 .. threads : Enumerates(heaps[t], sets[t])
        BY <1>14
  <2>3. \A t, u \in 1 .. threads : t # u => sets[t] \cap sets[u] = {}
        BY <1>15
  <2>4. Enumerates(FlattenSeq(heaps), UNION {sets[t] : t \in 1 .. threads})
        BY <2>1, <2>2, <2>3, FlattenEnumerates
  <2> QED BY <1>16, <2>4
<1>19. PICK z : z = InOrder(FlattenSeq(heaps))
       OBVIOUS
<1>20. Enumerates(z, C) /\ Ascends(z)
       BY <1>17, <1>18, <1>19, InOrderIs
<1>21. C = AllOf(heaps, T)
  <2>1. \A t \in T : sets[t] = {heaps[t][i] : i \in 1 .. Len(heaps[t])}
        BY <1>13 DEF Members
  <2>2. \A x \in C : x \in AllOf(heaps, T)
        BY <1>16, <2>1 DEF AllOf
  <2>3. \A x \in AllOf(heaps, T) : x \in C
        BY <1>16, <2>1 DEF AllOf
  <2> QED BY <2>2, <2>3
<1>22. IsBest(Upto(z, k), Whole(parts, T), k)
  <2>1. \A t \in T : parts[t] \in SUBSET Keyed
        BY <1>8
  <2>2. \A t \in T : IsBest(heaps[t], parts[t], k)
        BY <1>9
  <2>3. Enumerates(z, AllOf(heaps, T))
        BY <1>20, <1>21
  <2> HIDE DEF T
  <2> QED BY <1>20, <2>1, <2>2, <2>3, MergeIsBest
<1>23. Whole(parts, T) = Good(s, blocks, q, R)
       BY <1>4, <1>8 DEF Good, Whole
<1> QED BY <1>1, <1>3, <1>19, <1>22, <1>23

------------------------------------------------------------------------------
(* A flat search.                                                           *)

\* What is counted is a number.
TotalRows(blocks) == FoldLeft(LAMBDA n, b : n + Len(b.rows), 0, blocks)
IsTotal(g, blocks, m) ==
    g = [S \in SUBSET (1 .. m) |-> IF S = {} THEN 0 ELSE g[S \ {Max(S)}] + Len(blocks[Max(S)].rows)]

\* There is such a function.
LEMMA TotalFound ==
    ASSUME NEW m \in Nat, NEW blocks, \A b \in 1 .. m : Len(blocks[b].rows) \in Nat
    PROVE  \E g : IsTotal(g, blocks, m) /\ \A S \in SUBSET (1 .. m) : g[S] \in Nat
<1> DEFINE step == [a \in Nat \X (1 .. m) |-> a[1] + Len(blocks[a[2]].rows)]
<1>1. ASSUME NEW c \in Nat, NEW k \in 1 .. m
      PROVE  step[<<c, k>>] = c + Len(blocks[k].rows) /\ step[<<c, k>>] \in Nat
  <2>1. step[<<c, k>>] = c + Len(blocks[k].rows)
        OBVIOUS
  <2>2. Len(blocks[k].rows) \in Nat
        OBVIOUS
  <2> HIDE DEF step
  <2> QED BY <2>1, <2>2
<1> HIDE DEF step
<1>2. PICK z : z = 0
      OBVIOUS
<1>3. z \in Nat /\ \A a \in Nat : \A k \in 1 .. m : step[<<a, k>>] \in Nat
      BY <1>1, <1>2
<1>4. PICK g : FoldsUp(g, m, z, step) /\ \A S \in SUBSET (1 .. m) : g[S] \in Nat
      BY <1>3, FoldStays
<1>5. ASSUME NEW S \in SUBSET (1 .. m)
      PROVE  (IF S = {} THEN z ELSE step[<<g[S \ {Max(S)}], Max(S)>>])
               = (IF S = {} THEN 0 ELSE g[S \ {Max(S)}] + Len(blocks[Max(S)].rows))
  <2>1. CASE S = {}
        BY <1>2, <2>1
  <2>2. CASE S # {}
    <3>1. PICK x : x = Max(S)
          OBVIOUS
    <3>2. x \in 1 .. m
          BY <2>2, <3>1, MaxIs
    <3>3. g[S \ {x}] \in Nat
          BY <1>4
    <3>4. step[<<g[S \ {x}], x>>] = g[S \ {x}] + Len(blocks[x].rows)
          BY <1>1, <3>2, <3>3
    <3> QED BY <2>2, <3>1, <3>4
  <2> QED BY <2>1, <2>2
<1>6. IsTotal(g, blocks, m)
      BY <1>4, <1>5 DEF FoldsUp, IsTotal
<1> QED BY <1>4, <1>6

\* The rows of some blocks are counted.
LEMMA TotalIs ==
    ASSUME NEW m \in Nat, NEW blocks, DOMAIN blocks = 1 .. m, \A b \in 1 .. m : Len(blocks[b].rows) \in Nat
    PROVE  TotalRows(blocks) \in Nat
<1>1. PICK f : IsTotal(f, blocks, m) /\ \A S \in SUBSET (1 .. m) : f[S] \in Nat
      BY TotalFound
<1>2. PICK g : g = (CHOOSE h : IsTotal(h, blocks, m)) /\ IsTotal(g, blocks, m)
      BY <1>1
<1>3. TotalRows(blocks) = g[1 .. m]
      BY <1>2 DEF TotalRows, FoldLeft, MapThenFoldSet, IsTotal
<1>4. IsTotal(g, blocks, m)
      BY <1>2
<1> DEFINE U == {k \in 0 .. m : g[1 .. k] \in Nat}
<1>5. 0 \in U
  <2>1. 1 .. 0 = {} /\ 1 .. 0 \in SUBSET (1 .. m)
        OBVIOUS
  <2>2. g[1 .. 0] = 0
        BY <1>4, <2>1 DEF IsTotal
  <2> QED BY <2>2
<1>6. ASSUME NEW k \in 0 .. m - 1, k \in U PROVE k + 1 \in U
  <2>1. k + 1 \in 1 .. m /\ k + 1 - 1 = k /\ k + 1 \in 0 .. m
        OBVIOUS
  <2>2. PICK j \in 1 .. m : j = k + 1
        BY <2>1
  <2>3. 1 .. j \in SUBSET (1 .. m) /\ 1 .. j # {} /\ Max(1 .. j) = j /\ (1 .. j) \ {j} = 1 .. j - 1
        BY MaxOfInterval
  <2>4. g[1 .. j] = g[1 .. j - 1] + Len(blocks[j].rows)
        BY <1>4, <2>3 DEF IsTotal
  <2>5. g[1 .. j - 1] \in Nat
        BY <1>6, <2>1, <2>2
  <2> QED BY <2>1, <2>2, <2>4, <2>5
<1>7. m \in U
  <2>1. m \in 0 .. m
        OBVIOUS
  <2> HIDE DEF U
  <2> QED BY <1>5, <1>6, <2>1, CountUp
<1> QED BY <1>3, <1>7

\* At least one thread searches.
LEMMA SomeThread ==
    ASSUME NEW s, s.threads \in Nat \ {0}, Len(s.queries) \in Nat, NEW rows \in Nat
    PROVE  FlatThreads(s, rows) \in Nat \ {0}
<1>1. PICK work \in Nat : work = rows * Len(s.queries)
  <2>1. rows * Len(s.queries) \in Nat
        OBVIOUS
  <2> QED BY <2>1
<1>2. SerialRows \in Nat /\ SerialRows > 1
      BY FlatConstants
<1>3. PICK half : half = SerialRows \div 2
      OBVIOUS
<1>4. half \in Nat \ {0} /\ half <= SerialRows
      BY <1>2, <1>3
<1>5. CASE work < SerialRows
      BY <1>1, <1>5 DEF FlatThreads
<1>6. CASE ~(work < SerialRows)
  <2>1. PICK share : share = work \div half
        OBVIOUS
  <2>2. share \in Nat /\ work < share * half + half
        BY <1>4, <2>1, DivIs
  <2>3. share # 0
    <3>1. SUFFICES ASSUME share = 0 PROVE FALSE
          OBVIOUS
    <3>2. share * half = 0
          BY <1>4, <3>1
    <3> QED BY <1>2, <1>4, <1>6, <2>2, <3>2
  <2>4. Least(s.threads, share) \in Nat \ {0}
        BY <2>2, <2>3 DEF Least
  <2>5. FlatThreads(s, rows) = Least(s.threads, share)
        BY <1>1, <1>3, <1>6, <2>1 DEF FlatThreads
  <2> QED BY <2>4, <2>5
<1> QED BY <1>5, <1>6

\* A unit of rows is never empty.
LEMMA SomeRows ==
    ASSUME NEW rows \in Nat, NEW threads \in Nat \ {0}
    PROVE  UnitRows(rows, threads) \in Nat \ {0}
<1>1. Tile \in Nat \ {0}
      BY FlatConstants
<1>2. PICK d \in Nat \ {0} : d = 8 * threads
      OBVIOUS
<1>3. PICK a \in Nat : a = CeilDiv(rows, d)
  <2>1. rows + d - 1 \in Nat
        OBVIOUS
  <2>2. CeilDiv(rows, d) \in Nat
        BY <2>1, DivIs DEF CeilDiv
  <2> QED BY <2>2
<1>4. PICK c \in Nat : c = CeilDiv(a, Tile)
  <2>1. a + Tile - 1 \in Nat
        BY <1>1
  <2>2. CeilDiv(a, Tile) \in Nat
        BY <1>1, <2>1, DivIs DEF CeilDiv
  <2> QED BY <2>2
<1>5. Tile * c \in Nat
      BY <1>1
<1>6. PICK x \in Nat : x = Tile * c
      BY <1>5
<1>7. Most(Tile, x) \in Nat \ {0}
      BY <1>1 DEF Most
<1> QED BY <1>2, <1>3, <1>4, <1>6, <1>7 DEF UnitRows

\* What a search over some blocks is given.
Searchable(s, blocks, m, turn) ==
    /\ s.k \in Nat \ {0} /\ s.threads \in Nat \ {0} /\ Len(s.queries) \in Nat
    /\ m \in Nat /\ DOMAIN blocks = 1 .. m /\ \A b \in 1 .. m : Len(blocks[b].rows) \in Nat
    /\ turn \in Seq(Int) /\ Len(turn) # 0

\* However many threads there are and whichever takes a unit, a flat search finds the k best rows.
LEMMA FlatSearchBest ==
    ASSUME NEW s, NEW blocks, NEW m, NEW turn, Searchable(s, blocks, m, turn),
           NEW i \in DOMAIN s.queries, Apart(blocks, s.queries[i], RowsIn(blocks, m))
    PROVE  IsBest(FlatSearch(s, blocks, turn)[i], Good(s, blocks, s.queries[i], RowsIn(blocks, m)), s.k)
<1>1. /\ s.k \in Nat \ {0} /\ s.threads \in Nat \ {0} /\ Len(s.queries) \in Nat
      /\ m \in Nat /\ DOMAIN blocks = 1 .. m /\ \A b \in 1 .. m : Len(blocks[b].rows) \in Nat
      /\ turn \in Seq(Int) /\ Len(turn) # 0
      BY DEF Searchable
<1>2. PICK total \in Nat : total = TotalRows(blocks)
      BY <1>1, TotalIs
<1>3. PICK threads \in Nat \ {0} : threads = FlatThreads(s, total)
      BY <1>1, SomeThread
<1>4. PICK rows \in Nat \ {0} : rows = Most(total, 1)
  <2>1. Most(total, 1) \in Nat \ {0}
        BY DEF Most
  <2> QED BY <2>1
<1>5. FlatSearch(s, blocks, turn) = SearchWith(s, blocks, threads, rows, turn)
      BY <1>2, <1>3, <1>4 DEF FlatSearch, TotalRows
<1>6. PICK split : split = RowSplit(s, threads)
      OBVIOUS
<1>7. PICK size \in Nat \ {0} : size = IF split THEN UnitRows(rows, threads) ELSE rows
      BY SomeRows
<1>8. PICK units : units = RowUnits(blocks, size)
      OBVIOUS
<1>9. PICK hands \in Nat \ {0} : hands = IF split THEN threads ELSE 1
      OBVIOUS
<1>10. PICK n : Splits(units, n, RowsIn(blocks, m))
       BY <1>1, <1>8, RowUnitsSplit
<1>11. PICK q : q = s.queries[i]
       OBVIOUS
<1>12. SearchWith(s, blocks, threads, rows, turn)[i]
         = Upto(InOrder(FlattenSeq(Heaps(s, q, blocks, units, hands, turn))), s.k)
       BY <1>6, <1>7, <1>8, <1>9, <1>11 DEF SearchWith
<1>13. PICK R : R = RowsIn(blocks, m)
       OBVIOUS
<1>14. Splits(units, n, R) /\ Apart(blocks, q, R)
       BY <1>10, <1>11, <1>13
<1>15. IsBest(Upto(InOrder(FlattenSeq(Heaps(s, q, blocks, units, hands, turn))), s.k), Good(s, blocks, q, R), s.k)
       BY <1>1, <1>14, HeapsBest
<1> QED BY <1>5, <1>11, <1>12, <1>13, <1>15

\* And answers every query.
LEMMA FlatSearchEach ==
    ASSUME NEW s, NEW blocks, NEW turn
    PROVE  FlatSearch(s, blocks, turn) = [i \in DOMAIN s.queries |-> FlatSearch(s, blocks, turn)[i]]
BY DEF FlatSearch, SearchWith

\* Two lists of the k best, merged.
LEMMA TwoBest ==
    ASSUME NEW C \in SUBSET Keyed, NEW D \in SUBSET Keyed, C \cap D = {}, NEW k \in Nat \ {0},
           NEW g, IsBest(g, C, k), NEW h, IsBest(h, D, k)
    PROVE  IsBest(Upto(InOrder(g \o h), k), C \cup D, k)
<1>1. PICK heaps : heaps = [t \in 1 .. 2 |-> IF t = 1 THEN g ELSE h]
      OBVIOUS
<1>2. PICK parts : parts = [t \in 1 .. 2 |-> IF t = 1 THEN C ELSE D]
      OBVIOUS
<1>3. PICK T : T = 1 .. 2
      OBVIOUS
<1>4. heaps[1] = g /\ heaps[2] = h /\ parts[1] = C /\ parts[2] = D /\ \A t \in T : t = 1 \/ t = 2
      BY <1>1, <1>2, <1>3
<1>5. \A t \in T : parts[t] \in SUBSET Keyed
      BY <1>4
<1>6. \A t \in T : IsBest(heaps[t], parts[t], k)
      BY <1>4
<1>7. Enumerates(g, Members(g)) /\ Members(g) \subseteq C /\ Enumerates(h, Members(h)) /\ Members(h) \subseteq D
      BY BestMembers
<1>8. PICK B : B = Members(g) \cup Members(h)
      OBVIOUS
<1>9. Enumerates(g \o h, B)
  <2>1. Members(g) \cap Members(h) = {}
        BY <1>7
  <2> QED BY <1>7, <1>8, <2>1, ConcatEnumerates
<1>10. PICK z : z = InOrder(g \o h)
       OBVIOUS
<1>11. Enumerates(z, B) /\ Ascends(z)
  <2>1. B \in SUBSET Keyed
        BY <1>7, <1>8
  <2> QED BY <1>9, <1>10, <2>1, InOrderIs
<1>12. AllOf(heaps, T) = B
  <2>1. 1 \in T /\ 2 \in T
        BY <1>3
  <2>2. \A x \in B : x \in AllOf(heaps, T)
        BY <1>4, <1>8, <2>1 DEF AllOf, Members
  <2>3. \A x \in AllOf(heaps, T) : x \in B
    <3> TAKE x \in AllOf(heaps, T)
    <3>1. PICK t \in T : x \in {heaps[t][i] : i \in 1 .. Len(heaps[t])}
          BY DEF AllOf
    <3> QED BY <1>4, <1>8, <3>1 DEF Members
  <2> QED BY <2>2, <2>3
<1>13. Whole(parts, T) = C \cup D
  <2>1. 1 \in T /\ 2 \in T
        BY <1>3
  <2> QED BY <1>4, <2>1 DEF Whole
<1>14. IsBest(Upto(z, k), Whole(parts, T), k)
       BY <1>5, <1>6, <1>11, <1>12, MergeIsBest
<1> QED BY <1>10, <1>13, <1>14

\* One more block merged into the answers so far.
LEMMA MergedBest ==
    ASSUME NEW s, NEW piece, NEW turn, Searchable(s, <<piece>>, 1, turn), NEW sofar, NEW i \in DOMAIN sofar,
           i \in DOMAIN s.queries, NEW C \in SUBSET Keyed, IsBest(sofar[i], C, s.k),
           Apart(<<piece>>, s.queries[i], RowsIn(<<piece>>, 1)),
           C \cap Good(s, <<piece>>, s.queries[i], RowsIn(<<piece>>, 1)) = {}
    PROVE  IsBest(Merged(s, sofar, piece, turn)[i], C \cup Good(s, <<piece>>, s.queries[i], RowsIn(<<piece>>, 1)), s.k)
<1>1. PICK blocks : blocks = <<piece>>
      OBVIOUS
<1>2. PICK m : m = 1
      OBVIOUS
<1>3. PICK q : q = s.queries[i]
      OBVIOUS
<1>4. PICK D : D = Good(s, blocks, q, RowsIn(blocks, m))
      OBVIOUS
<1>5. Searchable(s, blocks, m, turn) /\ Apart(blocks, s.queries[i], RowsIn(blocks, m))
      BY <1>1, <1>2
<1>6. PICK more : more = FlatSearch(s, blocks, turn)
      OBVIOUS
<1>7. IsBest(more[i], D, s.k)
      BY <1>3, <1>4, <1>5, <1>6, FlatSearchBest
<1>8. Apart(blocks, q, RowsIn(blocks, m))
      BY <1>3, <1>5
<1>9. D \in SUBSET Keyed /\ s.k \in Nat \ {0}
      BY <1>4, <1>5, <1>8, GoodIs DEF Searchable
<1>10. C \cap D = {}
       BY <1>1, <1>2, <1>3, <1>4
<1>11. IsBest(Upto(InOrder(sofar[i] \o more[i]), s.k), C \cup D, s.k)
       BY <1>7, <1>9, <1>10, TwoBest
<1>12. Merged(s, sofar, piece, turn)[i] = Upto(InOrder(sofar[i] \o more[i]), s.k)
       BY <1>1, <1>6 DEF Merged
<1> QED BY <1>1, <1>2, <1>3, <1>4, <1>11, <1>12

------------------------------------------------------------------------------
(* The k best, as ExactAnswer states them.                                  *)

\* The front of an ordered list is the k best of what it lists.
LEMMA FrontIsBest ==
    ASSUME NEW C \in SUBSET Keyed, NEW k \in Nat \ {0}, NEW z, Enumerates(z, C), Ascends(z)
    PROVE  IsBest(Upto(z, k), C, k)
<1>1. z \in Seq(C) /\ \A x \in C : \E i \in 1 .. Len(z) : z[i] = x
      BY DEF Enumerates
<1>2. PICK n \in Nat : n = Len(z)
      BY <1>1, LenProperties
<1>3. PICK u : u = Upto(z, k)
      OBVIOUS
<1>4. PICK m : m = Least(k, n)
      OBVIOUS
<1>5. m \in Nat /\ m <= k /\ m <= n /\ (n >= k => m = k) /\ (n < k => m = n)
      BY <1>4 DEF Least
<1>6. u \in Seq(C) /\ Len(u) = m /\ \A i \in 1 .. m : u[i] = z[i] /\ i \in 1 .. n
  <2>1. /\ Upto(z, k) \in Seq(C) /\ Len(Upto(z, k)) = Least(k, Len(z))
        /\ \A i \in 1 .. Len(Upto(z, k)) : Upto(z, k)[i] = z[i] /\ i \in 1 .. Len(z)
        BY <1>1, UptoIs
  <2> QED BY <1>2, <1>3, <1>4, <2>1
<1>7. \A i, j \in 1 .. n : i < j => Closer(z[i], z[j])
      BY <1>2 DEF Ascends
<1>8. Ascends(u)
      BY <1>6, <1>7 DEF Ascends
<1>9. ASSUME NEW x \in C PROVE (\E i \in 1 .. m : u[i] = x) \/ (m = k /\ Closer(u[k], x))
  <2>1. PICK p \in 1 .. n : z[p] = x
        BY <1>1, <1>2
  <2>2. CASE p <= k
    <3>1. p \in 1 .. m
          BY <1>5, <2>2
    <3> QED BY <1>6, <2>1, <3>1
  <2>3. CASE ~(p <= k)
    <3>1. m = k /\ k < p /\ k \in 1 .. n /\ k \in 1 .. m
          BY <1>5, <2>3
    <3> QED BY <1>6, <1>7, <2>1, <3>1
  <2> QED BY <2>2, <2>3
<1>10. IsBest(u, C, k)
       BY <1>5, <1>6, <1>8, <1>9 DEF IsBest
<1> QED BY <1>3, <1>10

\* So the k best are the first k of all, sorted.
LEMMA BestIsSorted ==
    ASSUME NEW C \in SUBSET Keyed, IsFiniteSet(C), NEW k \in Nat \ {0}, NEW h, IsBest(h, C, k)
    PROVE  h = Upto(Sorted(C, Closer), k)
<1>1. PICK z : z = Sorted(C, Closer)
      OBVIOUS
<1>2. Enumerates(z, C) /\ Ascends(z)
      BY <1>1, SortedCloser
<1>3. PICK u : u = Upto(z, k)
      OBVIOUS
<1>4. IsBest(u, C, k)
      BY <1>2, <1>3, FrontIsBest
<1>5. h = u
      BY <1>4, BestUnique
<1> QED BY <1>1, <1>3, <1>5

------------------------------------------------------------------------------
(* Rows of floats.                                                          *)

Row == [id : Int, vec : Vecs]
\* A row as a neighbour, the neighbours of some rows, and those that may be returned.
Near(q, row) == [key |-> KeyOf(None, q, row.vec), id |-> row.id]
NearAll(q, rows) == {Near(q, row) : row \in rows}
Valid(s, X) == {x \in X : x.key # NaN /\ Within(s, x.key)}
\* Rows of numbers with different ids.
DifferentIds(rows) == rows \subseteq Row /\ \A a, b \in rows : a.id = b.id => a = b

\* A key is a number or none.
LEMMA KeyIs == ASSUME NEW q \in Vecs, NEW v \in Vecs PROVE KeyOf(None, q, v) \in Int \cup {NaN}
<1>1. CASE Huge \in {q, v}
      BY <1>1, Zenon DEF KeyOf
<1>2. CASE Huge \notin {q, v}
  <2>1. KeyOf(None, q, v) = Distance(q, v)
        BY <1>2, Zenon DEF KeyOf
  <2>2. q \in Int /\ v \in Int
        BY <1>2 DEF Vecs
  <2> QED BY <2>1, <2>2 DEF Distance
<1> QED BY <1>1, <1>2

\* A row of floats as a neighbour.
LEMMA NearIs ==
    ASSUME NEW q \in Vecs, NEW row \in Row
    PROVE  Near(q, row).key \in Int \cup {NaN} /\ Near(q, row).id = row.id /\ row.id \in Int
BY KeyIs DEF Near, Row

\* Neighbours that may be returned have a key.
LEMMA ValidIs ==
    ASSUME NEW s, NEW q \in Vecs, NEW rows \in SUBSET Row
    PROVE  Valid(s, NearAll(q, rows)) \in SUBSET Keyed
<1>1. ASSUME NEW row \in rows, Near(q, row).key # NaN PROVE Near(q, row) \in Keyed
  <2>1. Near(q, row).key \in Int \cup {NaN} /\ Near(q, row).id = row.id /\ row.id \in Int
        BY NearIs
  <2> QED BY <1>1, <2>1 DEF Near, Keyed
<1> QED BY <1>1 DEF Valid, NearAll

\* The rows that some blocks of floats do not skip.
Shown(blocks, m) ==
    {blocks[r[1]].rows[r[2]] : r \in {x \in RowsIn(blocks, m) : x[2] \notin blocks[x[1]].skip}}
\* Blocks of floats that show a row once.
Plain(blocks, m) ==
    /\ \A b \in 1 .. m : blocks[b].coded = None
    /\ \A r \in RowsIn(blocks, m) : blocks[r[1]].rows[r[2]] \in Row
    /\ \A r, x \in RowsIn(blocks, m) :
          /\ r[2] \notin blocks[r[1]].skip /\ x[2] \notin blocks[x[1]].skip
          /\ blocks[r[1]].rows[r[2]].id = blocks[x[1]].rows[x[2]].id
          => r = x

\* Rows are in one of the blocks.
LEMMA RowsInIs == ASSUME NEW blocks, NEW m, NEW r \in RowsIn(blocks, m) PROVE r[1] \in 1 .. m
BY DEF RowsIn

\* In such blocks the rows that count are those shown, near enough and with a key.
LEMMA PlainApart ==
    ASSUME NEW blocks, NEW m, Plain(blocks, m), NEW s, NEW q \in Vecs
    PROVE  /\ Apart(blocks, q, RowsIn(blocks, m))
           /\ Good(s, blocks, q, RowsIn(blocks, m)) = Valid(s, NearAll(q, Shown(blocks, m)))
<1>1. PICK R : R = RowsIn(blocks, m)
      OBVIOUS
<1>2. ASSUME NEW r \in R
      PROVE  /\ RowOf(blocks, q, r) = Near(q, blocks[r[1]].rows[r[2]])
             /\ blocks[r[1]].rows[r[2]] \in Row
  <2>1. blocks[r[1]].coded = None
        BY <1>1, RowsInIs DEF Plain
  <2> QED BY <1>1, <2>1 DEF RowOf, Near, Plain
<1>3. \A r \in R : /\ RowOf(blocks, q, r).key \in Int \cup {NaN} /\ RowOf(blocks, q, r).id \in Int
                   /\ RowOf(blocks, q, r).id = blocks[r[1]].rows[r[2]].id
      BY <1>2, NearIs
<1>4. Apart(blocks, q, R)
      BY <1>1, <1>3 DEF Apart, Plain
<1>5. Shown(blocks, m) = {blocks[r[1]].rows[r[2]] : r \in {x \in R : x[2] \notin blocks[x[1]].skip}}
      BY <1>1 DEF Shown
<1>6. \A x \in Good(s, blocks, q, R) : x \in Valid(s, NearAll(q, Shown(blocks, m)))
  <2> TAKE x \in Good(s, blocks, q, R)
  <2>1. PICK r \in R : Counts(s, blocks, q, r) /\ x = RowOf(blocks, q, r)
        BY DEF Good
  <2>2. r[2] \notin blocks[r[1]].skip /\ x.key # NaN /\ Within(s, x.key)
        BY <2>1 DEF Counts
  <2>3. blocks[r[1]].rows[r[2]] \in Shown(blocks, m)
        BY <1>5, <2>2
  <2>4. x \in NearAll(q, Shown(blocks, m))
        BY <1>2, <2>1, <2>3 DEF NearAll
  <2> QED BY <2>2, <2>4 DEF Valid
<1>7. \A x \in Valid(s, NearAll(q, Shown(blocks, m))) : x \in Good(s, blocks, q, R)
  <2> TAKE x \in Valid(s, NearAll(q, Shown(blocks, m)))
  <2>1. x.key # NaN /\ Within(s, x.key) /\ x \in NearAll(q, Shown(blocks, m))
        BY DEF Valid
  <2>2. PICK row \in Shown(blocks, m) : x = Near(q, row)
        BY <2>1 DEF NearAll
  <2>3. PICK r \in R : r[2] \notin blocks[r[1]].skip /\ row = blocks[r[1]].rows[r[2]]
        BY <1>5
  <2>4. x = RowOf(blocks, q, r)
        BY <1>2, <2>2, <2>3
  <2>5. Counts(s, blocks, q, r)
        BY <2>1, <2>3, <2>4 DEF Counts
  <2> QED BY <2>4, <2>5 DEF Good
<1> QED BY <1>1, <1>4, <1>6, <1>7

\* A list of rows, of which those in skip do not count; the others have different ids.
Listed(rows, skip) ==
    /\ rows \in Seq(Row)
    /\ \A i, j \in (1 .. Len(rows)) \ skip : rows[i].id = rows[j].id => i = j
Seen(rows, skip) == {rows[i] : i \in (1 .. Len(rows)) \ skip}
\* No id is on both lists.
Disjoint(rows, skip, extra) ==
    \A i \in (1 .. Len(rows)) \ skip : \A j \in 1 .. Len(extra) : rows[i].id # extra[j].id

\* One block shows the rows it does not skip.
LEMMA OneBlock ==
    ASSUME NEW rows, NEW skip, Listed(rows, skip), NEW blocks, blocks = <<Floats(rows, skip)>>
    PROVE  Plain(blocks, 1) /\ Shown(blocks, 1) = Seen(rows, skip)
<1>1. PICK b : b = blocks[1]
      OBVIOUS
<1>2. b.rows = rows /\ b.skip = skip /\ b.coded = None
      BY <1>1 DEF Floats
<1>3. PICK n \in Nat : n = Len(rows)
      BY LenProperties DEF Listed
<1>4. \A i \in 1 .. n : rows[i] \in Row
      BY <1>3, ElementOfSeq DEF Listed
<1>5. PICK R : R = RowsIn(blocks, 1)
      OBVIOUS
<1>6. R = {<<1, i>> : i \in 1 .. n}
  <2>1. 1 .. 1 = {1}
        OBVIOUS
  <2> QED BY <1>1, <1>2, <1>3, <1>5, <2>1 DEF RowsIn
<1>7. \A r \in R : \E i \in 1 .. n : r = <<1, i>> /\ r[1] = 1 /\ r[2] = i
      BY <1>6
<1>8. \A c \in 1 .. 1 : blocks[c].coded = None
      BY <1>1, <1>2
<1>9. \A r \in R : blocks[r[1]].rows[r[2]] \in Row
      BY <1>1, <1>2, <1>4, <1>7
<1>10. ASSUME NEW r \in R, NEW x \in R,
              r[2] \notin blocks[r[1]].skip, x[2] \notin blocks[x[1]].skip,
              blocks[r[1]].rows[r[2]].id = blocks[x[1]].rows[x[2]].id
       PROVE  r = x
  <2>1. PICK i \in 1 .. n : r = <<1, i>> /\ r[1] = 1 /\ r[2] = i
        BY <1>7
  <2>2. PICK j \in 1 .. n : x = <<1, j>> /\ x[1] = 1 /\ x[2] = j
        BY <1>7
  <2>3. i \in (1 .. Len(rows)) \ skip /\ j \in (1 .. Len(rows)) \ skip /\ rows[i].id = rows[j].id
        BY <1>1, <1>2, <1>3, <1>10, <2>1, <2>2
  <2>4. i = j
        BY <2>3 DEF Listed
  <2> QED BY <2>1, <2>2, <2>4
<1>11. Plain(blocks, 1)
       BY <1>5, <1>8, <1>9, <1>10 DEF Plain
<1>12. \A y \in Shown(blocks, 1) : y \in Seen(rows, skip)
  <2> TAKE y \in Shown(blocks, 1)
  <2>1. PICK r \in R : r[2] \notin blocks[r[1]].skip /\ y = blocks[r[1]].rows[r[2]]
        BY <1>5 DEF Shown
  <2>2. PICK i \in 1 .. n : r = <<1, i>> /\ r[1] = 1 /\ r[2] = i
        BY <1>7
  <2>3. i \in (1 .. Len(rows)) \ skip /\ y = rows[i]
        BY <1>1, <1>2, <1>3, <2>1, <2>2
  <2> QED BY <2>3 DEF Seen
<1>13. \A y \in Seen(rows, skip) : y \in Shown(blocks, 1)
  <2> TAKE y \in Seen(rows, skip)
  <2>1. PICK i \in 1 .. n : i \notin skip /\ y = rows[i]
        BY <1>3 DEF Seen
  <2>2. PICK r : r = <<1, i>>
        OBVIOUS
  <2>3. r \in R /\ r[1] = 1 /\ r[2] = i
        BY <1>6, <2>2
  <2>4. r[2] \notin blocks[r[1]].skip /\ y = blocks[r[1]].rows[r[2]]
        BY <1>1, <1>2, <2>1, <2>3
  <2> QED BY <1>5, <2>3, <2>4 DEF Shown
<1> QED BY <1>11, <1>12, <1>13

\* A second block shows all of its rows.
LEMMA TwoBlocks ==
    ASSUME NEW rows, NEW skip, Listed(rows, skip), NEW extra, Listed(extra, {}), Disjoint(rows, skip, extra),
           NEW blocks, blocks = <<Floats(rows, skip), Floats(extra, {})>>
    PROVE  Plain(blocks, 2) /\ Shown(blocks, 2) = Seen(rows, skip) \cup Seen(extra, {})
<1>1. PICK b : b = blocks[1]
      OBVIOUS
<1>2. PICK e : e = blocks[2]
      OBVIOUS
<1>3. b.rows = rows /\ b.skip = skip /\ b.coded = None /\ e.rows = extra /\ e.skip = {} /\ e.coded = None
      BY <1>1, <1>2 DEF Floats
<1>4. PICK n \in Nat : n = Len(rows)
      BY LenProperties DEF Listed
<1>5. PICK m \in Nat : m = Len(extra)
      BY LenProperties DEF Listed
<1>6. \A i \in 1 .. n : rows[i] \in Row
      BY <1>4, ElementOfSeq DEF Listed
<1>7. \A i \in 1 .. m : extra[i] \in Row
      BY <1>5, ElementOfSeq DEF Listed
<1>8. PICK R : R = RowsIn(blocks, 2)
      OBVIOUS
<1>9. R = {<<1, i>> : i \in 1 .. n} \cup {<<2, i>> : i \in 1 .. m}
  <2>1. 1 .. 2 = {1, 2}
        OBVIOUS
  <2>2. {<<1, i>> : i \in 1 .. Len(blocks[1].rows)} = {<<1, i>> : i \in 1 .. n}
        BY <1>1, <1>3, <1>4
  <2>3. {<<2, i>> : i \in 1 .. Len(blocks[2].rows)} = {<<2, i>> : i \in 1 .. m}
        BY <1>2, <1>3, <1>5
  <2> QED BY <1>8, <2>1, <2>2, <2>3 DEF RowsIn
<1>10. \A r \in R : \/ \E i \in 1 .. n : r = <<1, i>> /\ r[1] = 1 /\ r[2] = i
                    \/ \E i \in 1 .. m : r = <<2, i>> /\ r[1] = 2 /\ r[2] = i
       BY <1>9
<1>11. \A c \in 1 .. 2 : blocks[c].coded = None
  <2>1. \A c \in 1 .. 2 : c = 1 \/ c = 2
        OBVIOUS
  <2> QED BY <1>1, <1>2, <1>3, <2>1
<1>12. \A r \in R : blocks[r[1]].rows[r[2]] \in Row
       BY <1>1, <1>2, <1>3, <1>6, <1>7, <1>10
<1>13. ASSUME NEW r \in R, NEW x \in R,
              r[2] \notin blocks[r[1]].skip, x[2] \notin blocks[x[1]].skip,
              blocks[r[1]].rows[r[2]].id = blocks[x[1]].rows[x[2]].id
       PROVE  r = x
  <2>1. CASE r[1] = 1 /\ x[1] = 1
    <3>1. PICK i \in 1 .. n : r = <<1, i>> /\ r[2] = i
          BY <1>10, <2>1
    <3>2. PICK j \in 1 .. n : x = <<1, j>> /\ x[2] = j
          BY <1>10, <2>1
    <3>3. i \in (1 .. Len(rows)) \ skip /\ j \in (1 .. Len(rows)) \ skip /\ rows[i].id = rows[j].id
          BY <1>1, <1>3, <1>4, <1>13, <2>1, <3>1, <3>2
    <3>4. i = j
          BY <3>3 DEF Listed
    <3> QED BY <3>1, <3>2, <3>4
  <2>2. CASE r[1] = 2 /\ x[1] = 2
    <3>1. PICK i \in 1 .. m : r = <<2, i>> /\ r[2] = i
          BY <1>10, <2>2
    <3>2. PICK j \in 1 .. m : x = <<2, j>> /\ x[2] = j
          BY <1>10, <2>2
    <3>3. i \in (1 .. Len(extra)) \ {} /\ j \in (1 .. Len(extra)) \ {} /\ extra[i].id = extra[j].id
          BY <1>2, <1>3, <1>5, <1>13, <2>2, <3>1, <3>2
    <3>4. i = j
          BY <3>3 DEF Listed
    <3> QED BY <3>1, <3>2, <3>4
  <2>3. CASE r[1] = 1 /\ x[1] = 2
    <3>1. PICK i \in 1 .. n : r[2] = i
          BY <1>10, <2>3
    <3>2. PICK j \in 1 .. m : x[2] = j
          BY <1>10, <2>3
    <3>3. i \in (1 .. Len(rows)) \ skip /\ j \in 1 .. Len(extra) /\ rows[i].id = extra[j].id
          BY <1>1, <1>2, <1>3, <1>4, <1>5, <1>13, <2>3, <3>1, <3>2
    <3> QED BY <3>3 DEF Disjoint
  <2>4. CASE r[1] = 2 /\ x[1] = 1
    <3>1. PICK i \in 1 .. n : x[2] = i
          BY <1>10, <2>4
    <3>2. PICK j \in 1 .. m : r[2] = j
          BY <1>10, <2>4
    <3>3. i \in (1 .. Len(rows)) \ skip /\ j \in 1 .. Len(extra) /\ rows[i].id = extra[j].id
          BY <1>1, <1>2, <1>3, <1>4, <1>5, <1>13, <2>4, <3>1, <3>2
    <3> QED BY <3>3 DEF Disjoint
  <2> QED BY <1>10, <2>1, <2>2, <2>3, <2>4
<1>14. Plain(blocks, 2)
       BY <1>8, <1>11, <1>12, <1>13 DEF Plain
<1>15. \A y \in Shown(blocks, 2) : y \in Seen(rows, skip) \cup Seen(extra, {})
  <2> TAKE y \in Shown(blocks, 2)
  <2>1. PICK r \in R : r[2] \notin blocks[r[1]].skip /\ y = blocks[r[1]].rows[r[2]]
        BY <1>8 DEF Shown
  <2>2. CASE \E i \in 1 .. n : r = <<1, i>> /\ r[1] = 1 /\ r[2] = i
    <3>1. PICK i \in 1 .. n : r[1] = 1 /\ r[2] = i
          BY <2>2
    <3>2. i \in (1 .. Len(rows)) \ skip /\ y = rows[i]
          BY <1>1, <1>3, <1>4, <2>1, <3>1
    <3> QED BY <3>2 DEF Seen
  <2>3. CASE \E i \in 1 .. m : r = <<2, i>> /\ r[1] = 2 /\ r[2] = i
    <3>1. PICK i \in 1 .. m : r[1] = 2 /\ r[2] = i
          BY <2>3
    <3>2. i \in (1 .. Len(extra)) \ {} /\ y = extra[i]
          BY <1>2, <1>3, <1>5, <2>1, <3>1
    <3> QED BY <3>2 DEF Seen
  <2> QED BY <1>10, <2>2, <2>3
<1>16. \A y \in Seen(rows, skip) : y \in Shown(blocks, 2)
  <2> TAKE y \in Seen(rows, skip)
  <2>1. PICK i \in 1 .. n : i \notin skip /\ y = rows[i]
        BY <1>4 DEF Seen
  <2>2. PICK r : r = <<1, i>>
        OBVIOUS
  <2>3. r \in R /\ r[1] = 1 /\ r[2] = i
        BY <1>9, <2>2
  <2>4. r[2] \notin blocks[r[1]].skip /\ y = blocks[r[1]].rows[r[2]]
        BY <1>1, <1>3, <2>1, <2>3
  <2> QED BY <1>8, <2>3, <2>4 DEF Shown
<1>17. \A y \in Seen(extra, {}) : y \in Shown(blocks, 2)
  <2> TAKE y \in Seen(extra, {})
  <2>1. PICK i \in 1 .. m : y = extra[i]
        BY <1>5 DEF Seen
  <2>2. PICK r : r = <<2, i>>
        OBVIOUS
  <2>3. r \in R /\ r[1] = 2 /\ r[2] = i
        BY <1>9, <2>2
  <2>4. r[2] \notin blocks[r[1]].skip /\ y = blocks[r[1]].rows[r[2]]
        BY <1>2, <1>3, <2>1, <2>3
  <2> QED BY <1>8, <2>3, <2>4 DEF Shown
<1> QED BY <1>14, <1>15, <1>16, <1>17

\* What a search is given.
Asking(s, turn) ==
    /\ s.k \in Nat \ {0} /\ s.threads \in Nat \ {0} /\ Len(s.queries) \in Nat
    /\ turn \in Seq(Int) /\ Len(turn) # 0

\* A flat search of blocks of floats finds the k best of the rows they show.
LEMMA PlainBest ==
    ASSUME NEW s, NEW turn, Asking(s, turn), NEW m \in Nat, NEW blocks, DOMAIN blocks = 1 .. m,
           \A b \in 1 .. m : Len(blocks[b].rows) \in Nat, Plain(blocks, m),
           NEW i \in DOMAIN s.queries, s.queries[i] \in Vecs
    PROVE  IsBest(FlatSearch(s, blocks, turn)[i], Valid(s, NearAll(s.queries[i], Shown(blocks, m))), s.k)
<1>1. PICK q \in Vecs : q = s.queries[i]
      OBVIOUS
<1>2. /\ Apart(blocks, q, RowsIn(blocks, m))
      /\ Good(s, blocks, q, RowsIn(blocks, m)) = Valid(s, NearAll(q, Shown(blocks, m)))
      BY PlainApart
<1>3. Searchable(s, blocks, m, turn)
      BY DEF Asking, Searchable
<1>4. Apart(blocks, s.queries[i], RowsIn(blocks, m))
      BY <1>1, <1>2
<1>5. IsBest(FlatSearch(s, blocks, turn)[i], Good(s, blocks, s.queries[i], RowsIn(blocks, m)), s.k)
      BY <1>3, <1>4, FlatSearchBest
<1> QED BY <1>1, <1>2, <1>5

\* A search of a snapshot is one of a block, with the rows beside it.
Blocks(piece, extra) == IF extra = <<>> THEN <<piece>> ELSE <<piece, Floats(extra, {})>>
Scores(set, few, live, piece) ==
    \A s, extra, turn : ExactSearch(s, set, few, live, extra, turn) = FlatSearch(s, Blocks(piece, extra), turn)

\* The positions to score, copied when a filter allows few.
LEMMA ScoredRows ==
    ASSUME NEW set, set.rows \in Seq(Row), NEW live \in SUBSET DOMAIN set.rows,
           \A p, q \in live : set.rows[p].id = set.rows[q].id => p = q, NEW few
    PROVE  \E rows, skip :
              /\ Listed(rows, skip) /\ Seen(rows, skip) = {set.rows[p] : p \in live}
              /\ Scores(set, few, live, Floats(rows, skip))
<1>1. PICK n \in Nat : n = Len(set.rows) /\ DOMAIN set.rows = 1 .. n
      BY LenProperties
<1>2. \A p \in live : p \in 1 .. n /\ set.rows[p] \in Row
      BY <1>1, ElementOfSeq
<1>3. CASE few
  <2>1. live \in SUBSET Int /\ IsFiniteSet(live)
    <3>1. IsFiniteSet(1 .. n) /\ live \in SUBSET (1 .. n)
          BY <1>1, FS_Interval
    <3>2. IsFiniteSet(live)
          BY <3>1, FS_Subset
    <3> QED BY <3>1, <3>2
  <2>2. PICK pos : pos = Sorted(live, <)
        OBVIOUS
  <2>3. Enumerates(pos, live)
        BY <2>1, <2>2, SortedNumbers
  <2>4. PICK m \in Nat : m = Len(pos) /\ DOMAIN pos = 1 .. m /\ \A i \in 1 .. m : pos[i] \in live
        BY <2>3, LenProperties, ElementOfSeq DEF Enumerates
  <2>5. PICK rows : rows = [i \in DOMAIN pos |-> set.rows[pos[i]]]
        OBVIOUS
  <2>6. \A i \in 1 .. m : rows[i] = set.rows[pos[i]] /\ rows[i] \in Row
        BY <1>2, <2>4, <2>5
  <2>7. rows \in Seq(Row) /\ Len(rows) = m
    <3>1. rows \in [1 .. m -> Row]
          BY <2>4, <2>5, <2>6
    <3>2. rows \in Seq(Row)
          BY <3>1, SeqDef
    <3> QED BY <3>1, <3>2, LenProperties
  <2>8. Listed(rows, {})
    <3>1. \A i, j \in 1 .. m : pos[i] = pos[j] => i = j
          BY <2>3, <2>4 DEF Enumerates
    <3>2. \A i, j \in 1 .. m : rows[i].id = rows[j].id => i = j
          BY <2>4, <2>6, <3>1
    <3> QED BY <2>7, <3>2 DEF Listed
  <2>9. Seen(rows, {}) = {set.rows[p] : p \in live}
    <3>1. \A p \in live : \E i \in 1 .. m : pos[i] = p
          BY <2>3, <2>4 DEF Enumerates
    <3>2. \A y \in Seen(rows, {}) : \E p \in live : y = set.rows[p]
          BY <2>4, <2>6, <2>7 DEF Seen
    <3>3. \A p \in live : set.rows[p] \in Seen(rows, {})
          BY <2>6, <2>7, <3>1 DEF Seen
    <3> QED BY <3>2, <3>3
  <2>10. Scores(set, few, live, Floats(rows, {}))
         BY <1>3, <2>2, <2>5 DEF ExactSearch, Scores, Blocks
  <2> QED BY <2>8, <2>9, <2>10
<1>4. CASE ~few
  <2>1. PICK skip : skip = DOMAIN set.rows \ live
        OBVIOUS
  <2>2. PICK rows : rows = set.rows
        OBVIOUS
  <2>3. (1 .. n) \ skip = live
        BY <1>1, <2>1
  <2>4. Listed(rows, skip)
        BY <1>1, <2>2, <2>3 DEF Listed
  <2>5. Seen(rows, skip) = {set.rows[p] : p \in live}
        BY <1>1, <2>2, <2>3 DEF Seen
  <2>6. Scores(set, few, live, Floats(rows, skip))
        BY <1>4, <2>1, <2>2 DEF ExactSearch, Scores, Blocks
  <2> QED BY <2>4, <2>5, <2>6
<1> QED BY <1>3, <1>4

\* An exact search of a snapshot finds the k best of the rows to score and of those beside them.
LEMMA ExactBest ==
    ASSUME NEW s, NEW turn, Asking(s, turn), NEW set, set.rows \in Seq(Row), NEW live \in SUBSET DOMAIN set.rows,
           \A p, q \in live : set.rows[p].id = set.rows[q].id => p = q, NEW few,
           NEW extra, Listed(extra, {}), \A p \in live : \A j \in 1 .. Len(extra) : set.rows[p].id # extra[j].id,
           NEW i \in DOMAIN s.queries, s.queries[i] \in Vecs
    PROVE  IsBest(ExactSearch(s, set, few, live, extra, turn)[i],
                  Valid(s, NearAll(s.queries[i], {set.rows[p] : p \in live} \cup Seen(extra, {}))), s.k)
<1>1. PICK rows, skip :
         /\ Listed(rows, skip) /\ Seen(rows, skip) = {set.rows[p] : p \in live}
         /\ Scores(set, few, live, Floats(rows, skip))
      BY ScoredRows
<1>2. PICK x : x = Floats(rows, skip)
      OBVIOUS
<1>3. PICK y : y = Floats(extra, {})
      OBVIOUS
<1>4. x.rows = rows /\ y.rows = extra /\ Len(rows) \in Nat /\ Len(extra) \in Nat
      BY <1>1, <1>2, <1>3, LenProperties DEF Floats, Listed
<1>5. CASE extra = <<>>
  <2>1. PICK blocks : blocks = <<x>>
        OBVIOUS
  <2>3. ExactSearch(s, set, few, live, extra, turn) = FlatSearch(s, blocks, turn)
        BY <1>1, <1>2, <1>5, <2>1 DEF Scores, Blocks
  <2>4. Plain(blocks, 1) /\ Shown(blocks, 1) = Seen(rows, skip)
        BY <1>1, <1>2, <2>1, OneBlock
  <2>5. PICK m : m = 1
        OBVIOUS
  <2>6. m \in Nat /\ DOMAIN blocks = 1 .. m /\ \A b \in 1 .. m : Len(blocks[b].rows) \in Nat
        BY <1>4, <2>1, <2>5
  <2>7. Plain(blocks, m)
        BY <2>4, <2>5
  <2>8. IsBest(FlatSearch(s, blocks, turn)[i], Valid(s, NearAll(s.queries[i], Shown(blocks, m))), s.k)
        BY <2>6, <2>7, PlainBest
  <2>9. Seen(extra, {}) = {}
        BY <1>5 DEF Seen
  <2>10. Shown(blocks, m) = {set.rows[p] : p \in live} \cup Seen(extra, {})
         BY <1>1, <2>4, <2>5, <2>9
  <2> QED BY <2>3, <2>8, <2>10
<1>6. CASE extra # <<>>
  <2>1. PICK blocks : blocks = <<x, y>>
        OBVIOUS
  <2>3. ExactSearch(s, set, few, live, extra, turn) = FlatSearch(s, blocks, turn)
        BY <1>1, <1>2, <1>3, <1>6, <2>1 DEF Scores, Blocks
  <2>4. Disjoint(rows, skip, extra)
    <3>1. \A j \in (1 .. Len(rows)) \ skip : \E p \in live : rows[j] = set.rows[p]
          BY <1>1 DEF Seen
    <3> QED BY <3>1 DEF Disjoint
  <2>5. Plain(blocks, 2) /\ Shown(blocks, 2) = Seen(rows, skip) \cup Seen(extra, {})
        BY <1>1, <1>2, <1>3, <2>1, <2>4, TwoBlocks
  <2>6. PICK m : m = 2
        OBVIOUS
  <2>7. m \in Nat /\ DOMAIN blocks = 1 .. m /\ \A b \in 1 .. m : Len(blocks[b].rows) \in Nat
    <3>1. \A b \in 1 .. m : b = 1 \/ b = 2
          BY <2>6
    <3>2. blocks[1] = x /\ blocks[2] = y
          BY <2>1
    <3>3. DOMAIN blocks = 1 .. m
          BY <2>1, <2>6
    <3> QED BY <1>4, <2>6, <3>1, <3>2, <3>3
  <2>8. Plain(blocks, m)
        BY <2>5, <2>6
  <2>9. IsBest(FlatSearch(s, blocks, turn)[i], Valid(s, NearAll(s.queries[i], Shown(blocks, m))), s.k)
        BY <2>7, <2>8, PlainBest
  <2>10. Shown(blocks, m) = {set.rows[p] : p \in live} \cup Seen(extra, {})
         BY <1>1, <2>5, <2>6
  <2> QED BY <2>3, <2>9, <2>10
<1> QED BY <1>5, <1>6

\* The images of finitely many things are finitely many.
LEMMA ImagesFinite ==
    ASSUME NEW S, IsFiniteSet(S), NEW f
    PROVE  IsFiniteSet({f[x] : x \in S})
<1>1. PICK T : T = {f[x] : x \in S}
      OBVIOUS
<1>2. PICK g : g = [x \in S |-> f[x]]
      OBVIOUS
<1>3. g \in Surjection(S, T)
  <2>1. g \in [S -> T]
        BY <1>1, <1>2
  <2>2. \A t \in T : \E x \in S : g[x] = t
        BY <1>1, <1>2
  <2> QED BY <2>1, <2>2 DEF Surjection
<1> QED BY <1>1, <1>3, FS_Surjection

\* Finitely many rows give finitely many neighbours.
LEMMA NearFinite ==
    ASSUME NEW s, NEW q, NEW rows, IsFiniteSet(rows)
    PROVE  IsFiniteSet(Valid(s, NearAll(q, rows)))
<1>1. PICK f : f = [x \in rows |-> Near(q, x)]
      OBVIOUS
<1>2. IsFiniteSet({f[x] : x \in rows})
      BY ImagesFinite
<1>3. {f[x] : x \in rows} = NearAll(q, rows)
      BY <1>1 DEF NearAll
<1>4. Valid(s, NearAll(q, rows)) \in SUBSET NearAll(q, rows)
      BY DEF Valid
<1> QED BY <1>2, <1>3, <1>4, FS_Subset

\* So the k best are the first k.
LEMMA BestRows ==
    ASSUME NEW s, s.k \in Nat \ {0}, NEW q \in Vecs, NEW rows \in SUBSET Row, IsFiniteSet(rows),
           NEW h, IsBest(h, Valid(s, NearAll(q, rows)), s.k)
    PROVE  h = Upto(Sorted(Valid(s, NearAll(q, rows)), Closer), s.k)
<1>1. PICK C : C = Valid(s, NearAll(q, rows))
      OBVIOUS
<1>2. C \in SUBSET Keyed /\ IsFiniteSet(C) /\ IsBest(h, C, s.k)
      BY <1>1, ValidIs, NearFinite
<1> QED BY <1>1, <1>2, BestIsSorted

------------------------------------------------------------------------------
(* What a call keeps besides: its queries are vectors, its settings numbers.                            *)

Started == pc \notin {"open", "failed"}
Asked ==
    Started =>
        /\ settings.k \in Nat \ {0} /\ settings.threads \in Nat \ {0}
        /\ \A i \in DOMAIN queries : queries[i].vec \in Vecs
        /\ call.kind # "vscan" => held \in DOMAIN call.snaps

\* As many threads as asked for, or as there are cores.
LEMMA ThreadsAre ==
    ASSUME call \in Calls, NEW index, Threaded(index), NEW n \in Nat
    PROVE  /\ Threads(Value(index, "threads", n)) \in Nat \ {0}
           /\ Threads(Given("threads", n)) \in Nat \ {0}
<1>1. Threaded(call.params) /\ Threaded(call.session)
      BY CallRows
<1>2. Found(index, "threads", n) \in Nat
      BY DEF Found, Threaded
<1>3. Found(call.session, "threads", Found(index, "threads", n)) \in Nat
      BY <1>1, <1>2 DEF Found, Threaded
<1>4. Value(index, "threads", n) \in Nat
      BY <1>1, <1>3 DEF Value, Found, Threaded
<1>5. Given("threads", n) \in Nat
      BY <1>1 DEF Given, Found, Threaded
<1>6. Cores \in Nat \ {0}
      BY SearchConstants
<1> QED BY <1>4, <1>5, <1>6 DEF Threads

\* The given queries that a call goes on with are vectors.
LEMMA GivenVectors ==
    ASSUME call \in Calls, BadVec \notin ToSet(call.given)
    PROVE  \A i \in DOMAIN call.given : call.given[i] \in Vecs
BY CallRows DEF ToSet

\* Snapshots have positions from 1 on.
LEMMA SnapsAre ==
    ASSUME call \in Calls
    PROVE  \E n \in Nat \ {0} : DOMAIN call.snaps = 1 .. n
<1>1. call.snaps \in Seq(ToSet(call.snaps)) /\ call.snaps # <<>>
      BY CallShapes, CallRows
<1>2. Len(call.snaps) \in Nat /\ DOMAIN call.snaps = 1 .. Len(call.snaps) /\ Len(call.snaps) # 0
      BY <1>1, LenProperties, EmptySeq
<1> QED BY <1>2

\* vsearch and vknn start with settings in range, the given vectors and a snapshot.
LEMMA OpenAsked == Inv /\ Open => Asked'
<1> SUFFICES ASSUME Inv, Open, Started' PROVE Asked'
    BY DEF Asked
<1>1. call \in Calls /\ UNCHANGED call /\ call' \in Calls /\ call.kind # "vscan" /\ pc' # "failed"
      BY DEF Inv, Views, Open, Started
<1>2. active \in Nat \ {0} /\ active \in DOMAIN call.snaps \cup {1} /\ held' \in 1 .. active
      BY DEF Inv, Views, Open
<1>3. held' \in DOMAIN call.snaps
  <2>1. PICK n \in Nat \ {0} : DOMAIN call.snaps = 1 .. n
        BY <1>1, SnapsAre
  <2> QED BY <1>2, <2>1
<1>4. settings' = SearchSettings(call.snaps[held'].options) /\ InRange(settings')
      BY <1>1 DEF Open, Fail
<1>5. BadVec \notin ToSet(call.given)
      BY <1>1 DEF Open, Fail
<1>6. settings'.k \in Nat \ {0}
      BY <1>4, SearchConstants DEF InRange
<1>7. settings'.threads \in Nat \ {0}
  <2>1. Threaded(call.snaps[held'].options)
        BY <1>1, <1>3, CallRows
  <2>2. PICK options : options = call.snaps[held'].options
        OBVIOUS
  <2>3. settings'.threads = Threads(Value(options, "threads", 0))
        BY <1>4, <2>2 DEF SearchSettings
  <2>4. PICK zero \in Nat : zero = 0
        OBVIOUS
  <2>5. Threads(Value(options, "threads", zero)) \in Nat \ {0}
        BY <1>1, <2>1, <2>2, ThreadsAre
  <2> QED BY <2>3, <2>4, <2>5
<1>8. \A i \in DOMAIN queries' : queries'[i].vec \in Vecs
  <2>1. CASE call.kind = "vknn"
    <3>1. queries' = <<>>
          BY <1>1, <2>1, <1>4, <1>5 DEF Open, Fail
    <3>2. DOMAIN queries' = {}
          BY <3>1, EmptyList
    <3> QED BY <3>2
  <2>2. CASE call.kind # "vknn"
    <3>1. queries' = [i \in DOMAIN call.given |-> [qid |-> 0, vec |-> call.given[i]]]
          BY <1>1, <2>2, <1>4, <1>5 DEF Open, Fail
    <3>2. \A i \in DOMAIN call.given : call.given[i] \in Vecs
          BY <1>1, <1>5, GivenVectors
    <3> QED BY <3>1, <3>2
  <2> QED BY <2>1, <2>2
<1> QED BY <1>1, <1>3, <1>6, <1>7, <1>8 DEF Asked

\* vscan starts with settings in range and the given vectors.
LEMMA ScanOpenAsked == Inv /\ VScanOpen => Asked'
<1> SUFFICES ASSUME Inv, VScanOpen, Started' PROVE Asked'
    BY DEF Asked
<1>1. call \in Calls /\ UNCHANGED call /\ call.kind = "vscan" /\ pc' # "failed"
      BY DEF Inv, Views, VScanOpen, Started
<1>2. /\ settings' = [k |-> Given("k", 10), radius |-> Given("radius", None), threads |-> Threads(Given("threads", 1))]
      /\ settings'.k \in 1 .. MaxK /\ BadVec \notin ToSet(call.given)
      /\ queries' = [i \in DOMAIN call.given |-> [qid |-> i, vec |-> call.given[i]]]
      BY <1>1 DEF VScanOpen, Fail
<1>3. settings'.k \in Nat \ {0}
      BY <1>2, SearchConstants
<1>4. settings'.threads \in Nat \ {0}
  <2>1. PICK one \in Nat : one = 1
        OBVIOUS
  <2>2. Threads(Given("threads", one)) \in Nat \ {0}
        BY <1>1, <2>1, ThreadsAre, CallRows
  <2>3. settings'.threads = Threads(Given("threads", one))
        BY <1>2, <2>1
  <2> QED BY <2>2, <2>3
<1>5. \A i \in DOMAIN call.given : call.given[i] \in Vecs
      BY <1>1, <1>2, GivenVectors
<1>6. \A i \in DOMAIN queries' : queries'[i].vec \in Vecs
      BY <1>2, <1>5
<1> QED BY <1>1, <1>3, <1>4, <1>6 DEF Asked

\* A list of queries and one more.
LEMMA OneMoreQuery ==
    ASSUME NEW qs, ListOf(qs), NEW q, \A i \in DOMAIN qs : qs[i].vec \in Vecs, q.vec \in Vecs,
           NEW more, more = Append(qs, q)
    PROVE  \A i \in DOMAIN more : more[i].vec \in Vecs
<1>1. /\ Len(qs) \in Nat /\ DOMAIN qs = 1 .. Len(qs) /\ DOMAIN more = 1 .. Len(qs) + 1
      /\ \A i \in 1 .. Len(qs) : more[i] = qs[i]
      /\ more[Len(qs) + 1] = q
      BY ListsAppend
<1>2. \A i \in 1 .. Len(qs) + 1 : i \in 1 .. Len(qs) \/ i = Len(qs) + 1
      BY <1>1
<1> QED BY <1>1, <1>2

\* A query row that is taken has a vector.
LEMMA RowAsked == Inv /\ Asked /\ VSearchRow => Asked'
<1> SUFFICES ASSUME Inv, Asked, VSearchRow, Started' PROVE Asked'
    BY DEF Asked
<1>1. /\ call \in Calls /\ UNCHANGED <<call, held, settings>> /\ call.kind = "vsearch" /\ Started /\ pc' # "failed"
      /\ unread \subseteq call.rows /\ ListOf(queries)
      BY DEF Inv, Views, Lists, VSearchRow, Started
<1>2. PICK r \in unread :
        /\ ~RowError(r)
        /\ queries' = IF IsQuery(r) THEN Append(queries, [qid |-> r.qid, vec |-> r.qvec]) ELSE queries
      BY <1>1 DEF VSearchRow, Fail
<1>3. \A i \in DOMAIN queries : queries[i].vec \in Vecs
      BY <1>1 DEF Asked
<1>4. \A i \in DOMAIN queries' : queries'[i].vec \in Vecs
  <2>1. CASE IsQuery(r)
    <3>1. r.qvec \in Vecs
      <4>1. r.qvec # None /\ r.qvec # BadVec
            BY <1>2, <2>1 DEF RowError
      <4>2. r.qvec \in Vecs \cup {BadVec, None}
            BY <1>1, <1>2, CallRows
      <4> QED BY <4>1, <4>2
    <3>2. PICK q : q = [qid |-> r.qid, vec |-> r.qvec]
          OBVIOUS
    <3>3. q.vec \in Vecs /\ queries' = Append(queries, q)
          BY <1>2, <2>1, <3>1, <3>2
    <3> QED BY <1>1, <1>3, <3>3, OneMoreQuery
  <2>2. CASE ~IsQuery(r)
        BY <1>2, <1>3, <2>2
  <2> QED BY <2>1, <2>2
<1> QED BY <1>1, <1>4 DEF Asked

\* A row of vknn that is searched.
KnnSearch(q) ==
    /\ q.vec \in Vecs /\ queries' = Append(queries, q) /\ pc' = "read"
    /\ \E turn \in Turns :
          out' = out \o IndexSearch(Describe(<<q>>), Set, Plan(settings, Set, FALSE, {}), Set.dead, <<>>,
                                    turn, call.misses, pool).out
\* A row of vknn is passed by, or searched for its vector or for the given one.
LEMMA KnnRowIs ==
    ASSUME Inv, VKnnRow, pc' # "failed"
    PROVE  UNCHANGED <<queries, out>> \/ \E q : KnnSearch(q)
<1>1. call \in Calls /\ ListOf(queries) /\ unread \subseteq call.rows /\ pc = "read"
      BY DEF Inv, Views, Lists, VKnnRow
<1>2. PICK r, vec :
        /\ r \in unread
        /\ vec = IF r.qvec # None THEN r.qvec ELSE IF call.given = <<>> THEN None ELSE call.given[1]
        /\ \/ UNCHANGED <<queries, out>>
           \/ /\ vec # None /\ vec # BadVec /\ pc' = pc
              /\ queries' = queries \o <<[qid |-> r.qid, vec |-> vec]>>
              /\ \E turn \in Turns :
                   out' = out \o IndexSearch(Describe(<<[qid |-> r.qid, vec |-> vec]>>), Set,
                                             Plan(settings, Set, FALSE, {}), Set.dead, <<>>,
                                             turn, call.misses, pool).out
      BY DEF VKnnRow, Fail
<1>3. CASE UNCHANGED <<queries, out>>
      BY <1>3
<1>4. CASE ~UNCHANGED <<queries, out>>
  <2>1. vec \in Vecs
    <3>1. r.qvec \in Vecs \cup {BadVec, None} /\ ToSet(call.given) \subseteq Vecs \cup {BadVec}
          BY <1>1, <1>2, CallRows
    <3>2. CASE r.qvec # None
          BY <1>2, <1>4, <3>1, <3>2
    <3>3. CASE r.qvec = None
      <4>1. call.given # <<>> /\ vec = call.given[1]
            BY <1>2, <1>4, <3>3
      <4>2. 1 \in DOMAIN call.given
        <5>1. call.given \in Seq(ToSet(call.given))
              BY <1>1, CallShapes
        <5> QED BY <4>1, <5>1, EmptySeq, LenProperties
      <4>3. call.given[1] \in ToSet(call.given)
            BY <4>2 DEF ToSet
      <4> QED BY <1>2, <1>4, <3>1, <4>1, <4>3
    <3> QED BY <3>2, <3>3
  <2>2. PICK q : q = [qid |-> r.qid, vec |-> vec]
        OBVIOUS
  <2>3. q.vec \in Vecs /\ pc' = "read"
        BY <1>1, <1>2, <1>4, <2>1, <2>2
  <2>4. queries' = queries \o <<q>>
        BY <1>2, <1>4, <2>2
  <2>5. queries' = Append(queries, q)
        BY <1>1, <2>4 DEF ListOf
  <2>6. \E turn \in Turns :
          out' = out \o IndexSearch(Describe(<<q>>), Set, Plan(settings, Set, FALSE, {}), Set.dead, <<>>,
                                    turn, call.misses, pool).out
        BY <1>2, <1>4, <2>2
  <2> QED BY <2>3, <2>5, <2>6 DEF KnnSearch
<1> QED BY <1>3, <1>4

\* What vknn searches for is a vector.
LEMMA KnnAsked == Inv /\ Asked /\ VKnnRow => Asked'
<1> SUFFICES ASSUME Inv, Asked, VKnnRow, Started' PROVE Asked'
    BY DEF Asked
<1>1. /\ UNCHANGED <<call, held, settings>> /\ call.kind = "vknn" /\ Started /\ pc' # "failed" /\ ListOf(queries)
      BY DEF Inv, Views, Lists, VKnnRow, Started
<1>2. \A i \in DOMAIN queries : queries[i].vec \in Vecs
      BY <1>1 DEF Asked
<1>3. \A i \in DOMAIN queries' : queries'[i].vec \in Vecs
  <2>1. CASE UNCHANGED queries
        BY <1>2, <2>1
  <2>2. CASE \E q : KnnSearch(q)
    <3>1. PICK q : q.vec \in Vecs /\ queries' = Append(queries, q)
          BY <2>2 DEF KnnSearch
    <3> QED BY <1>1, <1>2, <3>1, OneMoreQuery
  <2> QED BY <1>1, <2>1, <2>2, KnnRowIs
<1> QED BY <1>1, <1>3 DEF Asked

\* A second open holds a snapshot again.
LEMMA ReopenAsked == Inv /\ Asked /\ VSearchReopen => Asked'
<1> SUFFICES ASSUME Inv, Asked, VSearchReopen, Started' PROVE Asked'
    BY DEF Asked
<1>1. /\ call \in Calls /\ UNCHANGED <<call, queries, settings>> /\ Started /\ call.kind = "vsearch"
      /\ held' \in {held, active} /\ active \in DOMAIN call.snaps \cup {1}
      BY DEF Inv, Views, VSearchReopen, Started
<1>2. PICK n \in Nat \ {0} : DOMAIN call.snaps = 1 .. n
      BY <1>1, SnapsAre
<1>3. 1 \in DOMAIN call.snaps
      BY <1>2
<1>4. held' \in DOMAIN call.snaps
      BY <1>1, <1>3 DEF Asked
<1> QED BY <1>1, <1>4 DEF Asked

\* The other steps leave settings, queries and snapshot as they are.
LEMMA OtherAsked ==
    Inv /\ Asked /\ (UNCHANGED vars \/ Load \/ VSearchSearch \/ VKnnEnd \/ VScanRow \/ VScanEnd \/ Cancel) => Asked'
<1> SUFFICES ASSUME Inv, Asked, UNCHANGED vars \/ Load \/ VSearchSearch \/ VKnnEnd \/ VScanRow \/ VScanEnd \/ Cancel
             PROVE  Asked'
    OBVIOUS
<1>1. UNCHANGED <<call, queries, settings, held>> /\ (Started' => Started)
      BY DEF vars, Load, VSearchSearch, VKnnEnd, VScanRow, VScanEnd, Cancel, Fail, Started
<1> QED BY <1>1 DEF Asked

\* So every step keeps them.
LEMMA AskedStep == Inv /\ Asked /\ [Next]_vars => Asked'
BY OpenAsked, ScanOpenAsked, RowAsked, KnnAsked, ReopenAsked, OtherAsked DEF Next

------------------------------------------------------------------------------
(* Searches that score every row.                                           *)

\* A plan without a graph and without codes, or a filter of few, scores them.
LEMMA SearchIsExact ==
    ASSUME NEW s, NEW set, NEW plan, NEW few, NEW live, NEW extra, NEW turn, NEW misses, NEW kept,
           few \/ (~plan.graph /\ ~plan.codes)
    PROVE  SearchLive(s, set, plan, few, live, extra, turn, misses, kept).out
             = ExactSearch(s, set, few, live, extra, turn)
BY DEF SearchLive

\* The turns of threads are lists of numbers.
LEMMA TurnsAre ==
    ASSUME settings.threads \in Nat \ {0}, NEW turn \in Turns
    PROVE  turn \in Seq(Int) /\ Len(turn) # 0
<1>1. MaxUnits \in Nat \ {0}
      BY SearchConstants
<1>2. turn \in [1 .. MaxUnits -> Int]
      BY DEF Turns
<1>3. turn \in Seq(Int)
      BY <1>1, <1>2, SeqDef
<1>4. DOMAIN turn = 1 .. MaxUnits
      BY <1>2
<1>5. Len(turn) = MaxUnits
      BY <1>1, <1>3, <1>4, LenProperties
<1> QED BY <1>1, <1>3, <1>5

\* What the call asks of a search.
LEMMA DescribeIs ==
    ASSUME NEW qs, ListOf(qs), settings.k \in Nat \ {0}, settings.threads \in Nat \ {0}, NEW turn \in Turns
    PROVE  /\ Asking(Describe(qs), turn) /\ Describe(qs).k = settings.k /\ DOMAIN Describe(qs).queries = DOMAIN qs
           /\ \A i \in DOMAIN qs : Describe(qs).queries[i] = qs[i].vec
           /\ \A X : Valid(Describe(qs), X) = Valid(settings, X)
<1>1. PICK s : s = Describe(qs)
      OBVIOUS
<1>2. /\ s.k = settings.k /\ s.threads = settings.threads /\ s.radius = settings.radius
      /\ s.queries = [i \in DOMAIN qs |-> qs[i].vec]
      BY <1>1 DEF Describe
<1>3. Len(qs) \in Nat /\ DOMAIN qs = 1 .. Len(qs)
      BY ListsAreAnswers
<1>4. Answers(s.queries, Len(qs))
      BY <1>2, <1>3 DEF Answers
<1>5. Len(s.queries) \in Nat
      BY <1>3, <1>4, AnswersAreLists
<1>6. Asking(s, turn)
      BY <1>2, <1>5, TurnsAre DEF Asking
<1>7. \A X : Valid(s, X) = Valid(settings, X)
      BY <1>2 DEF Valid, Within
<1> QED BY <1>1, <1>2, <1>6, <1>7

\* The rows of a snapshot have different ids where they live.
LEMMA SnapshotRows ==
    ASSUME call \in Calls, held \in DOMAIN call.snaps
    PROVE  /\ Set.rows \in Seq(Row) /\ Threaded(Set.options)
           /\ \A p, q \in DOMAIN Set.rows \ Set.dead : Set.rows[p].id = Set.rows[q].id => p = q
BY CallRows DEF Set, Row

------------------------------------------------------------------------------
(* vknn: every row's answer is the k best of the snapshot.                  *)

LiveRows == {Set.rows[p] : p \in DOMAIN Set.rows \ Set.dead}
KnnPlan == Plan(settings, Set, FALSE, {})
KnnSoFar ==
    call.kind = "vknn" /\ Started /\ ~KnnPlan.graph /\ ~KnnPlan.codes =>
        \A i \in DOMAIN out : IsBest(out[i], Valid(settings, NearAll(queries[i].vec, LiveRows)), settings.k)

\* No rows.
LEMMA NoneSeen == Listed(<<>>, {}) /\ Seen(<<>>, {}) = {} /\ Len(<<>>) = 0
<1>1. PICK e : e = <<>>
      OBVIOUS
<1>2. e \in Seq(Row) /\ Len(e) = 0
      BY <1>1
<1>3. 1 .. Len(e) = {}
      BY <1>2
<1>4. Listed(e, {}) /\ Seen(e, {}) = {}
      BY <1>2, <1>3 DEF Listed, Seen
<1> QED BY <1>1, <1>2, <1>4

\* The search of one query finds the k best of the live rows.
LEMMA KnnAnswer ==
    ASSUME call \in Calls, held \in DOMAIN call.snaps, settings.k \in Nat \ {0}, settings.threads \in Nat \ {0},
           ~KnnPlan.graph, ~KnnPlan.codes, NEW q, q.vec \in Vecs, NEW turn \in Turns, NEW misses, NEW kept
    PROVE  IsBest(IndexSearch(Describe(<<q>>), Set, KnnPlan, Set.dead, <<>>, turn, misses, kept).out[1],
                  Valid(settings, NearAll(q.vec, LiveRows)), settings.k)
<1>1. PICK qs : qs = <<q>>
      OBVIOUS
<1>2. ListOf(qs) /\ DOMAIN qs = {1} /\ qs[1] = q
  <2>1. qs \in Seq({q})
        BY <1>1
  <2>2. ListOf(qs)
        BY <2>1 DEF ListOf
  <2>3. DOMAIN qs = 1 .. 1 /\ qs[1] = q
        BY <1>1
  <2>4. 1 .. 1 = {1}
        OBVIOUS
  <2> QED BY <2>2, <2>3, <2>4
<1>3. PICK s : s = Describe(qs)
      OBVIOUS
<1>4. /\ Asking(s, turn) /\ s.k = settings.k /\ DOMAIN s.queries = {1} /\ s.queries[1] = q.vec
      /\ \A X : Valid(s, X) = Valid(settings, X)
      BY <1>2, <1>3, DescribeIs
<1>5. PICK live : live = DOMAIN Set.rows \ Set.dead
      OBVIOUS
<1>6. PICK set : set = Set
      OBVIOUS
<1>7. PICK few : few = FewAllowed(s, set, KnnPlan, set.dead)
      OBVIOUS
<1>8. ~KnnPlan.filtered
      BY DEF KnnPlan, Plan
<1>9. IndexSearch(s, set, KnnPlan, set.dead, <<>>, turn, misses, kept).out
        = ExactSearch(s, set, few, live, <<>>, turn)
  <2>1. IndexSearch(s, set, KnnPlan, set.dead, <<>>, turn, misses, kept)
          = SearchLive(s, set, KnnPlan, few, live, <<>>, turn, misses, kept)
        BY <1>5, <1>6, <1>7, <1>8 DEF IndexSearch
  <2> QED BY <2>1, SearchIsExact
<1>10. PICK extra : extra = <<>>
       OBVIOUS
<1>11. Listed(extra, {}) /\ Seen(extra, {}) = {} /\ Len(extra) = 0
       BY <1>10, NoneSeen
<1>12. /\ set.rows \in Seq(Row) /\ live \in SUBSET DOMAIN set.rows
       /\ \A p, x \in live : set.rows[p].id = set.rows[x].id => p = x
       BY <1>5, <1>6, SnapshotRows
<1>13. \A p \in live : \A j \in 1 .. Len(extra) : set.rows[p].id # extra[j].id
  <2>1. 1 .. Len(extra) = {}
        BY <1>11
  <2> QED BY <2>1
<1>14. PICK i : i = 1
       OBVIOUS
<1>15. i \in DOMAIN s.queries /\ s.queries[i] \in Vecs
       BY <1>4, <1>14
<1>16. IsBest(ExactSearch(s, set, few, live, extra, turn)[i],
              Valid(s, NearAll(s.queries[i], {set.rows[p] : p \in live} \cup Seen(extra, {}))), s.k)
       BY <1>4, <1>11, <1>12, <1>13, <1>15, ExactBest
<1>17. {set.rows[p] : p \in live} \cup Seen(extra, {}) = LiveRows
       BY <1>5, <1>6, <1>11 DEF LiveRows
<1>18. IsBest(ExactSearch(s, set, few, live, extra, turn)[i], Valid(settings, NearAll(q.vec, LiveRows)), settings.k)
       BY <1>4, <1>14, <1>16, <1>17
<1> QED BY <1>1, <1>3, <1>6, <1>9, <1>10, <1>14, <1>18

\* Appended answers.
LEMMA ConcatAt ==
    ASSUME NEW p, NEW q, ListOf(p), ListOf(q), Len(q) = 1
    PROVE  /\ DOMAIN (p \o q) = 1 .. Len(p) + 1 /\ DOMAIN p = 1 .. Len(p) /\ Len(p) \in Nat
           /\ \A i \in 1 .. Len(p) : (p \o q)[i] = p[i]
           /\ (p \o q)[Len(p) + 1] = q[1]
<1>1. PICK S : p \in Seq(S)
      BY DEF ListOf
<1>2. PICK T : q \in Seq(T)
      BY DEF ListOf
<1>3. PICK U : U = S \cup T
      OBVIOUS
<1>4. p \in Seq(U) /\ q \in Seq(U)
      BY <1>1, <1>2, <1>3, SeqMonotonic
<1>5. PICK n \in Nat : n = Len(p) /\ DOMAIN p = 1 .. n
      BY <1>4, LenProperties
<1>6. PICK z : z = p \o q
      OBVIOUS
<1>7. z \in Seq(U) /\ Len(z) = n + 1 /\ \A i \in 1 .. n + 1 : z[i] = IF i <= n THEN p[i] ELSE q[i - n]
  <2>1. /\ p \o q \in Seq(U) /\ Len(p \o q) = Len(p) + Len(q)
        /\ \A i \in 1 .. Len(p) + Len(q) : (p \o q)[i] = IF i <= Len(p) THEN p[i] ELSE q[i - Len(p)]
        BY <1>4, ConcatProperties
  <2> QED BY <1>5, <1>6, <2>1
<1>8. DOMAIN z = 1 .. n + 1
      BY <1>7, LenProperties
<1>9. \A i \in 1 .. n : z[i] = p[i]
      BY <1>7
<1>10. z[n + 1] = q[1]
  <2>1. n + 1 \in 1 .. n + 1 /\ ~(n + 1 <= n) /\ (n + 1) - n = 1
        OBVIOUS
  <2> QED BY <1>7, <2>1
<1> QED BY <1>5, <1>6, <1>8, <1>9, <1>10

\* A row of vknn adds the k best for its vector.
LEMMA KnnRowSoFar == Inv /\ Asked /\ KnnSoFar /\ VKnnRow => KnnSoFar'
<1> SUFFICES ASSUME Inv, Asked, KnnSoFar, VKnnRow, Started', ~KnnPlan'.graph, ~KnnPlan'.codes PROVE KnnSoFar'
    BY DEF KnnSoFar
<1>1. /\ call \in Calls /\ UNCHANGED <<call, held, settings>> /\ call.kind = "vknn" /\ Started /\ pc' # "failed"
      /\ ListOf(queries) /\ ListOf(out) /\ Len(out) = Len(queries)
      BY DEF Inv, Views, Lists, VKnnRow, Started
<1>2. UNCHANGED <<LiveRows, KnnPlan>>
      BY <1>1 DEF LiveRows, KnnPlan, Set, Plan, Ef
<1>3. /\ settings.k \in Nat \ {0} /\ settings.threads \in Nat \ {0} /\ held \in DOMAIN call.snaps
      BY <1>1 DEF Asked
<1>4. \A i \in DOMAIN out : IsBest(out[i], Valid(settings, NearAll(queries[i].vec, LiveRows)), settings.k)
      BY <1>1, <1>2 DEF KnnSoFar
<1>5. SUFFICES \A i \in DOMAIN out' : IsBest(out'[i], Valid(settings, NearAll(queries'[i].vec, LiveRows)), settings.k)
      BY <1>1, <1>2 DEF KnnSoFar
<1>6. CASE UNCHANGED <<queries, out>>
      BY <1>4, <1>6
<1>7. CASE \E q : KnnSearch(q)
  <2>1. PICK q : KnnSearch(q)
        BY <1>7
  <2>2. PICK turn \in Turns :
          out' = out \o IndexSearch(Describe(<<q>>), Set, KnnPlan, Set.dead, <<>>, turn, call.misses, pool).out
        BY <2>1 DEF KnnSearch, KnnPlan
  <2>3. q.vec \in Vecs /\ queries' = Append(queries, q)
        BY <2>1 DEF KnnSearch
  <2>4. PICK found :
          found = IndexSearch(Describe(<<q>>), Set, KnnPlan, Set.dead, <<>>, turn, call.misses, pool).out
        OBVIOUS
  <2>5. IsBest(found[1], Valid(settings, NearAll(q.vec, LiveRows)), settings.k)
        BY <1>1, <1>2, <1>3, <2>3, <2>4, KnnAnswer
  <2>6. ListOf(found) /\ Len(found) = 1
    <3>1. PICK s : s = Describe(<<q>>)
          OBVIOUS
    <3>2. DOMAIN <<q>> = 1 .. 1
          OBVIOUS
    <3>3. /\ DOMAIN s.queries = 1 .. 1
          /\ s = [queries |-> s.queries, k |-> s.k, radius |-> s.radius, threads |-> s.threads]
          BY <3>1, <3>2 DEF Describe
    <3>4. Answers(found, 1)
          BY <2>4, <3>1, <3>3, SearchAnswers
    <3> QED BY <3>4, AnswersAreLists
  <2>7. PICK n \in Nat : n = Len(out)
        BY <1>1, ListsAreAnswers
  <2>8. /\ DOMAIN out' = 1 .. n + 1 /\ out'[n + 1] = found[1] /\ DOMAIN out = 1 .. n
        /\ \A i \in 1 .. n : out'[i] = out[i]
        BY <1>1, <2>2, <2>4, <2>6, <2>7, ConcatAt
  <2>9. queries'[n + 1] = q /\ \A i \in 1 .. n : queries'[i] = queries[i]
        BY <1>1, <2>3, <2>7, ListsAppend
  <2>10. \A i \in 1 .. n + 1 : i \in 1 .. n \/ i = n + 1
         BY <2>7
  <2> QED BY <1>4, <2>5, <2>8, <2>9, <2>10
<1> QED BY <1>1, <1>6, <1>7, KnnRowIs

\* vknn opens with no answers.
LEMMA KnnOpenSoFar == Inv /\ Open => KnnSoFar'
<1> SUFFICES ASSUME Inv, Open PROVE KnnSoFar'
    OBVIOUS
<1>1. out' = <<>>
      BY DEF Inv, Lists, Open
<1>2. DOMAIN out' = {}
      BY <1>1, EmptyList
<1> QED BY <1>2 DEF KnnSoFar

\* The other steps leave the answers of vknn as they are.
LEMMA KnnOtherSoFar ==
    KnnSoFar /\ (UNCHANGED vars \/ Load \/ VSearchRow \/ VSearchReopen \/ VSearchSearch \/ VKnnEnd
                 \/ VScanOpen \/ VScanRow \/ VScanEnd \/ Cancel) => KnnSoFar'
<1> SUFFICES ASSUME KnnSoFar, Started',
                    UNCHANGED vars \/ Load \/ VSearchRow \/ VSearchReopen \/ VSearchSearch \/ VKnnEnd
                    \/ VScanOpen \/ VScanRow \/ VScanEnd \/ Cancel
             PROVE  KnnSoFar'
    BY DEF KnnSoFar
<1>1. CASE call.kind # "vknn"
  <2>1. UNCHANGED call
        BY DEF vars, Load, VSearchRow, VSearchReopen, VSearchSearch, VKnnEnd, VScanOpen, VScanRow, VScanEnd, Cancel
  <2> QED BY <1>1, <2>1 DEF KnnSoFar
<1>2. CASE call.kind = "vknn"
  <2>1. UNCHANGED <<call, held, settings, queries, out>> /\ Started
        BY <1>2 DEF vars, Load, VSearchRow, VSearchReopen, VSearchSearch, VKnnEnd, VScanOpen, VScanRow, VScanEnd,
                    Cancel, Started
  <2>2. UNCHANGED <<LiveRows, KnnPlan>>
        BY <2>1 DEF LiveRows, KnnPlan, Set, Plan, Ef
  <2> QED BY <2>1, <2>2 DEF KnnSoFar
<1> QED BY <1>1, <1>2

\* So every step keeps the answers of vknn the k best.
LEMMA KnnStep == Inv /\ Asked /\ KnnSoFar /\ [Next]_vars => KnnSoFar'
BY KnnOpenSoFar, KnnRowSoFar, KnnOtherSoFar DEF Next

------------------------------------------------------------------------------
(* vscan: the answers so far are the k best of all rows read but those of the block.                    *)

RowsOf(rows) == {[id |-> r.id, vec |-> r.vec] : r \in rows}
Counted == {r \in call.rows \ unread : r.id # None /\ r.vec # None}
\* The rows wait, and the answers are the k best of the others that were read.
Waiting(rows, read) ==
    /\ Listed(rows, {}) /\ Seen(rows, {}) \subseteq RowsOf(read)
    /\ \A i \in DOMAIN out :
          IsBest(out[i], Valid(settings, NearAll(queries[i].vec, RowsOf(read) \ Seen(rows, {}))), settings.k)
ScanSoFar ==
    call.kind = "vscan" =>
        /\ pc = "open" => block = <<>>
        /\ Started => (\A r \in Counted : r.vec # BadVec) /\ Waiting(block, Counted)
        /\ pc = "done" => unread = {} /\ block = <<>>

\* Rows of a table have different ids.
LEMMA TableRows ==
    ASSUME call \in Calls, call.kind = "vscan", NEW read \in SUBSET call.rows,
           \A r \in read : r.id # None /\ r.vec # None /\ r.vec # BadVec
    PROVE  DifferentIds(RowsOf(read)) /\ \A r, x \in read : r.id = x.id => r = x
<1>1. \A r \in read : r.id \in Int /\ r.vec \in Vecs
      BY CallRows
<1>2. \A r, x \in read : r.id = x.id => r = x
      BY CallRows
<1>3. RowsOf(read) \subseteq Row
      BY <1>1 DEF RowsOf, Row
<1>4. ASSUME NEW a \in RowsOf(read), NEW b \in RowsOf(read), a.id = b.id PROVE a = b
  <2>1. PICK r \in read : a = [id |-> r.id, vec |-> r.vec]
        BY DEF RowsOf
  <2>2. PICK x \in read : b = [id |-> x.id, vec |-> x.vec]
        BY DEF RowsOf
  <2>3. r.id = x.id
        BY <1>4, <2>1, <2>2
  <2> QED BY <1>2, <2>1, <2>2, <2>3
<1> QED BY <1>2, <1>3, <1>4 DEF DifferentIds

\* Neighbours of different rows differ.
LEMMA NearApart ==
    ASSUME NEW s, NEW q \in Vecs, NEW all, DifferentIds(all), NEW some \in SUBSET all
    PROVE  /\ Valid(s, NearAll(q, all \ some)) \cap Valid(s, NearAll(q, some)) = {}
           /\ Valid(s, NearAll(q, all \ some)) \cup Valid(s, NearAll(q, some)) = Valid(s, NearAll(q, all))
<1>1. ASSUME NEW x \in Valid(s, NearAll(q, all \ some)), x \in Valid(s, NearAll(q, some)) PROVE FALSE
  <2>1. PICK a \in all \ some : x = Near(q, a)
        BY DEF Valid, NearAll
  <2>2. PICK b \in some : x = Near(q, b)
        BY <1>1 DEF Valid, NearAll
  <2>3. a.id = b.id
        BY <2>1, <2>2 DEF Near
  <2> QED BY <2>1, <2>2, <2>3 DEF DifferentIds
<1>2. \A x : x \in NearAll(q, all) <=> x \in NearAll(q, all \ some) \/ x \in NearAll(q, some)
      BY DEF NearAll
<1>3. Valid(s, NearAll(q, all \ some)) \cup Valid(s, NearAll(q, some)) = Valid(s, NearAll(q, all))
      BY <1>2 DEF Valid
<1> QED BY <1>1, <1>3

\* One block of floats.
LEMMA OnePiece ==
    ASSUME NEW s, NEW turn, Asking(s, turn), NEW rows, Listed(rows, {}), NEW q \in Vecs,
           NEW piece, piece = Floats(rows, {})
    PROVE  /\ Searchable(s, <<piece>>, 1, turn) /\ Apart(<<piece>>, q, RowsIn(<<piece>>, 1))
           /\ Good(s, <<piece>>, q, RowsIn(<<piece>>, 1)) = Valid(s, NearAll(q, Seen(rows, {})))
<1>1. PICK blocks : blocks = <<piece>>
      OBVIOUS
<1>2. PICK m : m = 1
      OBVIOUS
<1>3. Plain(blocks, m) /\ Shown(blocks, m) = Seen(rows, {})
      BY <1>1, <1>2, OneBlock
<1>4. /\ Apart(blocks, q, RowsIn(blocks, m))
      /\ Good(s, blocks, q, RowsIn(blocks, m)) = Valid(s, NearAll(q, Shown(blocks, m)))
      BY <1>3, PlainApart
<1>5. DOMAIN blocks = 1 .. m /\ m \in Nat /\ \A b \in 1 .. m : blocks[b] = piece
      BY <1>1, <1>2
<1>6. Len(piece.rows) \in Nat
      BY LenProperties DEF Listed, Floats
<1>7. Searchable(s, blocks, m, turn)
      BY <1>5, <1>6 DEF Searchable, Asking
<1> QED BY <1>1, <1>2, <1>3, <1>4, <1>7

\* When the waiting rows are searched and merged, the answers are the k best of all rows read.
LEMMA FlushBest ==
    ASSUME ListOf(queries), DOMAIN out = DOMAIN queries, \A i \in DOMAIN queries : queries[i].vec \in Vecs,
           settings.k \in Nat \ {0}, settings.threads \in Nat \ {0}, NEW read, DifferentIds(RowsOf(read)),
           NEW rows, Waiting(rows, read), NEW turn \in Turns, NEW i \in DOMAIN out
    PROVE  IsBest(Flushed(rows, turn)[i], Valid(settings, NearAll(queries[i].vec, RowsOf(read))), settings.k)
<1>1. PICK q \in Vecs : q = queries[i].vec
      OBVIOUS
<1>2. PICK all : all = RowsOf(read)
      OBVIOUS
<1>3. PICK some : some = Seen(rows, {})
      OBVIOUS
<1>4. /\ DifferentIds(all) /\ some \in SUBSET all /\ Listed(rows, {})
      /\ IsBest(out[i], Valid(settings, NearAll(q, all \ some)), settings.k)
      BY <1>1, <1>2, <1>3 DEF Waiting
<1>5. CASE rows = <<>>
  <2>1. some = {}
        BY <1>3, <1>5, NoneSeen
  <2>2. all \ some = all
        BY <2>1
  <2>3. Flushed(rows, turn) = out
        BY <1>5 DEF Flushed
  <2> QED BY <1>1, <1>2, <1>4, <2>2, <2>3
<1>6. CASE rows # <<>>
  <2>1. PICK s : s = Describe(queries)
        OBVIOUS
  <2>2. /\ Asking(s, turn) /\ s.k = settings.k /\ DOMAIN s.queries = DOMAIN queries /\ s.queries[i] = q
        /\ \A X : Valid(s, X) = Valid(settings, X)
        BY <1>1, <2>1, DescribeIs
  <2>3. PICK piece : piece = Floats(rows, {})
        OBVIOUS
  <2>4. Flushed(rows, turn) = Merged(s, out, piece, turn)
        BY <1>6, <2>1, <2>3 DEF Flushed, Floats
  <2>5. /\ Searchable(s, <<piece>>, 1, turn) /\ Apart(<<piece>>, q, RowsIn(<<piece>>, 1))
        /\ Good(s, <<piece>>, q, RowsIn(<<piece>>, 1)) = Valid(s, NearAll(q, some))
        BY <1>3, <1>4, <2>2, <2>3, OnePiece
  <2>6. PICK C : C = Valid(settings, NearAll(q, all \ some))
        OBVIOUS
  <2>7. PICK D : D = Valid(s, NearAll(q, some))
        OBVIOUS
  <2>8. C \cap D = {} /\ C \cup D = Valid(settings, NearAll(q, all))
    <3>1. PICK t : t = settings
          OBVIOUS
    <3>2. C = Valid(t, NearAll(q, all \ some)) /\ D = Valid(t, NearAll(q, some))
          BY <2>2, <2>6, <2>7, <3>1
    <3>3. /\ Valid(t, NearAll(q, all \ some)) \cap Valid(t, NearAll(q, some)) = {}
          /\ Valid(t, NearAll(q, all \ some)) \cup Valid(t, NearAll(q, some)) = Valid(t, NearAll(q, all))
          BY <1>4, NearApart
    <3> QED BY <3>1, <3>2, <3>3
  <2>9. C \in SUBSET Keyed
    <3>1. all \ some \in SUBSET Row
          BY <1>4 DEF DifferentIds
    <3> QED BY <2>6, <3>1, ValidIs
  <2>10. IsBest(out[i], C, s.k)
         BY <1>4, <2>2, <2>6
  <2>11. i \in DOMAIN out /\ i \in DOMAIN s.queries
         BY <2>2
  <2>12. PICK G : G = Good(s, <<piece>>, s.queries[i], RowsIn(<<piece>>, 1))
         OBVIOUS
  <2>13. G = D /\ Apart(<<piece>>, s.queries[i], RowsIn(<<piece>>, 1))
         BY <2>2, <2>5, <2>7, <2>12
  <2>14. C \cap Good(s, <<piece>>, s.queries[i], RowsIn(<<piece>>, 1)) = {}
         BY <2>8, <2>12, <2>13
  <2>15. IsBest(Merged(s, out, piece, turn)[i], C \cup Good(s, <<piece>>, s.queries[i], RowsIn(<<piece>>, 1)), s.k)
         BY <2>5, <2>9, <2>10, <2>11, <2>13, <2>14, MergedBest
  <2> QED BY <1>1, <1>2, <2>2, <2>4, <2>8, <2>12, <2>13, <2>15
<1> QED BY <1>5, <1>6

\* One more row on a list.
LEMMA AppendListed ==
    ASSUME NEW b, Listed(b, {}), NEW row \in Row, \A x \in Seen(b, {}) : x.id # row.id,
           NEW more, more = Append(b, row)
    PROVE  Listed(more, {}) /\ Seen(more, {}) = Seen(b, {}) \cup {row}
<1>1. PICK n \in Nat : n = Len(b) /\ b \in Seq(Row)
      BY LenProperties DEF Listed
<1>2. /\ more \in Seq(Row) /\ Len(more) = n + 1 /\ more[n + 1] = row
      /\ \A i \in 1 .. n : more[i] = b[i]
      BY <1>1
<1>3. \A i \in 1 .. n : b[i] \in Seen(b, {})
      BY <1>1 DEF Seen
<1>4. \A i, j \in 1 .. n : b[i].id = b[j].id => i = j
      BY <1>1 DEF Listed
<1>5. \A i \in 1 .. n + 1 : i \in 1 .. n \/ i = n + 1
      BY <1>1
<1>6. \A i, j \in 1 .. n + 1 : more[i].id = more[j].id => i = j
      BY <1>2, <1>3, <1>4, <1>5
<1>7. Listed(more, {})
      BY <1>1, <1>2, <1>6 DEF Listed
<1>8. \A x \in Seen(more, {}) : x \in Seen(b, {}) \cup {row}
      BY <1>2, <1>3, <1>5 DEF Seen
<1>9. \A x \in Seen(b, {}) : x \in Seen(more, {})
  <2>1. \A i \in 1 .. n : i \in 1 .. n + 1
        BY <1>1
  <2> QED BY <1>1, <1>2, <2>1 DEF Seen
<1>10. row \in Seen(more, {})
  <2>1. n + 1 \in 1 .. n + 1
        BY <1>1
  <2> QED BY <1>1, <1>2, <2>1 DEF Seen
<1> QED BY <1>7, <1>8, <1>9, <1>10

\* vscan opens before it reads a row.
LEMMA ScanOpenSoFar == Inv /\ ScanSoFar /\ VScanOpen => ScanSoFar'
<1> SUFFICES ASSUME Inv, ScanSoFar, VScanOpen PROVE ScanSoFar'
    OBVIOUS
<1>1. /\ call \in Calls /\ UNCHANGED <<call, block, unread>> /\ pc = "open" /\ call.kind = "vscan" /\ unread = call.rows
      /\ block = <<>> /\ pc' \in {"failed", "read"} /\ queries = <<>> /\ out = <<>>
      BY DEF Inv, Views, Lists, VScanOpen, ScanSoFar, Fail
<1>2. CASE ~Started'
      BY <1>1, <1>2 DEF ScanSoFar, Started
<1>3. CASE Started'
  <2>1. Counted' = {}
        BY <1>1 DEF Counted
  <2>2. /\ settings'.k \in 1 .. MaxK /\ DOMAIN out' = DOMAIN call.given
        /\ \A i \in DOMAIN out' : out'[i] = <<>>
        BY <1>3 DEF VScanOpen, Fail, Started, NoneYet
  <2>3. RowsOf({}) = {}
        BY DEF RowsOf
  <2>4. Listed(<<>>, {}) /\ Seen(<<>>, {}) = {}
        BY NoneSeen
  <2>5. \A i \in DOMAIN out' : IsBest(<<>>, Valid(settings', NearAll(queries'[i].vec, {})), settings'.k)
    <3>1. ASSUME NEW s, NEW q PROVE Valid(s, NearAll(q, {})) = {}
          BY DEF Valid, NearAll
    <3>2. ASSUME NEW k \in Nat PROVE IsBest(<<>>, {}, k)
      <4>1. <<>> \in Seq({}) /\ Len(<<>>) = 0
            OBVIOUS
      <4>2. 1 .. 0 = {}
            OBVIOUS
      <4>3. Ascends(<<>>)
            BY <4>1, <4>2 DEF Ascends
      <4> QED BY <4>1, <4>3 DEF IsBest
    <3>3. settings'.k \in Nat
          BY <2>2, SearchConstants
    <3> QED BY <3>1, <3>2, <3>3
  <2>6. {} \ {} = {}
        OBVIOUS
  <2>7. Waiting(block, Counted)'
        BY <1>1, <2>1, <2>2, <2>3, <2>4, <2>5, <2>6 DEF Waiting
  <2> QED BY <1>1, <2>1, <2>7 DEF ScanSoFar
<1> QED BY <1>2, <1>3

\* The rows that wait are flushed: none waits, and the answers are the k best of all that were read.
LEMMA FlushedWaits ==
    ASSUME Inv, Asked, Started, call.kind = "vscan", NEW read \in SUBSET call.rows,
           \A r \in read : r.id # None /\ r.vec # None /\ r.vec # BadVec,
           NEW rows, Waiting(rows, read), NEW turn \in Turns, out' = Flushed(rows, turn),
           UNCHANGED <<queries, settings>>
    PROVE  Waiting(<<>>, read)'
<1>1. /\ call \in Calls /\ ListOf(queries) /\ ListOf(out) /\ Len(out) = Len(queries)
      BY DEF Inv, Views, Lists
<1>2. DOMAIN out = DOMAIN queries
      BY <1>1, ListsAreAnswers
<1>3. /\ \A i \in DOMAIN queries : queries[i].vec \in Vecs
      /\ settings.k \in Nat \ {0} /\ settings.threads \in Nat \ {0}
      BY DEF Asked
<1>4. DifferentIds(RowsOf(read))
      BY <1>1, TableRows
<1>5. DOMAIN out' = DOMAIN out
  <2>1. ListOf(out') /\ Len(out') = Len(out)
        BY <1>1, FlushedAnswers
  <2> QED BY <1>1, <2>1, ListsAreAnswers
<1>6. \A i \in DOMAIN out : IsBest(out'[i], Valid(settings, NearAll(queries[i].vec, RowsOf(read))), settings.k)
      BY <1>1, <1>2, <1>3, <1>4, FlushBest
<1>7. RowsOf(read) \ {} = RowsOf(read)
      OBVIOUS
<1>8. Listed(<<>>, {}) /\ Seen(<<>>, {}) = {}
      BY NoneSeen
<1> QED BY <1>5, <1>6, <1>7, <1>8 DEF Waiting

\* A row that counts joins those that wait.
LEMMA RowWaits ==
    ASSUME call \in Calls, call.kind = "vscan", NEW read \in SUBSET call.rows, NEW r \in call.rows, r \notin read,
           \A x \in read \cup {r} : x.id # None /\ x.vec # None /\ x.vec # BadVec,
           NEW rows, Waiting(rows, read), NEW more, more = Append(rows, [id |-> r.id, vec |-> r.vec])
    PROVE  Waiting(more, read \cup {r})
<1>1. /\ DifferentIds(RowsOf(read \cup {r}))
      /\ \A x, y \in read \cup {r} : x.id = y.id => x = y
      BY TableRows
<1>2. PICK row : row = [id |-> r.id, vec |-> r.vec]
      OBVIOUS
<1>3. RowsOf(read \cup {r}) = RowsOf(read) \cup {row}
      BY <1>2 DEF RowsOf
<1>4. row \in Row
      BY <1>1, <1>3 DEF DifferentIds
<1>5. \A x \in RowsOf(read) : x.id # row.id
      BY <1>1, <1>2 DEF RowsOf
<1>6. Listed(rows, {}) /\ Seen(rows, {}) \subseteq RowsOf(read)
      BY DEF Waiting
<1>7. Listed(more, {}) /\ Seen(more, {}) = Seen(rows, {}) \cup {row}
      BY <1>2, <1>4, <1>5, <1>6, AppendListed
<1>8. (RowsOf(read) \cup {row}) \ (Seen(rows, {}) \cup {row}) = RowsOf(read) \ Seen(rows, {})
      BY <1>5
<1> QED BY <1>3, <1>6, <1>7, <1>8 DEF Waiting

\* A row of a table joins the block; a full block is flushed.
LEMMA ScanRowSoFar == Inv /\ Asked /\ ScanSoFar /\ VScanRow => ScanSoFar'
<1> SUFFICES ASSUME Inv, Asked, ScanSoFar, VScanRow PROVE ScanSoFar'
    OBVIOUS
<1>1. /\ call \in Calls /\ UNCHANGED <<call, queries, settings>> /\ pc = "read" /\ call.kind = "vscan" /\ Started
      /\ unread \subseteq call.rows /\ pc' \in {"read", "failed"}
      BY DEF Inv, Views, VScanRow, Started, Fail
<1>2. CASE pc' = "failed"
      BY <1>1, <1>2 DEF ScanSoFar, Started
<1>3. CASE pc' = "read"
  <2>1. PICK r, rows, full :
          /\ r \in unread /\ unread' = unread \ {r}
          /\ rows = IF None \in {r.id, r.vec} THEN block ELSE Append(block, [id |-> r.id, vec |-> r.vec])
          /\ ~(r.id # None /\ r.vec = BadVec)
          /\ block' = IF full THEN <<>> ELSE rows
          /\ \E turn \in Turns : out' = IF full THEN Flushed(rows, turn) ELSE out
        BY <1>3 DEF VScanRow, Fail
  <2>2. (\A x \in Counted : x.vec # BadVec) /\ Waiting(block, Counted)
        BY <1>1 DEF ScanSoFar
  <2>3. Counted \in SUBSET call.rows /\ \A x \in Counted : x.id # None /\ x.vec # None
        BY DEF Counted
  <2>4. /\ Waiting(rows, Counted') /\ Counted' \in SUBSET call.rows
        /\ \A x \in Counted' : x.id # None /\ x.vec # None /\ x.vec # BadVec
    <3>1. CASE None \in {r.id, r.vec}
      <4>1. Counted' = Counted
            BY <1>1, <2>1, <3>1 DEF Counted
      <4> QED BY <2>1, <2>2, <2>3, <3>1, <4>1
    <3>2. CASE None \notin {r.id, r.vec}
      <4>1. Counted' = Counted \cup {r}
            BY <1>1, <2>1, <3>2 DEF Counted
      <4>2. r \in call.rows /\ r \notin Counted
            BY <1>1, <2>1 DEF Counted
      <4>3. \A x \in Counted \cup {r} : x.id # None /\ x.vec # None /\ x.vec # BadVec
            BY <2>1, <2>2, <2>3, <3>2
      <4>4. rows = Append(block, [id |-> r.id, vec |-> r.vec])
            BY <2>1, <3>2
      <4>5. Waiting(rows, Counted \cup {r})
            BY <1>1, <2>2, <2>3, <4>2, <4>3, <4>4, RowWaits
      <4> QED BY <2>3, <4>1, <4>2, <4>3, <4>5
    <3> QED BY <3>1, <3>2
  <2>5. CASE full
    <3>1. PICK turn \in Turns : out' = Flushed(rows, turn)
          BY <2>1, <2>5
    <3>2. PICK read : read = Counted'
          OBVIOUS
    <3>3. Waiting(<<>>, read)'
          BY <1>1, <2>4, <3>1, <3>2, FlushedWaits
    <3>4. block' = <<>>
          BY <2>1, <2>5
    <3>5. Waiting(block, Counted)'
          BY <3>2, <3>3, <3>4
    <3> QED BY <1>1, <1>3, <2>4, <3>5 DEF ScanSoFar
  <2>6. CASE ~full
    <3>1. UNCHANGED out /\ block' = rows
          BY <2>1, <2>6
    <3>2. Waiting(block, Counted)'
          BY <1>1, <2>4, <3>1 DEF Waiting
    <3> QED BY <1>1, <1>3, <2>4, <3>2 DEF ScanSoFar
  <2> QED BY <2>5, <2>6
<1> QED BY <1>1, <1>2, <1>3

\* The last block is flushed.
LEMMA ScanEndSoFar == Inv /\ Asked /\ ScanSoFar /\ VScanEnd => ScanSoFar'
<1> SUFFICES ASSUME Inv, Asked, ScanSoFar, VScanEnd PROVE ScanSoFar'
    OBVIOUS
<1>1. /\ call \in Calls /\ UNCHANGED <<call, queries, settings, unread>> /\ call.kind = "vscan" /\ Started
      /\ unread = {} /\ block' = <<>> /\ pc' = "done"
      BY DEF Inv, Views, VScanEnd, Started
<1>2. PICK turn \in Turns : out' = Flushed(block, turn)
      BY DEF VScanEnd
<1>3. PICK read : read = Counted
      OBVIOUS
<1>4. /\ Waiting(block, read) /\ read \in SUBSET call.rows
      /\ \A x \in read : x.id # None /\ x.vec # None /\ x.vec # BadVec
      BY <1>1, <1>3 DEF ScanSoFar, Counted
<1>5. PICK rows : rows = block
      OBVIOUS
<1>6. Waiting(rows, read) /\ out' = Flushed(rows, turn)
      BY <1>2, <1>4, <1>5
<1>7. Waiting(<<>>, read)'
      BY <1>1, <1>4, <1>6, FlushedWaits
<1>8. Counted' = read
      BY <1>1, <1>3 DEF Counted
<1>9. Waiting(block, Counted)'
      BY <1>1, <1>7, <1>8
<1> QED BY <1>1, <1>4, <1>8, <1>9 DEF ScanSoFar

\* The other steps leave a scan as it is.
LEMMA ScanOtherSoFar ==
    ScanSoFar /\ (UNCHANGED vars \/ Open \/ Load \/ VSearchRow \/ VSearchReopen \/ VSearchSearch \/ VKnnRow
                  \/ VKnnEnd \/ Cancel) => ScanSoFar'
<1> SUFFICES ASSUME ScanSoFar, UNCHANGED vars \/ Open \/ Load \/ VSearchRow \/ VSearchReopen \/ VSearchSearch
                               \/ VKnnRow \/ VKnnEnd \/ Cancel
             PROVE  ScanSoFar'
    OBVIOUS
<1>1. UNCHANGED call
      BY DEF vars, Open, Load, VSearchRow, VSearchReopen, VSearchSearch, VKnnRow, VKnnEnd, Cancel
<1>2. CASE call.kind # "vscan"
      BY <1>1, <1>2 DEF ScanSoFar
<1>3. CASE call.kind = "vscan"
  <2>1. /\ UNCHANGED <<block, unread, queries, settings, out>> /\ (Started' => Started) /\ (pc' = "open" => pc = "open")
        /\ (pc' = "done" => pc = "done")
        BY <1>3 DEF vars, Open, Load, VSearchRow, VSearchReopen, VSearchSearch, VKnnRow, VKnnEnd, Cancel, Started
  <2>2. Counted' = Counted
        BY <1>1, <2>1 DEF Counted
  <2>3. Waiting(block, Counted) => Waiting(block, Counted)'
        BY <2>1, <2>2 DEF Waiting
  <2> QED BY <1>1, <2>1, <2>2, <2>3 DEF ScanSoFar
<1> QED BY <1>2, <1>3

\* So every step keeps the answers of vscan the k best of what is searched.
LEMMA ScanStep == Inv /\ Asked /\ ScanSoFar /\ [Next]_vars => ScanSoFar'
BY ScanOpenSoFar, ScanRowSoFar, ScanEndSoFar, ScanOtherSoFar DEF Next

------------------------------------------------------------------------------
(* vsearch: the allow-list and the journal are those of the rows read.      *)

ReadSoFar ==
    call.kind = "vsearch" /\ pc # "failed" =>
        /\ allow = {r.id : r \in {x \in call.rows \ unread : IsAllowed(x)}}
        /\ BadVec \notin ToSet(journal.slots)

\* A row read may be on the allow-list, and no journal row's vector is wrong.
LEMMA RowSoFar == Inv /\ ReadSoFar /\ VSearchRow => ReadSoFar'
<1> SUFFICES ASSUME Inv, ReadSoFar, VSearchRow, pc' # "failed" PROVE ReadSoFar'
    BY DEF ReadSoFar
<1>1. /\ UNCHANGED <<call, settings>> /\ pc = "read" /\ call.kind = "vsearch" /\ unread \subseteq call.rows
      BY DEF Inv, Views, VSearchRow
<1>2. PICK r \in unread :
        /\ unread' = unread \ {r} /\ ~RowError(r)
        /\ allow' = IF IsAllowed(r) THEN allow \cup {r.id} ELSE allow
        /\ journal' = IF IsJournal(r) /\ settings.apply THEN Offered(journal, r) ELSE journal
      BY <1>1 DEF VSearchRow, Fail
<1>3. PICK seen : seen = {x \in call.rows \ unread : IsAllowed(x)}
      OBVIOUS
<1>4. allow = {x.id : x \in seen} /\ BadVec \notin ToSet(journal.slots)
      BY <1>1, <1>3 DEF ReadSoFar
<1>5. {x \in call.rows \ unread' : IsAllowed(x)} = IF IsAllowed(r) THEN seen \cup {r} ELSE seen
      BY <1>1, <1>2, <1>3
<1>6. {x \in call'.rows \ unread' : IsAllowed(x)} = IF IsAllowed(r) THEN seen \cup {r} ELSE seen
      BY <1>1, <1>5
<1>7. allow' = {x.id : x \in IF IsAllowed(r) THEN seen \cup {r} ELSE seen}
      BY <1>2, <1>4
<1>8. BadVec \notin ToSet(journal'.slots)
      BY <1>2, <1>4 DEF RowError
<1> QED BY <1>6, <1>7, <1>8 DEF ReadSoFar

\* The other steps leave the rows read as they are.
LEMMA OtherSoFar ==
    ReadSoFar /\ (UNCHANGED vars \/ Open \/ Load \/ VSearchReopen \/ VSearchSearch \/ VKnnRow
                  \/ VKnnEnd \/ VScanOpen \/ VScanRow \/ VScanEnd \/ Cancel) => ReadSoFar'
<1> SUFFICES ASSUME ReadSoFar, UNCHANGED vars \/ Open \/ Load \/ VSearchReopen \/ VSearchSearch \/ VKnnRow
                               \/ VKnnEnd \/ VScanOpen \/ VScanRow \/ VScanEnd \/ Cancel
             PROVE  ReadSoFar'
    OBVIOUS
<1>1. UNCHANGED call
      BY DEF vars, Open, Load, VSearchReopen, VSearchSearch, VKnnRow, VKnnEnd, VScanOpen, VScanRow, VScanEnd, Cancel
<1>2. CASE call.kind # "vsearch"
      BY <1>1, <1>2 DEF ReadSoFar
<1>3. CASE call.kind = "vsearch"
  <2>1. UNCHANGED <<unread, allow, journal>> /\ (pc' # "failed" => pc # "failed")
        BY <1>3 DEF vars, Open, Load, VSearchReopen, VSearchSearch, VKnnRow, VKnnEnd, VScanOpen, VScanRow, VScanEnd,
                    Cancel, Fail
  <2> QED BY <1>1, <2>1 DEF ReadSoFar
<1> QED BY <1>2, <1>3

\* So every step keeps the allow-list and the journal's vectors.
LEMMA ReadStep == Inv /\ ReadSoFar /\ [Next]_vars => ReadSoFar'
BY RowSoFar, OtherSoFar DEF Next

------------------------------------------------------------------------------
(* vsearch: what is searched when all rows are read.                        *)

\* All rows of a vsearch are read.
AllRead ==
    /\ Inv /\ Asked /\ ReadSoFar
    /\ call.kind = "vsearch" /\ pc = "search"

Restricted == allow # {} \/ call.filtered
Hidden == Set.dead \cup PositionsOf(Set, DOMAIN journal.entry)
ThePlan == Plan(settings, Set, Restricted, PositionsOf(Set, allow))
Added == LiveAdds(journal, Restricted, allow)

\* What a vsearch knows then.
LEMMA ReadFacts ==
    ASSUME AllRead
    PROVE  /\ call \in Calls /\ unread = {} /\ held \in DOMAIN call.snaps /\ ListOf(queries)
           /\ allow = {r.id : r \in {x \in call.rows : IsAllowed(x)}}
           /\ Keeps(journal, JournalRows, Vectors) /\ BadVec \notin ToSet(journal.slots)
           /\ settings.k \in Nat \ {0} /\ settings.threads \in Nat \ {0}
           /\ \A i \in DOMAIN queries : queries[i].vec \in Vecs
<1>1. call \in Calls /\ unread = {} /\ ListOf(queries)
      BY DEF AllRead, Inv, Views, Lists
<1>2. /\ Started /\ held \in DOMAIN call.snaps /\ settings.k \in Nat \ {0} /\ settings.threads \in Nat \ {0}
      /\ \A i \in DOMAIN queries : queries[i].vec \in Vecs
      BY DEF AllRead, Asked, Started
<1>3. {x \in call.rows \ unread : IsAllowed(x)} = {x \in call.rows : IsAllowed(x)}
      BY <1>1
<1>4. allow = {r.id : r \in {x \in call.rows : IsAllowed(x)}} /\ BadVec \notin ToSet(journal.slots)
      BY <1>3 DEF AllRead, ReadSoFar
<1>5. JournalRows \ unread = JournalRows
      BY <1>1
<1>6. Keeps(journal, JournalRows, Vectors)
      BY <1>5 DEF AllRead, Inv, Journaled
<1> QED BY <1>1, <1>2, <1>4, <1>6

\* The allow-list is that of all rows.
LEMMA RestrictedIs ==
    ASSUME AllRead
    PROVE  /\ Restricted <=> Filtered
           /\ \A id : AllowedId(id) <=> (Restricted => id \in allow)
<1>1. allow = {r.id : r \in {x \in call.rows : IsAllowed(x)}} /\ call.kind = "vsearch"
      BY ReadFacts DEF AllRead
<1>2. \A id : id \in allow <=> \E r \in call.rows : IsAllowed(r) /\ r.id = id
      BY <1>1
<1>3. allow # {} <=> \E r \in call.rows : IsAllowed(r)
      BY <1>1
<1>4. Restricted <=> Filtered
      BY <1>1, <1>3 DEF Restricted, Filtered
<1> QED BY <1>2, <1>4 DEF AllowedId

\* The positions not hidden are those that must be searched.
LEMMA SearchedIs ==
    ASSUME AllRead
    PROVE  /\ Searched \in SUBSET DOMAIN Set.rows /\ Searched \cap Set.dead = {}
           /\ Searched = (IF Restricted THEN PositionsOf(Set, allow) ELSE DOMAIN Set.rows) \ Hidden
           /\ \A p \in Searched : Set.rows[p].id \notin DOMAIN journal.entry
<1>1. DOMAIN journal.entry = {r.id : r \in JournalRows}
      BY ReadFacts DEF Keeps
<1>2. Searched = {p \in DOMAIN Set.rows \ Set.dead :
                     AllowedId(Set.rows[p].id) /\ \A r \in JournalRows : r.id # Set.rows[p].id}
  <2>1. call.kind = "vsearch" /\ call.kind # "vscan" /\ call.kind # "vknn"
        BY DEF AllRead
  <2> QED BY <2>1, Zenon DEF Searched
<1>3. \A p : p \in Searched <=> /\ p \in DOMAIN Set.rows /\ p \notin Set.dead /\ AllowedId(Set.rows[p].id)
                                /\ Set.rows[p].id \notin DOMAIN journal.entry
      BY <1>1, <1>2
<1>4. \A p : p \in Hidden <=> p \in Set.dead \/ (p \in DOMAIN Set.rows /\ Set.rows[p].id \in DOMAIN journal.entry)
      BY DEF Hidden, PositionsOf
<1>5. \A p \in DOMAIN Set.rows :
        p \in (IF Restricted THEN PositionsOf(Set, allow) ELSE DOMAIN Set.rows) <=> AllowedId(Set.rows[p].id)
      BY RestrictedIs DEF PositionsOf
<1>6. \A p : p \in (IF Restricted THEN PositionsOf(Set, allow) ELSE DOMAIN Set.rows) => p \in DOMAIN Set.rows
      BY DEF PositionsOf
<1> QED BY <1>3, <1>4, <1>5, <1>6

\* The plan is the one the call's rows give.
LEMMA PlanIs ==
    ASSUME AllRead
    PROVE  ThePlan = CallPlan /\ ThePlan.filtered = Restricted
           /\ (Restricted => ThePlan.allow = PositionsOf(Set, allow))
<1>1. PICK f : f = Restricted
      OBVIOUS
<1>2. Filtered = Restricted
      BY RestrictedIs DEF Filtered, Restricted
<1>3. PICK all : all = {p \in DOMAIN Set.rows : AllowedId(Set.rows[p].id)}
      OBVIOUS
<1>4. CallPlan = Plan(settings, Set, Filtered, all)
      BY <1>3 DEF CallPlan, AllRead
<1>5. Restricted => all = PositionsOf(Set, allow)
      BY <1>3, RestrictedIs DEF PositionsOf
<1>6. PICK some : some = PositionsOf(Set, allow)
      OBVIOUS
<1>7. ThePlan = Plan(settings, Set, f, some) /\ CallPlan = Plan(settings, Set, f, all)
      BY <1>1, <1>2, <1>4, <1>6 DEF ThePlan
<1>8. f => all = some
      BY <1>1, <1>5, <1>6
<1>9. Plan(settings, Set, f, some) = Plan(settings, Set, f, all)
  <2>1. (IF f THEN some ELSE {}) = (IF f THEN all ELSE {})
        BY <1>8
  <2> QED BY <2>1 DEF Plan
<1>10. ThePlan.filtered = Restricted
      BY <1>1, <1>7 DEF Plan
<1>11. Restricted => ThePlan.allow = PositionsOf(Set, allow)
      BY <1>1, <1>6, <1>7 DEF Plan
<1> QED BY <1>7, <1>9, <1>10, <1>11

\* A search that is not approximate scores every row.
LEMMA ScoresAll ==
    ASSUME AllRead, ~Approximate
    PROVE  FewAllowed(Describe(queries), Set, ThePlan, Hidden) \/ (~ThePlan.graph /\ ~ThePlan.codes)
<1>1. CASE ~CallPlan.graph /\ ~CallPlan.codes
      BY <1>1, PlanIs
<1>2. CASE CallPlan.graph \/ CallPlan.codes
  <2>1. PICK plan, skip : plan = CallPlan /\ skip = DOMAIN Set.rows \ Searched
        OBVIOUS
  <2>2. plan.filtered /\ FewAllowed(Describe(queries), Set, plan, skip)
        BY <1>2, <2>1 DEF Approximate
  <2>3. plan = ThePlan /\ Restricted /\ plan.allow = PositionsOf(Set, allow)
        BY <2>1, <2>2, PlanIs
  <2>4. PositionsOf(Set, allow) \in SUBSET DOMAIN Set.rows
        BY DEF PositionsOf
  <2>5. Searched = PositionsOf(Set, allow) \ Hidden
        BY <2>3, SearchedIs
  <2>6. plan.allow \ skip = plan.allow \ Hidden
        BY <2>1, <2>3, <2>4, <2>5
  <2>7. FewAllowed(Describe(queries), Set, plan, Hidden)
        BY <2>2, <2>6 DEF FewAllowed
  <2> QED BY <2>3, <2>7
<1> QED BY <1>1, <1>2

------------------------------------------------------------------------------
(* vsearch: the journal's rows beside the snapshot.                         *)

\* Of the journal's rows, those that the live ids speak for.
LEMMA JournalRowsAre ==
    ASSUME AllRead
    PROVE  /\ JournalRows \in SUBSET call.rows /\ IsFiniteSet(JournalRows)
           /\ \A r \in JournalRows : r.id \in Int /\ (r.del # TRUE => r.vec # None)
           /\ \A r, x \in JournalRows :
                 r.id = x.id /\ r.del # TRUE /\ x.del # TRUE /\ Version(r) = Version(x) => r.vec = x.vec
<1>1. call \in Calls /\ call.kind = "vsearch" /\ IsFiniteSet(call.rows)
      BY ReadFacts, CallRows DEF AllRead
<1>2. JournalRows \in SUBSET call.rows /\ \A r \in JournalRows : IsJournal(r)
      BY DEF JournalRows
<1>3. IsFiniteSet(JournalRows)
      BY <1>1, <1>2, FS_Subset
<1>4. \A r \in JournalRows : r.id # None /\ (r.del # TRUE => r.vec # None)
      BY <1>2 DEF IsJournal
<1>5. \A r \in JournalRows : r.id \in Int
      BY <1>1, <1>2, <1>4, CallRows
<1>6. ASSUME NEW r \in JournalRows, NEW x \in JournalRows,
             r.id = x.id, r.del # TRUE, x.del # TRUE, Version(r) = Version(x)
      PROVE  r.vec = x.vec
  <2>1. r.ver \in Nat \cup {None} /\ x.ver \in Nat \cup {None}
        BY <1>1, <1>2, CallShapes
  <2>2. r.ver = x.ver
        BY <1>6, <2>1 DEF Version
  <2>3. None \notin {r.id, r.vec, x.vec}
        BY <1>4, <1>6
  <2>4. r \in call.rows /\ x \in call.rows
        BY <1>2
  <2>5. r.id = x.id /\ None \notin {r.id, r.vec, x.vec} => (call.kind = "vsearch" /\ r.ver = x.ver => r.vec = x.vec)
        BY <1>1, <2>4, CallRows
  <2> QED BY <1>1, <1>6, <2>2, <2>3, <2>5
<1> QED BY <1>2, <1>3, <1>4, <1>5, <1>6

\* The vector of a live id is that of a newest row.
LEMMA LiveEntry ==
    ASSUME AllRead, NEW id \in DOMAIN journal.entry, ~journal.entry[id].del
    PROVE  \E r \in JournalRows :
              /\ r.id = id /\ IsNewest(JournalRows, r) /\ r.del # TRUE /\ r.vec \in Vecs
              /\ journal.slots[journal.entry[id].slot] = r.vec
<1>1. /\ Keeps(journal, JournalRows, Vectors) /\ BadVec \notin ToSet(journal.slots) /\ call \in Calls
      BY ReadFacts
<1>2. PICK r \in JournalRows :
        /\ r.id = id /\ IsNewest(JournalRows, r) /\ journal.entry[id].ver = Version(r)
        /\ journal.entry[id].del <=> r.del = TRUE
        /\ r.del # TRUE => journal.slots[journal.entry[id].slot] = r.vec
  <2>1. Speaks(journal, JournalRows, id)
        BY <1>1 DEF Keeps
  <2> QED BY <2>1, Zenon DEF Speaks
<1>3. r.del # TRUE /\ journal.slots[journal.entry[id].slot] = r.vec
      BY <1>2
<1>4. journal.entry[id].slot \in DOMAIN journal.slots
  <2>1. journal.slots \in Seq(Vectors) /\ journal.entry[id].slot \in 1 .. Len(journal.slots)
        BY <1>1 DEF Keeps, Slotted
  <2> QED BY <2>1, LenProperties
<1>5. r.vec # BadVec
      BY <1>1, <1>3, <1>4 DEF ToSet
<1>6. r.vec # None /\ r \in call.rows
      BY <1>3, JournalRowsAre
<1>7. r.vec \in Vecs
  <2>1. {r.vec, r.qvec} \subseteq Vecs \cup {BadVec, None}
        BY <1>1, <1>6, CallRows
  <2> QED BY <1>5, <1>6, <2>1
<1> QED BY <1>2, <1>3, <1>7

\* And no other newest row of the id has another.
LEMMA NewestAgree ==
    ASSUME AllRead, NEW r \in JournalRows, NEW x \in JournalRows, r.id = x.id,
           IsNewest(JournalRows, r), IsNewest(JournalRows, x)
    PROVE  (r.del = TRUE <=> x.del = TRUE) /\ (r.del # TRUE => r.vec = x.vec)
<1>1. /\ Version(x) < Version(r) \/ (Version(x) = Version(r) /\ (r.del = TRUE \/ x.del # TRUE))
      /\ Version(r) < Version(x) \/ (Version(r) = Version(x) /\ (x.del = TRUE \/ r.del # TRUE))
      BY DEF IsNewest
<1>2. Version(r) \in Int /\ Version(x) \in Int
      BY VersionsCompare, ReadFacts, JournalRowsAre
<1>3. /\ Version(r) = Version(x)
      /\ r.del = TRUE \/ x.del # TRUE
      /\ x.del = TRUE \/ r.del # TRUE
  <2>1. PICK a \in Int : a = Version(r)
        BY <1>2
  <2>2. PICK b \in Int : b = Version(x)
        BY <1>2
  <2>3. b < a \/ b = a
        BY <1>1, <2>1, <2>2, Zenon
  <2>4. a < b \/ a = b
        BY <1>1, <2>1, <2>2, Zenon
  <2>5. a = b /\ ~(a < b) /\ ~(b < a)
        BY <2>3, <2>4
  <2> QED BY <1>1, <2>1, <2>2, <2>5, Zenon
<1> QED BY <1>3, JournalRowsAre

\* The ids whose rows are searched beside the snapshot.
Lively == {id \in DOMAIN journal.entry : ~journal.entry[id].del}
Wanted == IF Restricted THEN Lively \cap allow ELSE Lively
VectorOf(id) == journal.slots[journal.entry[id].slot]
NewestOf(id) == CHOOSE r \in JournalRows : r.id = id /\ IsNewest(JournalRows, r)

\* Finitely many numbers.
LEMMA WantedAre ==
    ASSUME AllRead
    PROVE  /\ Wanted \in SUBSET Int /\ IsFiniteSet(Wanted) /\ Wanted \subseteq Lively
           /\ \A id \in Lively : id \in Wanted <=> AllowedId(id)
<1>1. DOMAIN journal.entry = {r.id : r \in JournalRows}
      BY ReadFacts DEF Keeps
<1>2. PICK f : f = [r \in JournalRows |-> r.id]
      OBVIOUS
<1>3. IsFiniteSet({f[r] : r \in JournalRows})
      BY ImagesFinite, JournalRowsAre
<1>4. {f[r] : r \in JournalRows} = DOMAIN journal.entry
      BY <1>1, <1>2
<1>5. \A id \in DOMAIN journal.entry : id \in Int
      BY <1>1, JournalRowsAre
<1>6. Wanted \in SUBSET DOMAIN journal.entry /\ Wanted \subseteq Lively
      BY DEF Wanted, Lively
<1>7. IsFiniteSet(Wanted)
      BY <1>3, <1>4, <1>6, FS_Subset
<1>8. \A id \in Lively : id \in Wanted <=> AllowedId(id)
      BY RestrictedIs DEF Wanted
<1> QED BY <1>5, <1>6, <1>7, <1>8

\* A newest row that adds speaks for a live id.
LEMMA NewestOfIs ==
    ASSUME AllRead, NEW id \in DOMAIN journal.entry
    PROVE  /\ NewestOf(id) \in JournalRows /\ NewestOf(id).id = id
           /\ NewestOf(id).del # TRUE <=> id \in Lively
           /\ id \in Lively => NewestOf(id).vec = VectorOf(id) /\ VectorOf(id) \in Vecs
<1>1. PICK x \in JournalRows :
        /\ x.id = id /\ IsNewest(JournalRows, x) /\ journal.entry[id].ver = Version(x)
        /\ journal.entry[id].del <=> x.del = TRUE
        /\ x.del # TRUE => journal.slots[journal.entry[id].slot] = x.vec
  <2>1. Speaks(journal, JournalRows, id)
        BY ReadFacts DEF Keeps
  <2> QED BY <2>1, Zenon DEF Speaks
<1>2. \E r \in JournalRows : r.id = id /\ IsNewest(JournalRows, r)
      BY <1>1
<1>3. PICK r : r = NewestOf(id)
      OBVIOUS
<1>4. r \in JournalRows /\ r.id = id /\ IsNewest(JournalRows, r)
      BY <1>2, <1>3 DEF NewestOf
<1>5. (r.del = TRUE <=> x.del = TRUE) /\ (r.del # TRUE => r.vec = x.vec)
      BY <1>1, <1>4, NewestAgree
<1>6. id \in Lively <=> x.del # TRUE
      BY <1>1, Zenon DEF Lively
<1>7. id \in Lively => r.vec = VectorOf(id)
      BY <1>1, <1>5, <1>6, Zenon DEF VectorOf
<1>8. id \in Lively => VectorOf(id) \in Vecs
      BY LiveEntry DEF Lively, VectorOf
<1> QED BY <1>3, <1>4, <1>5, <1>6, <1>7, <1>8

\* The rows beside the snapshot are those of the wanted ids.
LEMMA BesideIs ==
    ASSUME AllRead
    PROVE  RowsOf(Beside) = {[id |-> id, vec |-> VectorOf(id)] : id \in Wanted} /\ IsFiniteSet(Beside)
<1>1. DOMAIN journal.entry = {r.id : r \in JournalRows}
      BY ReadFacts DEF Keeps
<1>2. Beside = {r \in NewestRows(JournalRows) : r.del # TRUE /\ AllowedId(r.id)}
  <2>1. call.kind = "vsearch" /\ call.kind # "vscan" /\ call.kind # "vknn"
        BY DEF AllRead
  <2> QED BY <2>1, Zenon DEF Beside
<1>3. NewestRows(JournalRows) = {NewestOf(id) : id \in DOMAIN journal.entry}
      BY <1>1 DEF NewestRows, NewestOf
<1>4. ASSUME NEW r \in Beside PROVE \E id \in Wanted : r.id = id /\ r.vec = VectorOf(id) /\ r = NewestOf(id)
  <2>1. PICK id \in DOMAIN journal.entry : r = NewestOf(id)
        BY <1>2, <1>3
  <2>2. r.id = id /\ id \in Lively /\ r.vec = VectorOf(id) /\ AllowedId(id)
        BY <1>2, <2>1, NewestOfIs
  <2> QED BY <2>1, <2>2, WantedAre
<1>5. ASSUME NEW id \in Wanted PROVE \E r \in Beside : r.id = id /\ r.vec = VectorOf(id)
  <2>1. id \in Lively /\ AllowedId(id) /\ id \in DOMAIN journal.entry
        BY WantedAre DEF Lively
  <2>2. PICK r : r = NewestOf(id)
        OBVIOUS
  <2>3. r \in NewestRows(JournalRows) /\ r.id = id /\ r.del # TRUE /\ r.vec = VectorOf(id)
        BY <1>3, <2>1, <2>2, NewestOfIs
  <2> QED BY <1>2, <2>1, <2>3
<1>6. RowsOf(Beside) = {[id |-> id, vec |-> VectorOf(id)] : id \in Wanted}
  <2>1. \A y \in RowsOf(Beside) : y \in {[id |-> id, vec |-> VectorOf(id)] : id \in Wanted}
        BY <1>4 DEF RowsOf
  <2>2. \A y \in {[id |-> id, vec |-> VectorOf(id)] : id \in Wanted} : y \in RowsOf(Beside)
        BY <1>5 DEF RowsOf
  <2> QED BY <2>1, <2>2
<1>7. IsFiniteSet(Beside)
  <2>1. Beside \in SUBSET JournalRows
    <3>1. \A r \in Beside : r \in JournalRows
          BY <1>2, <1>3, NewestOfIs
    <3> QED BY <3>1
  <2> QED BY <2>1, JournalRowsAre, FS_Subset
<1> QED BY <1>6, <1>7

\* They are added once each, in the order of their ids.
LEMMA AddedAre ==
    ASSUME AllRead
    PROVE  /\ Listed(Added, {}) /\ Seen(Added, {}) = RowsOf(Beside)
           /\ \A j \in 1 .. Len(Added) : Added[j].id \in DOMAIN journal.entry
<1>1. PICK ids : ids = Sorted(Wanted, <)
      OBVIOUS
<1>2. Enumerates(ids, Wanted)
      BY <1>1, WantedAre, SortedNumbers
<1>3. PICK m \in Nat : m = Len(ids) /\ DOMAIN ids = 1 .. m /\ \A i \in 1 .. m : ids[i] \in Wanted
      BY <1>2, LenProperties, ElementOfSeq DEF Enumerates
<1>4. PICK rows : rows = [i \in DOMAIN ids |-> [id |-> ids[i], vec |-> VectorOf(ids[i])]]
      OBVIOUS
<1>5. Added = rows
  <2>1. Added = [i \in DOMAIN ids |-> [id |-> ids[i], vec |-> journal.slots[journal.entry[ids[i]].slot]]]
        BY <1>1 DEF Added, LiveAdds, Wanted, Lively
  <2> QED BY <1>4, <2>1 DEF VectorOf
<1>6. \A id \in Wanted : id \in Int /\ VectorOf(id) \in Vecs /\ id \in DOMAIN journal.entry
      BY WantedAre, NewestOfIs DEF Lively
<1>7. \A i \in 1 .. m : rows[i] = [id |-> ids[i], vec |-> VectorOf(ids[i])] /\ rows[i] \in Row
      BY <1>3, <1>4, <1>6 DEF Row
<1>8. rows \in Seq(Row) /\ Len(rows) = m
  <2>1. DOMAIN rows = 1 .. m /\ rows = [i \in 1 .. m |-> rows[i]]
        BY <1>3, <1>4
  <2>2. rows \in [1 .. m -> Row]
        BY <1>7, <2>1
  <2>3. rows \in Seq(Row)
        BY <2>2, SeqDef
  <2> QED BY <2>1, <2>3, LenProperties
<1>9. \A i, j \in 1 .. m : ids[i] = ids[j] => i = j
      BY <1>2, <1>3 DEF Enumerates
<1>10. ASSUME NEW i \in 1 .. m PROVE rows[i].id = ids[i]
  <2>1. PICK v : v = VectorOf(ids[i])
        OBVIOUS
  <2>2. rows[i] = [id |-> ids[i], vec |-> v]
        BY <1>7, <2>1
  <2> QED BY <2>2
<1>11. Listed(rows, {})
       BY <1>8, <1>9, <1>10 DEF Listed
<1>12. \A id \in Wanted : \E i \in 1 .. m : ids[i] = id
       BY <1>2, <1>3 DEF Enumerates
<1>13. Seen(rows, {}) = {[id |-> id, vec |-> VectorOf(id)] : id \in Wanted}
  <2>1. \A y \in Seen(rows, {}) : \E id \in Wanted : y = [id |-> id, vec |-> VectorOf(id)]
        BY <1>3, <1>7, <1>8 DEF Seen
  <2>2. ASSUME NEW id \in Wanted PROVE [id |-> id, vec |-> VectorOf(id)] \in Seen(rows, {})
    <3>1. PICK i \in 1 .. m : ids[i] = id
          BY <1>12
    <3>2. rows[i] = [id |-> id, vec |-> VectorOf(id)]
          BY <1>7, <3>1
    <3>3. i \in (1 .. Len(rows)) \ {}
          BY <1>8
    <3>4. rows[i] \in Seen(rows, {})
          BY <3>3 DEF Seen
    <3> QED BY <3>2, <3>4
  <2> QED BY <2>1, <2>2
<1>14. \A j \in 1 .. Len(rows) : rows[j].id \in DOMAIN journal.entry
       BY <1>3, <1>6, <1>8, <1>10
<1> QED BY <1>5, <1>11, <1>13, <1>14, BesideIs

------------------------------------------------------------------------------
(* The answers, as ExactAnswer states them.                                 *)

\* What a call searches.
SearchedRows == {Set.rows[p] : p \in Searched} \cup RowsOf(Beside)

\* The neighbours to choose from are those of the searched rows.
LEMMA ScoredIs ==
    ASSUME ~Approximate, NEW q
    PROVE  Scored(q) = Valid(settings, NearAll(q, SearchedRows))
<1>1. Scored(q) = {x \in {[key |-> KeyOf(None, q, Set.rows[p].vec), id |-> Set.rows[p].id] : p \in Searched}
                           \cup {[key |-> KeyOf(None, q, r.vec), id |-> r.id] : r \in Beside} :
                      x.key # NaN /\ Within(settings, x.key)}
  <2>1. PICK reported : reported = IF Approximate /\ CallPlan.codes /\ ~CallPlan.rescore THEN CodeRange ELSE None
        OBVIOUS
  <2>2. Scored(q) = {x \in {[key |-> KeyOf(reported, q, Set.rows[p].vec), id |-> Set.rows[p].id] : p \in Searched}
                           \cup {[key |-> KeyOf(None, q, r.vec), id |-> r.id] : r \in Beside} :
                      x.key # NaN /\ Within(settings, x.key)}
        BY <2>1, Zenon DEF Scored
  <2>3. reported = None
        BY <2>1
  <2> QED BY <2>2, <2>3
<1>2. {[key |-> KeyOf(None, q, Set.rows[p].vec), id |-> Set.rows[p].id] : p \in Searched}
        = {Near(q, row) : row \in {Set.rows[p] : p \in Searched}}
      BY DEF Near
<1>3. {[key |-> KeyOf(None, q, r.vec), id |-> r.id] : r \in Beside} = {Near(q, row) : row \in RowsOf(Beside)}
  <2>1. \A r : Near(q, [id |-> r.id, vec |-> r.vec]) = [key |-> KeyOf(None, q, r.vec), id |-> r.id]
        BY DEF Near
  <2>2. ASSUME NEW r \in Beside
        PROVE  \E row \in RowsOf(Beside) : Near(q, row) = [key |-> KeyOf(None, q, r.vec), id |-> r.id]
    <3>1. [id |-> r.id, vec |-> r.vec] \in RowsOf(Beside)
          BY DEF RowsOf
    <3> QED BY <2>1, <3>1
  <2>3. ASSUME NEW row \in RowsOf(Beside)
        PROVE  \E r \in Beside : Near(q, row) = [key |-> KeyOf(None, q, r.vec), id |-> r.id]
    <3>1. PICK r \in Beside : row = [id |-> r.id, vec |-> r.vec]
          BY DEF RowsOf
    <3> QED BY <2>1, <3>1
  <2> QED BY <2>2, <2>3
<1>4. NearAll(q, SearchedRows)
        = {Near(q, row) : row \in {Set.rows[p] : p \in Searched}} \cup {Near(q, row) : row \in RowsOf(Beside)}
      BY DEF NearAll, SearchedRows
<1>5. Scored(q) = {x \in NearAll(q, SearchedRows) : x.key # NaN /\ Within(settings, x.key)}
      BY <1>1, <1>2, <1>3, <1>4
<1> QED BY <1>5 DEF Valid

\* The k best of finitely many rows are the answer.
LEMMA BestOfIs ==
    ASSUME ~Approximate, settings.k \in Nat \ {0}, NEW q \in Vecs,
           SearchedRows \in SUBSET Row, IsFiniteSet(SearchedRows),
           NEW h, IsBest(h, Valid(settings, NearAll(q, SearchedRows)), settings.k)
    PROVE  h = BestOf(q)
<1>1. PICK s : s = settings
      OBVIOUS
<1>2. PICK rows : rows = SearchedRows
      OBVIOUS
<1>3. h = Upto(Sorted(Valid(s, NearAll(q, rows)), Closer), s.k)
      BY <1>1, <1>2, BestRows
<1>4. Scored(q) = Valid(s, NearAll(q, rows))
      BY <1>1, <1>2, ScoredIs
<1> QED BY <1>1, <1>3, <1>4 DEF BestOf

\* Rows of a snapshot are finitely many.
LEMMA SnapshotFinite ==
    ASSUME call \in Calls, held \in DOMAIN call.snaps, NEW some \in SUBSET DOMAIN Set.rows
    PROVE  {Set.rows[p] : p \in some} \in SUBSET Row /\ IsFiniteSet({Set.rows[p] : p \in some})
<1>1. PICK rows \in Seq(Row) : rows = Set.rows
      BY SnapshotRows
<1>2. PICK n \in Nat : DOMAIN rows = 1 .. n
      BY LenProperties
<1>3. IsFiniteSet(some)
  <2>1. IsFiniteSet(1 .. n) /\ some \in SUBSET (1 .. n)
        BY <1>1, <1>2, FS_Interval
  <2> QED BY <2>1, FS_Subset
<1>4. IsFiniteSet({rows[p] : p \in some})
      BY <1>3, ImagesFinite
<1>5. \A p \in some : rows[p] \in Row
  <2>1. \A p \in DOMAIN rows : rows[p] \in Row
        BY <1>1, <1>2, LenProperties, ElementOfSeq
  <2> QED BY <1>1, <2>1
<1> QED BY <1>1, <1>4, <1>5

\* Finitely many rows stay so.
LEMMA RowsFinite ==
    ASSUME NEW rows, IsFiniteSet(rows)
    PROVE  IsFiniteSet(RowsOf(rows))
<1>1. PICK f : f = [r \in rows |-> [id |-> r.id, vec |-> r.vec]]
      OBVIOUS
<1>2. IsFiniteSet({f[r] : r \in rows})
      BY ImagesFinite
<1>3. {f[r] : r \in rows} = RowsOf(rows)
      BY <1>1 DEF RowsOf
<1> QED BY <1>2, <1>3

\* vsearch: the k best of the snapshot's rows and the journal's.
LEMMA SearchFinds ==
    ASSUME AllRead, VSearchSearch, ~Approximate, NEW i \in DOMAIN out'
    PROVE  out'[i] = BestOf(queries[i].vec)
<1>1. PICK turn \in Turns :
        out' = IndexSearch(Describe(queries), Set, ThePlan, Hidden, Added, turn, call.misses, pool).out
      BY DEF VSearchSearch, ThePlan, Hidden, Added, Restricted
<1>2. PICK s : s = Describe(queries)
      OBVIOUS
<1>3. /\ Asking(s, turn) /\ s.k = settings.k /\ DOMAIN s.queries = DOMAIN queries
      /\ \A j \in DOMAIN queries : s.queries[j] = queries[j].vec
      /\ \A X : Valid(s, X) = Valid(settings, X)
      BY <1>2, ReadFacts, DescribeIs
<1>4. PICK set : set = Set
      OBVIOUS
<1>5. PICK live : live = Searched
      OBVIOUS
<1>6. PICK few : few = FewAllowed(s, set, ThePlan, Hidden)
      OBVIOUS
<1>7. PICK extra : extra = Added
      OBVIOUS
<1>8. out' = ExactSearch(s, set, few, live, extra, turn)
  <2>1. live = (IF ThePlan.filtered THEN ThePlan.allow ELSE DOMAIN set.rows) \ Hidden
    <3>1. CASE Restricted
          BY <1>4, <1>5, <3>1, PlanIs, SearchedIs
    <3>2. CASE ~Restricted
          BY <1>4, <1>5, <3>2, PlanIs, SearchedIs
    <3> QED BY <3>1, <3>2
  <2>2. out' = SearchLive(s, set, ThePlan, few, live, extra, turn, call.misses, pool).out
        BY <1>1, <1>2, <1>4, <1>6, <1>7, <2>1 DEF IndexSearch
  <2>3. few \/ (~ThePlan.graph /\ ~ThePlan.codes)
        BY <1>2, <1>4, <1>6, ScoresAll
  <2> QED BY <2>2, <2>3, SearchIsExact
<1>9. i \in DOMAIN queries
  <2>1. PICK n \in Nat : DOMAIN queries = 1 .. n
        BY ReadFacts, ListsAreAnswers
  <2>2. /\ DOMAIN s.queries = 1 .. n
        /\ s = [queries |-> s.queries, k |-> s.k, radius |-> s.radius, threads |-> s.threads]
        BY <1>2, <1>3, <2>1 DEF Describe
  <2>3. Answers(out', n)
        BY <1>1, <1>2, <2>2, SearchAnswers
  <2>4. DOMAIN out' = 1 .. n
        BY <2>3, AnswersAreLists, ListsAreAnswers
  <2> QED BY <2>1, <2>4
<1>10. PICK q \in Vecs : q = queries[i].vec
       BY <1>9, ReadFacts
<1>11. /\ set.rows \in Seq(Row) /\ live \in SUBSET DOMAIN set.rows
       /\ \A p, x \in live : set.rows[p].id = set.rows[x].id => p = x
  <2>1. live \subseteq DOMAIN Set.rows \ Set.dead
        BY <1>5, SearchedIs
  <2> QED BY <1>4, <2>1, ReadFacts, SnapshotRows
<1>12. Listed(extra, {}) /\ Seen(extra, {}) = RowsOf(Beside)
       BY <1>7, AddedAre
<1>13. \A p \in live : \A j \in 1 .. Len(extra) : set.rows[p].id # extra[j].id
       BY <1>4, <1>5, <1>7, AddedAre, SearchedIs
<1>14. i \in DOMAIN s.queries /\ s.queries[i] = q
       BY <1>3, <1>9, <1>10
<1>15. IsBest(ExactSearch(s, set, few, live, extra, turn)[i],
              Valid(s, NearAll(s.queries[i], {set.rows[p] : p \in live} \cup Seen(extra, {}))), s.k)
       BY <1>3, <1>11, <1>12, <1>13, <1>14, ExactBest
<1>16. {set.rows[p] : p \in live} \cup Seen(extra, {}) = SearchedRows
       BY <1>4, <1>5, <1>12 DEF SearchedRows
<1>17. IsBest(out'[i], Valid(settings, NearAll(q, SearchedRows)), settings.k)
       BY <1>3, <1>8, <1>14, <1>15, <1>16
<1>18. SearchedRows \in SUBSET Row /\ IsFiniteSet(SearchedRows)
  <2>1. RowsOf(Beside) \in SUBSET Row
        BY <1>12 DEF Seen, Listed
  <2>2. IsFiniteSet(RowsOf(Beside))
        BY BesideIs, RowsFinite
  <2>3. {Set.rows[p] : p \in Searched} \in SUBSET Row /\ IsFiniteSet({Set.rows[p] : p \in Searched})
        BY ReadFacts, SearchedIs, SnapshotFinite
  <2> QED BY <2>1, <2>2, <2>3, FS_Union DEF SearchedRows
<1> QED BY <1>10, <1>17, <1>18, ReadFacts, BestOfIs

\* What must be answered depends on nothing that a search changes.
LEMMA SameAsked ==
    ASSUME UNCHANGED <<call, held, settings, queries>>
    PROVE  (Approximate' <=> Approximate) /\ \A q : BestOf(q)' = BestOf(q)
<1>1. UNCHANGED <<Set, Filtered, JournalRows>>
      BY DEF Set, Filtered, JournalRows
<1>2. \A id : AllowedId(id)' <=> AllowedId(id)
      BY <1>1 DEF AllowedId
<1>3. Searched' = Searched
  <2>1. CASE call.kind = "vscan"
        BY <2>1, Zenon DEF Searched
  <2>2. CASE call.kind = "vknn"
    <3>1. call.kind # "vscan"
          BY <2>2
    <3>2. Searched = DOMAIN Set.rows \ Set.dead /\ Searched' = DOMAIN Set'.rows \ Set'.dead
          BY <2>2, <3>1, Zenon DEF Searched
    <3> QED BY <1>1, <3>2
  <2>3. CASE call.kind # "vscan" /\ call.kind # "vknn"
    <3>1. Searched = {p \in DOMAIN Set.rows \ Set.dead :
                        AllowedId(Set.rows[p].id) /\ \A r \in JournalRows : r.id # Set.rows[p].id}
          BY <2>3, Zenon DEF Searched
    <3>2. Searched' = {p \in DOMAIN Set'.rows \ Set'.dead :
                        AllowedId(Set.rows[p].id)' /\ \A r \in JournalRows' : r.id # Set'.rows[p].id}
          BY <2>3, Zenon DEF Searched
    <3>3. \A p : AllowedId(Set.rows[p].id)' <=> AllowedId(Set.rows[p].id)
          BY <1>1 DEF AllowedId
    <3> QED BY <1>1, <3>1, <3>2, <3>3
  <2> QED BY <2>1, <2>2, <2>3
<1>4. Beside' = Beside
  <2>1. CASE call.kind = "vscan"
        BY <2>1, Zenon DEF Beside
  <2>2. CASE call.kind = "vknn"
    <3>1. call.kind # "vscan"
          BY <2>2
    <3> QED BY <2>2, <3>1, Zenon DEF Beside
  <2>3. CASE call.kind # "vscan" /\ call.kind # "vknn"
    <3>1. Beside = {r \in NewestRows(JournalRows) : r.del # TRUE /\ AllowedId(r.id)}
          BY <2>3, Zenon DEF Beside
    <3>2. Beside' = {r \in NewestRows(JournalRows') : r.del # TRUE /\ AllowedId(r.id)'}
          BY <2>3, Zenon DEF Beside
    <3> QED BY <1>1, <1>2, <3>1, <3>2
  <2> QED BY <2>1, <2>2, <2>3
<1>5. CallPlan' = CallPlan
  <2>1. PICK all : all = {p \in DOMAIN Set.rows : AllowedId(Set.rows[p].id)}
        OBVIOUS
  <2>2. {p \in DOMAIN Set.rows : AllowedId(Set.rows[p].id)}' = all
    <3>1. \A p : AllowedId(Set.rows[p].id)' <=> AllowedId(Set.rows[p].id)
          BY <1>1 DEF AllowedId
    <3> QED BY <1>1, <2>1, <3>1
  <2> QED BY <1>1, <2>1, <2>2 DEF CallPlan
<1>6. Describe(queries)' = Describe(queries)
      BY DEF Describe
<1>7. Approximate' <=> Approximate
      BY <1>1, <1>3, <1>5, <1>6 DEF Approximate
<1>8. CodeRange' = CodeRange
      BY <1>1, <1>5 DEF CodeRange
<1>9. ASSUME NEW q PROVE BestOf(q)' = BestOf(q)
  <2>1. PICK reported : reported = IF Approximate /\ CallPlan.codes /\ ~CallPlan.rescore THEN CodeRange ELSE None
        OBVIOUS
  <2>2. reported = IF Approximate' /\ CallPlan'.codes /\ ~CallPlan'.rescore THEN CodeRange' ELSE None
        BY <1>5, <1>7, <1>8, <2>1
  <2>3. Scored(q) = {x \in {[key |-> KeyOf(reported, q, Set.rows[p].vec), id |-> Set.rows[p].id] : p \in Searched}
                           \cup {[key |-> KeyOf(None, q, r.vec), id |-> r.id] : r \in Beside} :
                       x.key # NaN /\ Within(settings, x.key)}
        BY <2>1, Zenon DEF Scored
  <2>4. Scored(q)' = {x \in {[key |-> KeyOf(reported, q, Set'.rows[p].vec), id |-> Set'.rows[p].id] : p \in Searched'}
                           \cup {[key |-> KeyOf(None, q, r.vec), id |-> r.id] : r \in Beside'} :
                       x.key # NaN /\ Within(settings', x.key)}
        BY <2>2, Zenon DEF Scored
  <2>5. Scored(q)' = Scored(q)
        BY <1>1, <1>3, <1>4, <2>3, <2>4
  <2> QED BY <2>5 DEF BestOf
<1> QED BY <1>7, <1>9

\* vsearch has answered with the k best.
SearchDone ==
    call.kind = "vsearch" /\ pc = "done" /\ ~Approximate => \A i \in DOMAIN out : out[i] = BestOf(queries[i].vec)

\* Once vsearch has answered, no step changes what it was asked.
LEMMA DoneStep == Inv /\ Asked /\ ReadSoFar /\ SearchDone /\ [Next]_vars => SearchDone'
<1> SUFFICES ASSUME Inv, Asked, ReadSoFar, SearchDone, [Next]_vars, call'.kind = "vsearch", pc' = "done"
             PROVE  SearchDone'
    BY DEF SearchDone
<1>1. CASE VSearchSearch
  <2>1. UNCHANGED <<call, held, settings, queries>> /\ AllRead
        BY <1>1 DEF VSearchSearch, AllRead
  <2>2. ~Approximate' => \A i \in DOMAIN out' : out'[i] = BestOf(queries[i].vec)
        BY <1>1, <2>1, SearchFinds, SameAsked
  <2>3. \A q : BestOf(q)' = BestOf(q)
        BY <2>1, SameAsked
  <2> QED BY <2>1, <2>2, <2>3 DEF SearchDone
<1>2. CASE UNCHANGED vars
  <2>1. UNCHANGED <<call, held, settings, queries, out, pc>>
        BY <1>2 DEF vars
  <2>2. (Approximate' <=> Approximate) /\ \A q : BestOf(q)' = BestOf(q)
        BY <2>1, SameAsked
  <2> QED BY <2>1, <2>2 DEF SearchDone
<1>3. ASSUME Open \/ Load \/ VSearchRow \/ VSearchReopen \/ VKnnRow \/ VKnnEnd \/ VScanOpen \/ VScanRow
             \/ VScanEnd \/ Cancel
      PROVE  FALSE
  <2>1. CASE Open \/ Load
        BY <2>1 DEF Open, Load, Fail
  <2>2. CASE VSearchRow \/ VSearchReopen
        BY <2>2 DEF VSearchRow, VSearchReopen, Fail
  <2>3. CASE VKnnRow \/ VKnnEnd \/ VScanOpen \/ VScanRow \/ VScanEnd \/ Cancel
        BY <2>3 DEF VKnnRow, VKnnEnd, VScanOpen, VScanRow, VScanEnd, Cancel
  <2> QED BY <1>3, <2>1, <2>2, <2>3
<1> QED BY <1>1, <1>2, <1>3 DEF Next

\* vknn: what is asked is what every row's search found.
LEMMA KnnFinds ==
    ASSUME Inv, Asked, KnnSoFar, call.kind = "vknn", pc = "done", ~Approximate, NEW i \in DOMAIN out
    PROVE  out[i] = BestOf(queries[i].vec)
<1>1. /\ call \in Calls /\ Started /\ Len(out) = Len(queries) /\ ListOf(out) /\ ListOf(queries)
      BY DEF Inv, Views, Lists, Started
<1>2. i \in DOMAIN queries
      BY <1>1, ListsAreAnswers
<1>3. /\ settings.k \in Nat \ {0} /\ held \in DOMAIN call.snaps
      /\ queries[i].vec \in Vecs
      BY <1>1, <1>2 DEF Asked
<1>4. ~Filtered /\ call.kind # "vscan"
      BY DEF Filtered
<1>5. CallPlan = KnnPlan
  <2>1. PICK all : all = {p \in DOMAIN Set.rows : AllowedId(Set.rows[p].id)}
        OBVIOUS
  <2>2. Filtered = FALSE
        BY <1>4 DEF Filtered
  <2>3. CallPlan = Plan(settings, Set, FALSE, all)
        BY <1>4, <2>1, <2>2 DEF CallPlan
  <2> QED BY <2>3 DEF KnnPlan, Plan
<1>6. ~KnnPlan.graph /\ ~KnnPlan.codes
  <2>1. ~CallPlan.filtered
        BY <1>5 DEF KnnPlan, Plan
  <2> QED BY <1>5, <2>1 DEF Approximate
<1>7. Searched = DOMAIN Set.rows \ Set.dead /\ Beside = {}
  <2>1. Searched = DOMAIN Set.rows \ Set.dead
        BY <1>4, Zenon DEF Searched
  <2>2. Beside = {}
        BY <1>4, Zenon DEF Beside
  <2> QED BY <2>1, <2>2
<1>8. SearchedRows = LiveRows
      BY <1>7 DEF SearchedRows, LiveRows, RowsOf
<1>9. LiveRows \in SUBSET Row /\ IsFiniteSet(LiveRows)
  <2>1. PICK some : some = DOMAIN Set.rows \ Set.dead
        OBVIOUS
  <2>2. some \in SUBSET DOMAIN Set.rows
        BY <2>1
  <2> QED BY <1>1, <1>3, <2>1, <2>2, SnapshotFinite DEF LiveRows
<1>10. IsBest(out[i], Valid(settings, NearAll(queries[i].vec, SearchedRows)), settings.k)
       BY <1>1, <1>6, <1>8 DEF KnnSoFar
<1> QED BY <1>3, <1>8, <1>9, <1>10, BestOfIs

\* vscan: all rows are read and none waits.
LEMMA ScanFinds ==
    ASSUME Inv, Asked, ScanSoFar, call.kind = "vscan", pc = "done", NEW i \in DOMAIN out
    PROVE  out[i] = BestOf(queries[i].vec)
<1>1. /\ call \in Calls /\ Started /\ Len(out) = Len(queries) /\ ListOf(out) /\ ListOf(queries)
      BY DEF Inv, Views, Lists, Started
<1>2. i \in DOMAIN queries
      BY <1>1, ListsAreAnswers
<1>3. settings.k \in Nat \ {0} /\ queries[i].vec \in Vecs
      BY <1>1, <1>2 DEF Asked
<1>4. ~Approximate
  <2>1. CallPlan = [graph |-> FALSE, codes |-> FALSE, filtered |-> FALSE, allow |-> {}]
        BY DEF CallPlan
  <2> QED BY <2>1 DEF Approximate
<1>5. Searched = {} /\ Beside = {r \in call.rows : r.id # None /\ r.vec # None}
  <2>1. Searched = {}
        BY Zenon DEF Searched
  <2>2. Beside = {r \in call.rows : r.id # None /\ r.vec # None}
        BY Zenon DEF Beside
  <2> QED BY <2>1, <2>2
<1>6. unread = {} /\ block = <<>> /\ (\A r \in Counted : r.vec # BadVec) /\ Waiting(block, Counted)
      BY <1>1 DEF ScanSoFar
<1>7. Counted = Beside
      BY <1>5, <1>6 DEF Counted
<1>8. SearchedRows = RowsOf(Beside)
      BY <1>5 DEF SearchedRows
<1>9. IsBest(out[i], Valid(settings, NearAll(queries[i].vec, SearchedRows)), settings.k)
  <2>1. Seen(<<>>, {}) = {}
        BY NoneSeen
  <2>2. RowsOf(Counted) \ Seen(block, {}) = SearchedRows
        BY <1>6, <1>7, <1>8, <2>1
  <2> QED BY <1>6, <2>2 DEF Waiting
<1>10. SearchedRows \in SUBSET Row
  <2>1. DifferentIds(RowsOf(Beside))
        BY <1>1, <1>5, <1>6, <1>7, TableRows
  <2> QED BY <1>8, <2>1 DEF DifferentIds
<1>11. IsFiniteSet(SearchedRows)
  <2>1. IsFiniteSet(call.rows) /\ Beside \in SUBSET call.rows
        BY <1>1, <1>5, CallRows
  <2> QED BY <1>8, <2>1, FS_Subset, RowsFinite
<1> QED BY <1>3, <1>4, <1>9, <1>10, <1>11, BestOfIs

\* All that a call keeps besides Inv.
FoundSoFar == Asked /\ KnnSoFar /\ ScanSoFar /\ ReadSoFar /\ SearchDone

\* Every function's answers are the k best.
LEMMA ExactFollows == Inv /\ FoundSoFar => ExactAnswer
<1> SUFFICES ASSUME Inv, FoundSoFar, pc = "done", ~Approximate, NEW i \in DOMAIN out
             PROVE  out[i] = BestOf(queries[i].vec)
    BY DEF ExactAnswer
<1>1. call.kind = "vsearch" => out[i] = BestOf(queries[i].vec)
      BY DEF FoundSoFar, SearchDone
<1>2. call.kind = "vknn" => out[i] = BestOf(queries[i].vec)
      BY KnnFinds DEF FoundSoFar
<1>3. call.kind = "vscan" => out[i] = BestOf(queries[i].vec)
      BY ScanFinds DEF FoundSoFar
<1>4. call.kind \in {"vsearch", "vknn", "vscan"}
      BY CallShapes DEF Inv, Views
<1> QED BY <1>1, <1>2, <1>3, <1>4

\* A call starts with nothing found.
LEMMA InitFound == Init => FoundSoFar
<1> SUFFICES ASSUME Init PROVE FoundSoFar
    OBVIOUS
<1>1. /\ pc = "open" /\ ~Started /\ block = <<>> /\ allow = {} /\ unread = call.rows
      /\ journal = EmptyJournal
      BY DEF Init, Started
<1>2. call.rows \ unread = {}
      BY <1>1
<1>3. {x \in call.rows \ unread : IsAllowed(x)} = {}
      BY <1>2
<1>4. BadVec \notin ToSet(journal.slots)
  <2>1. journal.slots = <<>>
        BY <1>1 DEF EmptyJournal
  <2>2. DOMAIN journal.slots = {}
        BY <2>1, EmptyList
  <2> QED BY <2>2 DEF ToSet
<1>5. ReadSoFar
      BY <1>1, <1>3, <1>4 DEF ReadSoFar
<1>6. Asked /\ KnnSoFar /\ ScanSoFar /\ SearchDone
      BY <1>1 DEF Asked, KnnSoFar, ScanSoFar, SearchDone
<1> QED BY <1>5, <1>6 DEF FoundSoFar

\* A search that scores every row answers every query with the k closest of exactly the rows its call is about,
\* ties by id: by whatever plan, units, threads and filter, and in whatever order the rows come (flat.h, search.cpp,
\* vsearch.cpp, vknn.cpp, vscan.cpp).
THEOREM ExactAnswers == Spec => []ExactAnswer
<1>1. Inv /\ FoundSoFar /\ [Next]_vars => FoundSoFar'
      BY AskedStep, KnnStep, ScanStep, ReadStep, DoneStep DEF FoundSoFar
<1> HIDE DEF Inv, FoundSoFar, ExactAnswer
<1>2. Init /\ [][Next]_vars /\ []Inv => []FoundSoFar
      BY InitFound, <1>1, PTL
<1> QED BY SearchInvariant, <1>2, ExactFollows, PTL DEF Spec
==============================================================================
