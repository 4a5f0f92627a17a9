---------------------------- MODULE VVGraphProofs ----------------------------
(***************************************************************************)
(* Theorems about VVGraph, for every number of threads, every vector set   *)
(* and all sizes of lists, beams and ranges.                               *)
(*                                                                         *)
(* Outline.  The first part is about the pure operators: the order of the  *)
(* candidates is a strict total order, so a set of positions has a nearest *)
(* one and an ordered list; the heuristic returns a short list of its      *)
(* candidates; a walk returns a set that its links do not leave.  The      *)
(* second part is the inductive invariant Inv of a concurrent build, its   *)
(* repair and its extension: who inserts what, which nodes others may see  *)
(* on which level, and what a list of links may hold.  The third part is   *)
(* Whole, inductive with Inv: nobody is left without links.  The last part *)
(* is PassOK, inductive with Inv, and why a search that keeps what it sees *)
(* ends and finds something: the repair links every position it misses.    *)
(***************************************************************************)
EXTENDS VVGraph, FiniteSetTheorems, SequenceTheorems, WellFoundedInduction, TLAPS

------------------------------------------------------------------------------
(* Vector sets and the order of candidates.                                *)

Points == Int \X Int

\* The positions of a vector set.
LEMMA SetTypes ==
    ASSUME set \in Sets
    PROVE  /\ Cardinality(AllPositions) \in Nat \ {0}
           /\ AllPositions = 0 .. Cardinality(AllPositions) - 1
           /\ IsFiniteSet(AllPositions)
           /\ set.at \in [AllPositions -> Points]
           /\ set.level \in [AllPositions -> Nat]
           /\ set.base \in 1 .. Cardinality(AllPositions)
<1> DEFINE n == Cardinality(DOMAIN set.at)
<1>1. /\ IsFiniteSet(DOMAIN set.at)
      /\ set \in [base : 1 .. n, at : [0 .. n - 1 -> Int \X Int], level : [0 .. n - 1 -> Nat]]
  BY VectorSets
<1>2. n \in Nat
  BY <1>1, FS_CardinalityType
<1> HIDE DEF n
<1>3. set.base \in 1 .. n /\ set.at \in [0 .. n - 1 -> Int \X Int] /\ set.level \in [0 .. n - 1 -> Nat]
  BY <1>1
<1>4. AllPositions = 0 .. n - 1
  BY <1>3 DEF AllPositions
<1>5. Cardinality(AllPositions) = n
  BY DEF AllPositions, n
<1>6. n \in Nat \ {0} /\ IsFiniteSet(AllPositions)
  BY <1>1, <1>2, <1>3 DEF AllPositions
<1>7. set.at \in [AllPositions -> Points] /\ set.level \in [AllPositions -> Nat]
  BY <1>3, <1>4 DEF Points
<1> QED
  BY <1>3, <1>4, <1>5, <1>6, <1>7

\* A key is a number.
LEMMA KeyType == \A u, v \in Points : Key(u, v) \in Int
<1>1. \A a \in Int : a * a \in Int
  OBVIOUS
<1>2. ASSUME NEW u \in Points, NEW v \in Points PROVE Key(u, v) \in Int
  <2>1. u[1] - v[1] \in Int /\ u[2] - v[2] \in Int
    BY DEF Points
  <2>2. (u[1] - v[1]) * (u[1] - v[1]) \in Int /\ (u[2] - v[2]) * (u[2] - v[2]) \in Int
    BY <1>1, <2>1
  <2> QED
    BY <2>2 DEF Key
<1> QED
  BY <1>2

\* Seen from any point, the candidates are in a strict total order.
LEMMA NearerOrders ==
    ASSUME set \in Sets, NEW q \in Points
    PROVE  /\ \A x \in AllPositions : ~Nearer(q, x, x)
           /\ \A x, y \in AllPositions : x # y => Nearer(q, x, y) \/ Nearer(q, y, x)
           /\ \A x, y, z \in AllPositions : Nearer(q, x, y) /\ Nearer(q, y, z) => Nearer(q, x, z)
<1> DEFINE key(x) == Key(q, set.at[x])
<1>1. \A x \in AllPositions : key(x) \in Int /\ x \in Int
  BY SetTypes, KeyType
<1>2. \A x, y \in AllPositions : Nearer(q, x, y) <=> key(x) < key(y) \/ (key(x) = key(y) /\ x < y)
  BY DEF Nearer
<1> HIDE DEF key
<1> QED
  BY <1>1, <1>2

\* How many of S are nearer than x.
Rank(q, S, x) == Cardinality({y \in S : Nearer(q, y, x)})

\* The ranks of the members of S are 0, 1, ..., each of one member, and grow with the distance.
LEMMA Ranks ==
    ASSUME set \in Sets, NEW q \in Points, NEW S \in SUBSET AllPositions
    PROVE  /\ IsFiniteSet(S) /\ Cardinality(S) \in Nat
           /\ \A x \in S : Rank(q, S, x) \in 0 .. Cardinality(S) - 1
           /\ \A x, y \in S : Nearer(q, x, y) => Rank(q, S, x) < Rank(q, S, y)
           /\ \A x, y \in S : Rank(q, S, x) = Rank(q, S, y) => x = y
           /\ \A k \in 0 .. Cardinality(S) - 1 : \E x \in S : Rank(q, S, x) = k
<1> DEFINE n == Cardinality(S)
           T == 0 .. n - 1
           before(x) == {y \in S : Nearer(q, y, x)}
           rank == [x \in S |-> Cardinality(before(x))]
<1>1. IsFiniteSet(S) /\ n \in Nat
  BY SetTypes, FS_Subset, FS_CardinalityType
<1>2. /\ \A x \in S : x \notin before(x)
      /\ \A x, y \in S : Nearer(q, x, y) => before(x) \subseteq before(y) /\ x \in before(y)
      /\ \A x, y \in S : x # y => Nearer(q, x, y) \/ Nearer(q, y, x)
  BY NearerOrders
<1>3. \A x \in S : before(x) \in SUBSET S
  OBVIOUS
<1>4. ASSUME NEW A \in SUBSET S, NEW B \in SUBSET A, NEW x \in A, x \notin B
      PROVE  Cardinality(B) \in Nat /\ Cardinality(A) \in Nat /\ Cardinality(B) < Cardinality(A)
  <2>1. IsFiniteSet(A) /\ IsFiniteSet(B)
    BY <1>1, FS_Subset
  <2>2. Cardinality(B) <= Cardinality(A) /\ (Cardinality(A) = Cardinality(B) => A = B)
    BY <2>1, FS_Subset
  <2>3. Cardinality(B) \in Nat /\ Cardinality(A) \in Nat
    BY <2>1, FS_CardinalityType
  <2> QED
    BY <1>4, <2>2, <2>3
<1> HIDE DEF before
<1>5. \A x \in S : rank[x] \in T
  BY <1>1, <1>2, <1>3, <1>4
<1>6. \A x, y \in S : Nearer(q, x, y) => rank[x] < rank[y]
  BY <1>2, <1>3, <1>4
<1>7. ASSUME NEW x \in S, NEW y \in S, rank[x] = rank[y] PROVE x = y
  <2>1. rank[x] \in Int /\ rank[y] \in Int
    BY <1>5
  <2>2. ~(rank[x] < rank[y]) /\ ~(rank[y] < rank[x])
    BY <1>7, <2>1
  <2> HIDE DEF rank
  <2> QED
    BY <1>2, <1>6, <2>2
<1>8. rank \in Injection(S, T)
  <2>1. rank \in [S -> T]
    BY <1>5
  <2> HIDE DEF rank
  <2> QED
    BY <1>7, <2>1 DEF Injection, IsInjective
<1>9. IsFiniteSet(T) /\ Cardinality(T) = n
  <2>1. PICK last \in Int : last = n - 1
    BY <1>1
  <2>2. IsFiniteSet(0 .. last) /\ Cardinality(0 .. last) = IF 0 > last THEN 0 ELSE last - 0 + 1
    BY FS_Interval
  <2>3. T = 0 .. last /\ (IF 0 > last THEN 0 ELSE last - 0 + 1) = n
    BY <1>1, <2>1
  <2> QED
    BY <2>2, <2>3
<1>10. rank \in Surjection(S, T)
  BY <1>8, <1>9, FS_Injection
<1>11. \A k \in T : \E x \in S : rank[x] = k
  BY <1>10 DEF Surjection
<1>12. \A x \in S : rank[x] = Rank(q, S, x)
  BY DEF before, Rank
<1> HIDE DEF rank
<1> QED
  BY <1>1, <1>5, <1>6, <1>7, <1>11, <1>12

\* A set that is not empty has a nearest member.
LEMMA NearestIn ==
    ASSUME set \in Sets, NEW q \in Points, NEW S \in SUBSET AllPositions, S # {}
    PROVE  Nearest(q, S) \in S
<1> DEFINE rank(x) == Rank(q, S, x)
<1>1. Cardinality(S) \in Nat \ {0}
  BY Ranks, FS_EmptySet
<1>2. PICK x \in S : rank(x) = 0
  BY <1>1, Ranks
<1>3. \A y \in S : rank(y) \in Nat /\ (Nearer(q, y, x) => rank(y) < rank(x))
  BY <1>1, Ranks
<1>4. \A y \in S : ~Nearer(q, y, x)
  BY <1>2, <1>3
<1>5. \A y \in S \ {x} : Nearer(q, x, y)
  BY <1>4, NearerOrders
<1> QED
  BY <1>5 DEF Nearest

\* A list of members of S, at most n, none twice.
IsList(list, S, n) ==
    /\ list \in Seq(S) /\ Len(list) <= n
    /\ \A i, j \in 1 .. Len(list) : list[i] = list[j] => i = j

\* The members of S, nearest first.
LEMMA OrderedIs ==
    ASSUME set \in Sets, NEW q \in Points, NEW S \in SUBSET AllPositions
    PROVE  /\ IsList(Ordered(q, S), S, Cardinality(S))
           /\ Len(Ordered(q, S)) = Cardinality(S)
           /\ MembersOf(Ordered(q, S)) = S
<1> DEFINE n == Cardinality(S)
           list == Ordered(q, S)
<1>1. n \in Nat
  BY Ranks
<1>2. list = [i \in 1 .. n |-> CHOOSE x \in S : Rank(q, S, x) = i - 1]
  BY DEF Ordered, Rank
<1>3. \A i \in 1 .. n : list[i] \in S /\ Rank(q, S, list[i]) = i - 1
  <2> TAKE i \in 1 .. n
  <2>1. i - 1 \in 0 .. n - 1
    BY <1>1
  <2>2. \E x \in S : Rank(q, S, x) = i - 1
    BY <2>1, Ranks
  <2> QED
    BY <1>2, <2>2
<1> HIDE DEF list
<1>4. list \in Seq(S) /\ Len(list) = n /\ DOMAIN list = 1 .. n
  BY <1>1, <1>2, <1>3
<1>5. \A i, j \in 1 .. n : list[i] = list[j] => i = j
  BY <1>1, <1>3
<1>6. \A x \in S : \E i \in 1 .. n : list[i] = x
  <2> TAKE x \in S
  <2>1. Rank(q, S, x) \in 0 .. n - 1
    BY Ranks
  <2>2. PICK i \in 1 .. n : Rank(q, S, x) = i - 1
    BY <1>1, <2>1
  <2>3. Rank(q, S, list[i]) = Rank(q, S, x) /\ list[i] \in S
    BY <1>3, <2>2
  <2> QED
    BY <2>3, Ranks
<1>7. MembersOf(list) = S
  BY <1>3, <1>4, <1>6 DEF MembersOf
<1> QED
  BY <1>1, <1>4, <1>5, <1>7 DEF IsList, list

\* The n nearest: some of S, at most n, and not none of them.
LEMMA BestIs ==
    ASSUME set \in Sets, NEW q \in Points, NEW S \in SUBSET AllPositions, NEW n \in Nat
    PROVE  /\ Best(q, S, n) \subseteq S
           /\ Cardinality(Best(q, S, n)) <= n
           /\ S # {} /\ n # 0 => Best(q, S, n) # {}
<1> DEFINE B == Best(q, S, n)
           rank == [x \in B |-> Rank(q, S, x)]
<1>1. B = {x \in S : Rank(q, S, x) < n}
  BY DEF Best, Rank
<1>2. Cardinality(S) \in Nat /\ IsFiniteSet(S) /\ B \subseteq S
  BY <1>1, Ranks
<1>3. \A x \in B : rank[x] \in 0 .. n - 1
  <2> TAKE x \in B
  <2>1. Rank(q, S, x) \in 0 .. Cardinality(S) - 1 /\ Rank(q, S, x) < n
    BY <1>1, Ranks
  <2> QED
    BY <1>2, <2>1
<1>4. \A x, y \in B : rank[x] = rank[y] => x = y
  BY <1>2, Ranks
<1> HIDE DEF B
<1>5. rank \in [B -> 0 .. n - 1]
  BY <1>3
<1> HIDE DEF rank
<1>6. rank \in Injection(B, 0 .. n - 1)
  BY <1>4, <1>5 DEF Injection, IsInjective
<1>7. IsFiniteSet(0 .. n - 1) /\ Cardinality(0 .. n - 1) = n
  BY FS_Interval
<1>8. Cardinality(B) <= n
  BY <1>6, <1>7, FS_Injection
<1>9. ASSUME S # {}, n # 0 PROVE B # {}
  <2>1. Cardinality(S) # 0
    BY <1>2, <1>9, FS_EmptySet
  <2>2. 0 \in 0 .. Cardinality(S) - 1
    BY <1>2, <2>1
  <2>3. PICK x \in S : Rank(q, S, x) = 0
    BY <2>2, Ranks
  <2> QED
    BY <1>1, <1>9, <2>3
<1> QED
  BY <1>2, <1>8, <1>9 DEF B

\* A list may be taken as one of a larger set, or with more room.
LEMMA ListGrows ==
    ASSUME NEW S, NEW T, S \subseteq T, NEW m \in Int, NEW n \in Int, m <= n, NEW list, IsList(list, S, m)
    PROVE  IsList(list, T, n)
<1>1. list \in Seq(T) /\ Len(list) \in Nat
  BY DEF IsList
<1> QED
  BY <1>1 DEF IsList

\* A set of numbers has a least one.
LEMMA LeastNat == ASSUME NEW T \in SUBSET Nat, T # {} PROVE \E x \in T : \A y \in T : x <= y
<1> DEFINE Less == {ss \in Nat \X Nat : ss[1] < ss[2]}
<1>1. IsWellFoundedOn(Less, Nat)
  BY NatLessThanWellFounded DEF OpToRel
<1>2. PICK x \in T : \A y \in T : ~(<<y, x>> \in Less)
  <2> HIDE DEF Less
  <2> QED
    BY <1>1, WFMin
<1>3. \A y \in T : ~(y < x)
  BY <1>2
<1> QED
  BY <1>3

\* A choice by those before: the recursive definition of Select has a function that meets it.
LEMMA ChoiceExists ==
    ASSUME NEW n \in Nat, NEW R
    PROVE  \E f : f = [i \in 1 .. n |-> \A j \in 1 .. i - 1 : f[j] => <<i, j>> \in R]
<1> DEFINE Meets(f, m) ==
               \A i \in 1 .. m : f[i] = (\A j \in 1 .. i - 1 : f[j] => <<i, j>> \in R)
           Fails == {m \in Nat : ~(\E f \in [1 .. m -> BOOLEAN] : Meets(f, m))}
<1>1. Fails = {}
  <2> SUFFICES ASSUME Fails # {} PROVE FALSE
    OBVIOUS
  <2>1. PICK m \in Fails : \A k \in Fails : m <= k
    BY LeastNat
  <2>2. m # 0
    <3>1. [i \in 1 .. 0 |-> TRUE] \in [1 .. 0 -> BOOLEAN] /\ Meets([i \in 1 .. 0 |-> TRUE], 0)
      OBVIOUS
    <3> QED
      BY <3>1
  <2>3. m \in Nat /\ m - 1 \in Nat /\ m - 1 \notin Fails
    <3>1. Fails \subseteq Nat
      OBVIOUS
    <3> HIDE DEF Fails
    <3> QED
      BY <2>1, <2>2, <3>1
  <2>4. PICK f \in [1 .. m - 1 -> BOOLEAN] : Meets(f, m - 1)
    BY <2>3
  <2> DEFINE last == \A j \in 1 .. m - 1 : f[j] => <<m, j>> \in R
             g == [i \in 1 .. m |-> IF i = m THEN last ELSE f[i]]
  <2>4a. last \in BOOLEAN /\ \A i \in 1 .. m : i # m => f[i] \in BOOLEAN
    BY <2>3, <2>4
  <2> HIDE DEF last, Fails, Meets
  <2>5. g \in [1 .. m -> BOOLEAN]
    BY <2>3, <2>4a
  <2>6. g[m] = last /\ \A i \in 1 .. m - 1 : g[i] = f[i]
    BY <2>3
  <2> HIDE DEF g
  <2>7. \A i \in 1 .. m : i = m \/ i \in 1 .. m - 1
    BY <2>3
  <2>8. \A i \in 1 .. m - 1 : \A j \in 1 .. i - 1 : j \in 1 .. m - 1
    BY <2>3
  <2>9. ASSUME NEW i \in 1 .. m PROVE g[i] = (\A j \in 1 .. i - 1 : g[j] => <<i, j>> \in R)
    <3>1. CASE i = m
      BY <2>6, <2>7, <2>8, <3>1 DEF last
    <3>2. CASE i \in 1 .. m - 1
      <4>1. f[i] = (\A j \in 1 .. i - 1 : f[j] => <<i, j>> \in R)
        BY <2>4, <3>2 DEF Meets
      <4>2. \A j \in 1 .. i - 1 : g[j] = f[j]
        BY <2>6, <2>8, <3>2
      <4> QED
        BY <2>6, <3>2, <4>1, <4>2
    <3> QED
      BY <2>7, <3>1, <3>2
  <2>10. Meets(g, m)
    BY <2>9 DEF Meets
  <2> QED
    BY <2>1, <2>5, <2>10 DEF Fails
<1>2. PICK f \in [1 .. n -> BOOLEAN] : Meets(f, n)
  BY <1>1
<1>3. f = [i \in 1 .. n |-> \A j \in 1 .. i - 1 : f[j] => <<i, j>> \in R]
  BY <1>2
<1> QED
  BY <1>3

\* The neighbour heuristic returns a list of its candidates, no longer than asked for and not empty when there are any.
LEMMA SelectIs ==
    ASSUME set \in Sets, NEW q \in Points, NEW S \in SUBSET AllPositions, NEW n \in Nat
    PROVE  /\ IsList(Select(q, S, n), S, n)
           /\ S # {} /\ n # 0 => Select(q, S, n) # <<>>
<1> DEFINE c == Ordered(q, S)
           R == {r \in (DOMAIN c) \X (DOMAIN c) : Key(set.at[c[r[1]]], set.at[c[r[2]]]) >= Key(q, set.at[c[r[1]]])}
           keeps == CHOOSE f : f = [i \in DOMAIN c |-> \A j \in 1 .. i - 1 :
                                       f[j] => Key(set.at[c[i]], set.at[c[j]]) >= Key(q, set.at[c[i]])]
           kept == {c[i] : i \in {j \in DOMAIN c : keeps[j]}}
<1>1. /\ IsList(c, S, Cardinality(S)) /\ Len(c) = Cardinality(S) /\ MembersOf(c) = S
      /\ DOMAIN c = 1 .. Cardinality(S) /\ Cardinality(S) \in Nat
  BY OrderedIs, Ranks DEF IsList
<1>2. kept \in SUBSET AllPositions /\ kept \subseteq S
  BY <1>1 DEF MembersOf
<1>3. Select(q, S, n) = IF Cardinality(S) < n THEN c ELSE Ordered(q, Best(q, kept, n))
  BY DEF Select
<1>4. S # {} => kept # {}
  <2> SUFFICES ASSUME S # {} PROVE kept # {}
    OBVIOUS
  <2>1. 1 \in DOMAIN c
    BY <1>1, Ranks, FS_EmptySet
  <2>2. PICK f : f = [i \in 1 .. Cardinality(S) |-> \A j \in 1 .. i - 1 : f[j] => <<i, j>> \in R]
    <3> HIDE DEF R
    <3> QED
      BY <1>1, ChoiceExists
  <2>3. \A i \in DOMAIN c : \A j \in 1 .. i - 1 :
           <<i, j>> \in R <=> Key(set.at[c[i]], set.at[c[j]]) >= Key(q, set.at[c[i]])
    <3>1. \A i \in DOMAIN c : \A j \in 1 .. i - 1 : j \in DOMAIN c
      BY <1>1
    <3> QED
      BY <3>1
  <2>4. f = [i \in DOMAIN c |-> \A j \in 1 .. i - 1 : f[j] => Key(set.at[c[i]], set.at[c[j]]) >= Key(q, set.at[c[i]])]
    BY <1>1, <2>2, <2>3
  <2>5. keeps = [i \in DOMAIN c |-> \A j \in 1 .. i - 1 :
                    keeps[j] => Key(set.at[c[i]], set.at[c[j]]) >= Key(q, set.at[c[i]])]
    BY <2>4
  <2>6. keeps[1]
    <3> HIDE DEF keeps
    <3>1. \A j \in 1 .. 1 - 1 : FALSE
      OBVIOUS
    <3> QED
      BY <2>1, <2>5, <3>1
  <2>7. c[1] \in kept
    BY <2>1, <2>6
  <2> QED
    BY <2>7
<1> HIDE DEF c, kept
<1>5. CASE Cardinality(S) < n
  <2>1. IsList(c, S, n)
    BY <1>1, <1>5, ListGrows
  <2>2. S # {} => c # <<>>
    BY <1>1, Ranks, FS_EmptySet
  <2> QED
    BY <1>3, <1>5, <2>1, <2>2
<1>6. CASE ~(Cardinality(S) < n)
  <2> DEFINE B == Best(q, kept, n)
  <2>1. /\ B \subseteq S /\ B \in SUBSET AllPositions /\ Cardinality(B) <= n
        /\ kept # {} /\ n # 0 => B # {}
    BY <1>2, BestIs
  <2> HIDE DEF B
  <2>2. IsList(Ordered(q, B), B, Cardinality(B)) /\ Len(Ordered(q, B)) = Cardinality(B)
    BY <2>1, OrderedIs
  <2>3. Cardinality(B) \in Nat /\ IsFiniteSet(B)
    BY <2>1, Ranks
  <2>4. IsList(Ordered(q, B), S, n)
    BY <2>1, <2>2, <2>3, ListGrows
  <2>5. B # {} => Ordered(q, B) # <<>>
    BY <2>2, <2>3, FS_EmptySet
  <2> QED
    BY <1>3, <1>4, <1>6, <2>1, <2>4, <2>5 DEF B
<1> QED
  BY <1>5, <1>6

------------------------------------------------------------------------------
(* Lists of links.                                                         *)

\* The members of a list of links.
LEMMA ListMembers ==
    ASSUME NEW S, NEW n \in Int, NEW list, IsList(list, S, n)
    PROVE  /\ MembersOf(list) \subseteq S
           /\ MembersOf(list) = {} <=> list = <<>>
           /\ \A T : MembersOf(list) \subseteq T => IsList(list, T, n)
<1>1. list \in Seq(S) /\ Len(list) \in Nat /\ DOMAIN list = 1 .. Len(list)
  BY DEF IsList
<1>2. \A i \in 1 .. Len(list) : list[i] \in S /\ list[i] \in MembersOf(list)
  BY <1>1 DEF MembersOf
<1>3. MembersOf(list) \subseteq S
  BY <1>1, <1>2 DEF MembersOf
<1>4. list # <<>> => 1 \in 1 .. Len(list)
  <2>1. list # <<>> => Len(list) # 0
    BY <1>1, EmptySeq
  <2> QED
    BY <1>1, <2>1
<1>5. (list # <<>> => MembersOf(list) # {}) /\ MembersOf(<<>>) = {}
  BY <1>1, <1>2, <1>4 DEF MembersOf
<1>6. ASSUME NEW T, MembersOf(list) \subseteq T PROVE IsList(list, T, n)
  <2>1. \A i \in 1 .. Len(list) : list[i] \in T
    BY <1>2, <1>6
  <2>2. list \in Seq(T)
    BY <1>1, <2>1
  <2> QED
    BY <2>2 DEF IsList
<1> QED
  BY <1>3, <1>5, <1>6

\* A list has as many members as it is long.
LEMMA ListCount ==
    ASSUME NEW S, NEW n \in Int, NEW list, IsList(list, S, n)
    PROVE  Cardinality(MembersOf(list)) = Len(list)
<1> DEFINE I == 1 .. Len(list)
           T == MembersOf(list)
           f == [i \in I |-> list[i]]
<1>1. Len(list) \in Nat /\ DOMAIN list = I /\ \A i, j \in I : list[i] = list[j] => i = j
  BY DEF IsList
<1>2. T = {list[i] : i \in I}
  BY <1>1 DEF MembersOf
<1>3. IsFiniteSet(I) /\ Cardinality(I) = Len(list)
  <2>1. \A k \in Nat : IsFiniteSet(1 .. k) /\ Cardinality(1 .. k) = k
    BY FS_Interval
  <2> QED
    BY <1>1, <2>1
<1> HIDE DEF I, T
<1>4. f \in [I -> T] /\ (\A i, j \in I : f[i] = f[j] => i = j) /\ \A x \in T : \E i \in I : f[i] = x
  BY <1>1, <1>2
<1> HIDE DEF f
<1>5. f \in Bijection(I, T)
  BY <1>4 DEF Bijection, Injection, IsInjective, Surjection
<1>6. ExistsBijection(I, T)
  BY <1>5 DEF ExistsBijection
<1>7. Cardinality(T) = Cardinality(I)
  BY <1>3, <1>6, FS_Bijection
<1> QED
  BY <1>3, <1>7 DEF T

\* A list with room takes a new member.
LEMMA ListAppends ==
    ASSUME NEW S, NEW n \in Int, NEW list, IsList(list, S, n), Len(list) < n, NEW p \in S, p \notin MembersOf(list)
    PROVE  /\ IsList(Append(list, p), S, n) /\ Append(list, p) # <<>>
           /\ MembersOf(Append(list, p)) \subseteq MembersOf(list) \cup {p}
<1> DEFINE new == Append(list, p)
<1>1. list \in Seq(S) /\ Len(list) \in Nat /\ DOMAIN list = 1 .. Len(list)
  BY DEF IsList
<1>2. new \in Seq(S) /\ Len(new) = Len(list) + 1 /\ new # <<>> /\ DOMAIN new = 1 .. Len(list) + 1
  BY <1>1
<1>3. \A i \in 1 .. Len(list) + 1 : i = Len(list) + 1 \/ i \in 1 .. Len(list)
  BY <1>1
<1>4. new[Len(list) + 1] = p /\ \A i \in 1 .. Len(list) : new[i] = list[i]
  BY <1>1
<1>5. \A i \in 1 .. Len(list) : list[i] \in MembersOf(list) /\ list[i] # p
  BY <1>1 DEF MembersOf
<1> HIDE DEF new
<1>6. \A i, j \in 1 .. Len(list) : list[i] = list[j] => i = j
  BY DEF IsList
<1>7. \A i, j \in 1 .. Len(list) + 1 : new[i] = new[j] => i = j
  BY <1>3, <1>4, <1>5, <1>6
<1>8. MembersOf(new) \subseteq MembersOf(list) \cup {p}
  BY <1>2, <1>3, <1>4, <1>5 DEF MembersOf
<1>9. Len(new) <= n
  BY <1>1, <1>2
<1> DEFINE m == Len(list) + 1
<1>10. \A i, j \in 1 .. m : new[i] = new[j] => i = j
  BY <1>7
<1>11. Len(new) = m
  BY <1>2
<1> HIDE DEF m
<1>12. IsList(new, S, n)
  BY <1>2, <1>9, <1>10, <1>11 DEF IsList
<1> QED
  BY <1>2, <1>8, <1>12 DEF new

\* A new member takes the place of another one.
LEMMA ListReplaces ==
    ASSUME NEW S, NEW n \in Int, NEW list, IsList(list, S, n), NEW p \in S, p \notin MembersOf(list), NEW k
    PROVE  /\ IsList([list EXCEPT ![k] = p], S, n)
           /\ list # <<>> => [list EXCEPT ![k] = p] # <<>>
           /\ MembersOf([list EXCEPT ![k] = p]) \subseteq MembersOf(list) \cup {p}
<1> DEFINE new == [list EXCEPT ![k] = p]
<1>1. list \in Seq(S) /\ Len(list) \in Nat /\ DOMAIN list = 1 .. Len(list)
  BY DEF IsList
<1>2. DOMAIN new = 1 .. Len(list) /\ \A i \in 1 .. Len(list) : new[i] = IF i = k THEN p ELSE list[i]
  BY <1>1
<1>3. \A i \in 1 .. Len(list) : list[i] \in S /\ list[i] \in MembersOf(list) /\ list[i] # p
  BY <1>1 DEF MembersOf
<1>4. new \in [1 .. Len(list) -> S]
  BY <1>1, <1>3
<1> HIDE DEF new
<1>5. new \in Seq(S) /\ Len(new) = Len(list)
  BY <1>1, <1>4
<1>6. \A i, j \in 1 .. Len(list) : list[i] = list[j] => i = j
  BY DEF IsList
<1>7. \A i, j \in 1 .. Len(list) : new[i] = new[j] => i = j
  BY <1>2, <1>3, <1>6
<1>8. MembersOf(new) \subseteq MembersOf(list) \cup {p}
  BY <1>2, <1>3 DEF MembersOf
<1>9. list # <<>> => new # <<>>
  BY <1>1, <1>5
<1>10. Len(list) <= n
  BY DEF IsList
<1>11. IsList(new, S, n)
  BY <1>5, <1>7, <1>10 DEF IsList
<1> QED
  BY <1>8, <1>9, <1>11 DEF new

\* connect() leaves the list of a neighbour a list of what it held and the new node, within its room.
LEMMA WithLinkIs ==
    ASSUME set \in Sets, NEW nb \in AllPositions, NEW S \in SUBSET AllPositions, NEW n \in Nat \ {0},
           NEW list, IsList(list, S, n), NEW p \in S
    PROVE  IsList(WithLink(list, nb, p, n), S, n) /\ WithLink(list, nb, p, n) # <<>>
<1>1. CASE p \in MembersOf(list)
  BY <1>1, ListMembers DEF WithLink
<1>2. CASE p \notin MembersOf(list) /\ Len(list) < n
  BY <1>2, ListAppends DEF WithLink
<1>3. CASE p \notin MembersOf(list) /\ ~(Len(list) < n)
  <2> DEFINE T == MembersOf(list) \cup {p}
             q == set.at[nb]
  <2>1. T \subseteq S /\ T \in SUBSET AllPositions /\ T # {} /\ q \in Points
    BY ListMembers, SetTypes
  <2>2. WithLink(list, nb, p, n) = Select(q, T, n)
    BY <1>3 DEF WithLink
  <2> HIDE DEF T, q
  <2>3. IsList(Select(q, T, n), T, n) /\ Select(q, T, n) # <<>>
    BY <2>1, SelectIs
  <2> QED
    BY <2>1, <2>2, <2>3, ListGrows
<1> QED
  BY <1>1, <1>2, <1>3

\* A move on an upper level leads to cur or to a neighbour of it.
LEMMA MoveIs ==
    ASSUME set \in Sets, NEW q \in Points, NEW V \in SUBSET AllPositions, NEW cur \in V,
           NEW list, MembersOf(list) \subseteq V
    PROVE  MoveOf(q, cur, list) \in V
<1> DEFINE S == {cur} \cup MembersOf(list)
<1>1. S \in SUBSET AllPositions /\ S # {} /\ S \subseteq V
  OBVIOUS
<1>2. MoveOf(q, cur, list) = Nearest(q, S)
  BY DEF MoveOf
<1> HIDE DEF S
<1> QED
  BY <1>1, <1>2, NearestIn

Beams == [cand : SUBSET Nat, top : SUBSET Nat, seen : SUBSET Nat]

\* The links of a level do not lead out of V.
Shut(V, l) == \A c \in V : MembersOf(links[c][l]) \subseteq V

\* A beam after a step: it stays within V, once something is kept something is, and a position without links
\* leads nowhere.
Expanded(b, e, l, V) ==
    /\ e \in Beams /\ e.cand \subseteq V /\ e.top \subseteq V /\ b.seen \subseteq e.seen
    /\ b.top # {} => e.top # {}
    /\ \A c : b.cand = {c} /\ MembersOf(links[c][l]) = {} => e.cand = {}

\* A step of a search gives such a beam.
LEMMA ExpandIs ==
    ASSUME set \in Sets, NEW q \in Points, NEW V \in SUBSET AllPositions, NEW b \in Beams, NEW ef \in Nat \ {0},
           NEW keep, NEW l, b.cand # {}, b.cand \subseteq V, b.top \subseteq V, Shut(V, l)
    PROVE  Expanded(b, Expand(b, q, ef, keep, l), l, V)
<1> DEFINE c == Nearest(q, b.cand)
           list == links[c][l]
           fresh == {i \in DOMAIN list : list[i] \notin b.seen}
           before(i) == b.top \cup (keep \cap {list[j] : j \in {k \in fresh : k < i}})
           near == {i \in fresh : Cardinality({y \in before(i) : Nearer(q, y, list[i])}) < ef}
           found == {list[i] : i \in fresh}
           far == {list[i] : i \in near}
           kept == b.top \cup (keep \cap found)
<1>1. c \in b.cand /\ c \in V
  BY NearestIn
<1>2. fresh \subseteq DOMAIN list /\ near \subseteq fresh
  OBVIOUS
<1>3. Expand(b, q, ef, keep, l) =
          [cand |-> (b.cand \ {c}) \cup far, top |-> Best(q, kept, ef), seen |-> b.seen \cup found]
  BY DEF Expand
<1> HIDE DEF near, fresh
<1>4. found \subseteq MembersOf(list) /\ far \subseteq MembersOf(list) /\ MembersOf(list) \subseteq V
  BY <1>1, <1>2 DEF MembersOf, Shut
<1> HIDE DEF found, far, list, c
<1>5. kept \in SUBSET AllPositions /\ kept \subseteq V /\ b.top \subseteq kept
  BY <1>4
<1> HIDE DEF kept
<1>6. Best(q, kept, ef) \subseteq kept /\ (kept # {} => Best(q, kept, ef) # {})
  BY <1>5, BestIs
<1>7. AllPositions \subseteq Nat
  BY SetTypes
<1>8. ASSUME NEW x, b.cand = {x}, MembersOf(links[x][l]) = {} PROVE (b.cand \ {c}) \cup far = {}
  <2>1. c = x
    BY <1>1, <1>8
  <2>2. MembersOf(list) = {}
    BY <1>8, <2>1 DEF list
  <2> QED
    BY <1>4, <1>8, <2>1, <2>2
<1> DEFINE e == Expand(b, q, ef, keep, l)
<1>9. e.cand = (b.cand \ {c}) \cup far /\ e.top = Best(q, kept, ef) /\ e.seen = b.seen \cup found
  BY <1>3
<1>10. e.cand \subseteq V /\ e.top \subseteq V /\ e.seen \subseteq Nat
  BY <1>4, <1>5, <1>6, <1>7, <1>9 DEF Beams
<1>11. e \in Beams
  BY <1>3, <1>7, <1>9, <1>10 DEF Beams
<1>12. b.top # {} => e.top # {}
  BY <1>5, <1>6, <1>9
<1>13. \A x : b.cand = {x} /\ MembersOf(links[x][l]) = {} => e.cand = {}
  BY <1>8, <1>9
<1> HIDE DEF e
<1>14. b.seen \subseteq e.seen
  BY <1>9
<1> QED
  BY <1>10, <1>11, <1>12, <1>13, <1>14 DEF e, Expanded

\* A walk stays within a set closed under the links of level 0, and what it visits is closed under them.
LEMMA WalkedIs ==
    ASSUME NEW graph, NEW seen, NEW todo, NEW P \in SUBSET AllPositions, todo \subseteq P,
           \A x \in P : MembersOf(graph[x][0]) \subseteq P
    PROVE  /\ Walked(graph, seen, todo) \subseteq seen \cup P /\ seen \subseteq Walked(graph, seen, todo)
           /\ todo \subseteq Walked(graph, seen, todo)
           /\ \A x \in Walked(graph, seen, todo) \ seen : MembersOf(graph[x][0]) \subseteq Walked(graph, seen, todo)
<1> DEFINE Closed(S) == todo \ seen \subseteq S /\ \A x \in S : MembersOf(graph[x][0]) \ seen \subseteq S
           W == {x \in AllPositions : \A S \in {T \in SUBSET AllPositions : Closed(T)} : x \in S}
<1>1. Walked(graph, seen, todo) = seen \cup W
  BY DEF Walked
<1>2. Closed(P)
  OBVIOUS
<1>3. W \subseteq P
  BY <1>2
<1>4. ASSUME NEW x \in W, NEW y \in MembersOf(graph[x][0]), y \notin seen PROVE y \in W
  <2>1. y \in AllPositions
    BY <1>3
  <2>2. \A S \in {T \in SUBSET AllPositions : Closed(T)} : y \in S
    BY <1>4
  <2> QED
    BY <2>1, <2>2
<1>7. todo \subseteq seen \cup W
  OBVIOUS
<1> HIDE DEF W
<1>5. seen \cup W \subseteq seen \cup P
  BY <1>3
<1>6. \A x \in (seen \cup W) \ seen : MembersOf(graph[x][0]) \subseteq seen \cup W
  BY <1>4
<1> QED
  BY <1>1, <1>5, <1>6, <1>7

------------------------------------------------------------------------------
(* The invariant of a concurrent build.                                    *)

Building == stage \in {"build", "extend"}
\* Where the ranges that nobody took yet begin.
Front == First + next * RangeSize
Levels(p) == 0 .. set.level[p]

\* What a thread is when it inserts, and the levels on which its node is linked to.
Active(r) == r.pc \in {"start", "greedy", "search", "own", "back"}
Linked(r) == IF r.pc = "back" THEN 0 .. r.level ELSE IF r.pc = "own" THEN 0 .. r.level - 1 ELSE {}

\* A thread hides what it has still to insert, and its node on the levels where it is not linked.
Hides(r, x, l) == Active(r) /\ r.p <= x /\ x < r.upto /\ (x = r.p => l \notin Linked(r))
Owns(r, x) == Active(r) /\ r.p <= x /\ x < r.upto
Pending(x) == (Building /\ x >= Front) \/ \E t \in Threads : Owns(thread[t], x)
Hidden(x, l) == x >= count \/ (Building /\ x >= Front) \/ \E t \in Threads : Hides(thread[t], x, l)
\* The nodes that a list of links may hold on a level.
Visible(l) == {x \in Positions : l <= set.level[x] /\ ~Hidden(x, l)}

Picks == {<<>>} \cup UNION {[0 .. k -> Seq(Nat)] : k \in Nat}
Frames == [pc : {"take", "start", "greedy", "search", "own", "back", "ended"}, p : Nat, upto : Nat, level : Nat,
           cur : Nat, beam : Beams, sel : Picks, i : Nat]

Typed ==
    /\ set \in Sets /\ count \in 1 .. Cardinality(AllPositions) /\ dead \subseteq Positions
    /\ entry \in Positions /\ top \in Int /\ top >= -1
    /\ lock \in Threads \cup {NoThread} /\ next \in Nat /\ cutoff \in {"no", "cancelled", "error"}
    /\ thread \in [Threads -> Frames]
    /\ repair \in [pass : Nat, p : Nat, seen : SUBSET Nat, made : Nat, last : Int]
    /\ stage \in {"build", "repair", "built", "extend", "repair again", "extended", "refused"}

\* A list holds nodes that are visible on its level, and a hidden node has no links yet.
GraphOK ==
    /\ DOMAIN links = AllPositions
    /\ \A p \in AllPositions :
          /\ DOMAIN links[p] = Levels(p)
          /\ \A l \in Levels(p) :
                /\ IsList(links[p][l], Visible(l) \ {p}, Capacity(l))
                /\ Hidden(p, l) => links[p][l] = <<>>

\* What an insert knows: where it is, what it has chosen, and that all of it is visible.
FrameOK(r) ==
    Active(r) =>
        /\ r.p \in Positions /\ r.p < r.upto /\ r.upto <= count /\ r.upto <= Front
        /\ r.pc # "start" =>
              /\ \E k \in Levels(r.p) : DOMAIN r.sel = 0 .. k
              /\ \A l \in DOMAIN r.sel : IsList(r.sel[l], Visible(l) \ {r.p}, M)
        /\ r.pc = "greedy" =>
              /\ r.level > set.level[r.p] /\ DOMAIN r.sel = Levels(r.p)
              /\ r.cur \in Visible(r.level) \ {r.p}
        /\ r.pc = "search" =>
              /\ r.level \in DOMAIN r.sel /\ r.cur \in Visible(r.level) \ {r.p}
              /\ r.beam.cand # {} /\ r.beam.cand \cup r.beam.top \subseteq Visible(r.level) \ {r.p}
        /\ r.pc \in {"own", "back"} => r.level \in DOMAIN r.sel
        /\ r.pc = "back" => r.i >= 1
ThreadsOK == \A t \in Threads : FrameOK(thread[t])

\* No position is in two threads' hands.
Disjoint ==
    \A t, u \in Threads :
        t # u /\ Active(thread[t]) /\ Active(thread[u]) =>
            thread[t].upto <= thread[u].p \/ thread[u].upto <= thread[t].p

\* The entry point is a node that is in, on the top level; before there is one, only the caller inserts.
EntryOK ==
    /\ top >= 0 => set.level[entry] = top /\ ~Pending(entry)
    /\ top < 0 =>
          /\ stage \in {"build", "refused"}
          /\ \A t \in Threads :
                Active(thread[t]) =>
                    t = Caller /\ thread[t].pc = "start" /\ thread[t].p = 0 /\ thread[t].upto = 1
          /\ cutoff = "no" => thread[Caller].pc = "start"

\* The global lock is held by the one insert whose node goes above the top level.
LockOK ==
    \A t \in Threads :
        /\ lock = t => /\ Active(thread[t]) /\ thread[t].pc # "start"
                       /\ top >= 0 /\ set.level[thread[t].p] > top
        /\ Active(thread[t]) /\ thread[t].pc # "start" /\ lock # t => set.level[thread[t].p] <= top

\* Unless the build is cut off, no position is skipped: those not pending are in, none above the top level.
Tops ==
    cutoff = "no" =>
        /\ \A p \in Positions : set.level[p] <= top \/ Pending(p)
        /\ Building /\ thread[Caller].pc = "ended" => Front >= count

Stages ==
    /\ ~Building => \A t \in Threads : thread[t].pc = "ended"
    /\ stage \in {"repair", "built", "extend", "repair again", "extended"} => top >= 0
    /\ stage \in {"repair", "built", "repair again", "extended"} => cutoff = "no"
    /\ stage \in {"build", "repair", "built"} => count = set.base /\ dead = {}
    /\ stage \in {"extend", "repair again", "extended"} => count = Cardinality(AllPositions)
    /\ count \in {set.base, Cardinality(AllPositions)}

\* What the repair has reached is closed under the links of level 0.
RepairOK ==
    stage \in {"repair", "repair again"} =>
        repair.seen \subseteq Positions /\ \A x \in repair.seen : MembersOf(links[x][0]) \subseteq repair.seen

Inv == Typed /\ GraphOK /\ ThreadsOK /\ Disjoint /\ EntryOK /\ LockOK /\ Tops /\ Stages /\ RepairOK

------------------------------------------------------------------------------
(* What no step takes back: nothing becomes hidden again.                  *)

\* A thread goes on with the insert, or with the rest of its range.
Follows(old, new) ==
    Active(new) => /\ Active(old) /\ new.upto = old.upto /\ old.p <= new.p
                   /\ new.p = old.p => Linked(old) \subseteq Linked(new)

Advance ==
    /\ set' = set /\ count' = count
    /\ Building' => Building /\ (Front' >= Front \/ Front' >= count)
    /\ \A t \in Threads : Follows(thread[t], thread'[t])

\* What a step leaves to the others: positions may be added, but none becomes hidden.
Grows ==
    /\ set' = set /\ count' >= count
    /\ Building' => Front' >= Front \/ Front' >= count
    /\ \A x \in AllPositions : \A l : Hidden(x, l)' => Hidden(x, l)

\* Where the untaken ranges begin is a number.
LEMMA FrontType == Typed => First \in Nat /\ Front \in Nat /\ next * RangeSize \in Nat
<1> SUFFICES ASSUME Typed PROVE First \in Nat /\ Front \in Nat /\ next * RangeSize \in Nat
  OBVIOUS
<1>1. next \in Nat /\ RangeSize \in Nat /\ set.base \in Nat
  <2>1. set \in Sets /\ next \in Nat
    BY DEF Typed
  <2>2. set.base \in 1 .. Cardinality(AllPositions) /\ Cardinality(AllPositions) \in Nat
    BY <2>1, SetTypes
  <2> QED
    BY <2>1, <2>2, GraphConstants
<1>2. \A a, b \in Nat : a * b \in Nat
  OBVIOUS
<1>3. First \in Nat
  BY <1>1 DEF First
<1> QED
  BY <1>1, <1>2, <1>3 DEF Front

\* The positions of a state.
LEMMA PositionTypes ==
    ASSUME Typed
    PROVE  /\ Positions \subseteq AllPositions /\ AllPositions \subseteq Nat /\ count \in Nat \ {0}
           /\ \A x \in AllPositions : set.level[x] \in Nat /\ set.at[x] \in Points
           /\ \A l : Visible(l) \subseteq Positions
           /\ \A t \in Threads : thread[t] \in Frames
<1>1. count \in Nat \ {0} /\ AllPositions = 0 .. Cardinality(AllPositions) - 1 /\ count <= Cardinality(AllPositions)
  <2>1. set \in Sets /\ count \in 1 .. Cardinality(AllPositions)
    BY DEF Typed
  <2>2. Cardinality(AllPositions) \in Nat /\ AllPositions = 0 .. Cardinality(AllPositions) - 1
    BY <2>1, SetTypes
  <2> QED
    BY <2>1, <2>2
<1>2. Cardinality(AllPositions) \in Nat
  BY SetTypes DEF Typed
<1> DEFINE n == Cardinality(AllPositions)
<1>3. Positions \subseteq AllPositions /\ AllPositions \subseteq Nat
  <2> n \in Nat /\ AllPositions = 0 .. n - 1 /\ count <= n
    BY <1>1, <1>2
  <2> HIDE DEF n
  <2> QED
    BY <1>1 DEF Positions
<1>4. \A x \in AllPositions : set.level[x] \in Nat /\ set.at[x] \in Points
  BY SetTypes DEF Typed
<1>5. \A l : Visible(l) \subseteq Positions
  BY DEF Visible
<1>6. \A t \in Threads : thread[t] \in Frames
  BY DEF Typed
<1> QED
  BY <1>1, <1>3, <1>4, <1>5, <1>6

\* The positions of the next state.
LEMMA PositionTypesNext ==
    ASSUME Typed'
    PROVE  (/\ Positions \subseteq AllPositions /\ AllPositions \subseteq Nat /\ count \in Nat \ {0}
            /\ \A x \in AllPositions : set.level[x] \in Nat /\ set.at[x] \in Points
            /\ \A l : Visible(l) \subseteq Positions
            /\ \A t \in Threads : thread[t] \in Frames)'
BY PositionTypes, PTL

\* The same of the next state.
LEMMA FrontTypeNext == Typed' => (First \in Nat /\ Front \in Nat /\ next * RangeSize \in Nat)'
BY FrontType, PTL

\* What is visible stays visible.
LEMMA Grown ==
    ASSUME Typed, Typed', Grows
    PROVE  /\ Positions \subseteq Positions' /\ AllPositions' = AllPositions /\ set' = set
           /\ \A x \in AllPositions : set'.level[x] = set.level[x] /\ Levels(x)' = Levels(x)
           /\ \A x \in AllPositions : \A l : Hidden(x, l)' => Hidden(x, l)
           /\ \A l : Visible(l) \subseteq Visible(l)'
<1>1. AllPositions' = AllPositions /\ set' = set /\ count' >= count /\ count \in Nat /\ count' \in Nat
  <2>1. AllPositions' = AllPositions /\ set' = set /\ count' >= count
    BY DEF Grows, AllPositions
  <2>2. count \in Nat /\ count' \in Nat
    BY PositionTypes, PositionTypesNext
  <2> QED
    BY <2>1, <2>2
<1>2. Positions \subseteq Positions' /\ Positions \subseteq AllPositions
  <2>1. \A a, b \in Nat : b >= a => 0 .. a - 1 \subseteq 0 .. b - 1
    OBVIOUS
  <2>2. Positions \subseteq Positions'
    BY <1>1, <2>1 DEF Positions
  <2> QED
    BY <2>2, PositionTypes
<1>3. \A x \in AllPositions : set'.level[x] = set.level[x] /\ Levels(x)' = Levels(x)
  BY <1>1 DEF Levels
<1>4. \A x \in AllPositions : \A l : Hidden(x, l)' => Hidden(x, l)
  BY DEF Grows
<1>5. \A l : Visible(l) \subseteq Visible(l)'
  BY <1>1, <1>2, <1>4 DEF Visible
<1> QED
  BY <1>1, <1>2, <1>3, <1>4, <1>5

\* When the threads advance, what is visible stays visible, and their ranges stay apart.
LEMMA Advances ==
    ASSUME Typed, Typed', Advance
    PROVE  /\ Positions' = Positions /\ AllPositions' = AllPositions
           /\ \A x \in AllPositions : set'.level[x] = set.level[x] /\ Levels(x)' = Levels(x)
           /\ \A x \in Positions : Pending(x)' => Pending(x)
           /\ \A x \in AllPositions : \A l : Hidden(x, l)' => Hidden(x, l)
           /\ \A l : Visible(l) \subseteq Visible(l)'
           /\ Grows /\ (Disjoint => Disjoint')
<1>1. Positions' = Positions /\ AllPositions' = AllPositions /\ set' = set /\ count' = count
  BY DEF Advance, Positions, AllPositions
<1>2. \A x \in AllPositions : set'.level[x] = set.level[x] /\ Levels(x)' = Levels(x)
  BY <1>1 DEF Levels
<1>3. \A t \in Threads : /\ thread[t].p \in Nat /\ thread'[t].p \in Nat
                         /\ thread[t].upto \in Nat /\ thread'[t].upto \in Nat
  BY PositionTypes, PositionTypesNext DEF Frames
<1>4. AllPositions \subseteq Nat /\ count \in Nat /\ Front \in Nat /\ Front' \in Nat /\ Positions \subseteq AllPositions
  BY PositionTypes, FrontType, FrontTypeNext
<1>5. ASSUME NEW x \in AllPositions, NEW t \in Threads, Owns(thread'[t], x)
      PROVE  Owns(thread[t], x)
  <2>1. Follows(thread[t], thread'[t])
    BY DEF Advance
  <2> QED
    BY <1>3, <1>4, <1>5, <2>1 DEF Owns, Follows
<1>6. ASSUME NEW x \in AllPositions, NEW l, NEW t \in Threads, Hides(thread'[t], x, l)
      PROVE  Hides(thread[t], x, l)
  <2>1. Follows(thread[t], thread'[t])
    BY DEF Advance
  <2> QED
    BY <1>3, <1>4, <1>6, <2>1 DEF Hides, Follows
<1>7. \A x \in Positions : x < count /\ x \in Nat
  BY <1>4 DEF Positions
<1>8. \A x \in Positions : Pending(x)' => Pending(x)
  BY <1>1, <1>4, <1>5, <1>7 DEF Pending, Advance
<1>9. \A x \in AllPositions : \A l : Hidden(x, l)' => Hidden(x, l)
  BY <1>1, <1>4, <1>6 DEF Hidden, Advance
<1>10. \A l : Visible(l) \subseteq Visible(l)'
  BY <1>1, <1>2, <1>4, <1>9 DEF Visible
<1>11. ASSUME Disjoint PROVE Disjoint'
  BY <1>3, <1>11 DEF Disjoint, Advance, Follows
<1>12. Grows
  <2>1. count' >= count /\ (Building' => Front' >= Front \/ Front' >= count)
    BY <1>1, <1>4 DEF Advance
  <2> QED
    BY <1>1, <1>9, <2>1 DEF Grows
<1> QED
  BY <1>1, <1>2, <1>8, <1>9, <1>10, <1>11, <1>12

\* A node that is visible on a level is visible on the ones below.
LEMMA VisibleBelow ==
    ASSUME Typed, NEW k \in Nat, NEW l \in 0 .. k
    PROVE  Visible(k) \subseteq Visible(l)
<1>1. ASSUME NEW x \in Positions, Hidden(x, l) PROVE Hidden(x, k)
  <2>1. \A t \in Threads : Hides(thread[t], x, l) => Hides(thread[t], x, k)
    <3> TAKE t \in Threads
    <3>1. thread[t].level \in Nat
      BY PositionTypes DEF Frames
    <3>2. l \notin Linked(thread[t]) => k \notin Linked(thread[t])
      BY <3>1 DEF Linked
    <3> QED
      BY <3>2 DEF Hides
  <2> QED
    BY <1>1, <2>1 DEF Hidden
<1>2. \A x \in Positions : set.level[x] \in Nat
  BY PositionTypes
<1> QED
  BY <1>1, <1>2 DEF Visible

\* Every list has room for something.
LEMMA CapacityType == \A l : Capacity(l) \in Nat \ {0}
BY GraphConstants DEF Capacity

\* The lists stay in order when no list changes.
LEMMA GraphKept ==
    ASSUME Typed, Typed', Grows, GraphOK, links' = links
    PROVE  GraphOK'
<1>1. /\ DOMAIN links' = AllPositions'
      /\ \A p \in AllPositions' : DOMAIN links'[p] = Levels(p)'
  BY Grown DEF GraphOK
<1>2. ASSUME NEW p \in AllPositions', NEW l \in Levels(p)'
      PROVE  IsList(links'[p][l], Visible(l)' \ {p}, Capacity(l)) /\ (Hidden(p, l)' => links'[p][l] = <<>>)
  <2>1. p \in AllPositions /\ l \in Levels(p)
    BY <1>2, Grown
  <2>2. IsList(links[p][l], Visible(l) \ {p}, Capacity(l)) /\ (Hidden(p, l) => links[p][l] = <<>>)
    BY <2>1 DEF GraphOK
  <2>3. Visible(l) \ {p} \subseteq Visible(l)' \ {p} /\ (Hidden(p, l)' => Hidden(p, l))
    BY <2>1, Grown
  <2> QED
    BY <2>2, <2>3, ListGrows, CapacityType
<1> QED
  BY <1>1, <1>2 DEF GraphOK, Capacity

\* Writing one list.
LEMMA ListWritten ==
    ASSUME Typed, GraphOK, NEW a \in AllPositions, NEW b \in Levels(a), NEW v, links' = [links EXCEPT ![a][b] = v]
    PROVE  /\ DOMAIN links' = AllPositions
           /\ \A p \in AllPositions : DOMAIN links'[p] = Levels(p)
           /\ \A p \in AllPositions : \A l \in Levels(p) : links'[p][l] = IF p = a /\ l = b THEN v ELSE links[p][l]
<1>1. DOMAIN links = AllPositions /\ \A p \in AllPositions : DOMAIN links[p] = Levels(p)
  BY DEF GraphOK
<1>2. links' = [links EXCEPT ![a] = [links[a] EXCEPT ![b] = v]]
  OBVIOUS
<1>3. DOMAIN links' = AllPositions
  BY <1>1, <1>2
<1>4. links'[a] = [links[a] EXCEPT ![b] = v] /\ \A p \in AllPositions : p # a => links'[p] = links[p]
  BY <1>1, <1>2
<1>5. DOMAIN links'[a] = Levels(a) /\ \A l \in Levels(a) : links'[a][l] = IF l = b THEN v ELSE links[a][l]
  BY <1>1, <1>4
<1> QED
  BY <1>1, <1>3, <1>4, <1>5

\* The lists stay in order when a visible node gets a list of visible ones.
LEMMA GraphWritten ==
    ASSUME Typed, Typed', Grows, GraphOK, NEW a \in AllPositions, NEW b \in Levels(a), NEW v,
           links' = [links EXCEPT ![a][b] = v],
           IsList(v, Visible(b)' \ {a}, Capacity(b)), ~Hidden(a, b)'
    PROVE  GraphOK'
<1>1. /\ DOMAIN links' = AllPositions'
      /\ \A p \in AllPositions' : DOMAIN links'[p] = Levels(p)'
  BY Grown, ListWritten
<1>2. ASSUME NEW p \in AllPositions', NEW l \in Levels(p)'
      PROVE  IsList(links'[p][l], Visible(l)' \ {p}, Capacity(l)) /\ (Hidden(p, l)' => links'[p][l] = <<>>)
  <2>1. p \in AllPositions /\ l \in Levels(p)
    BY <1>2, Grown
  <2>2. IsList(links[p][l], Visible(l) \ {p}, Capacity(l)) /\ (Hidden(p, l) => links[p][l] = <<>>)
    BY <2>1 DEF GraphOK
  <2>3. Visible(l) \ {p} \subseteq Visible(l)' \ {p} /\ (Hidden(p, l)' => Hidden(p, l))
    BY <2>1, Grown
  <2>4. links'[p][l] = IF p = a /\ l = b THEN v ELSE links[p][l]
    BY <2>1, ListWritten
  <2>5. CASE p = a /\ l = b
    BY <2>4, <2>5
  <2>6. CASE ~(p = a /\ l = b)
    BY <2>2, <2>3, <2>4, <2>6, ListGrows, CapacityType
  <2> QED
    BY <2>5, <2>6
<1> QED
  BY <1>1, <1>2 DEF GraphOK, Capacity

\* What a thread knows stays true while others go on.
LEMMA FrameKept ==
    ASSUME Typed, Typed', Grows, Building', NEW r \in Frames, FrameOK(r)
    PROVE  FrameOK(r)'
<1> SUFFICES ASSUME Active(r) PROVE FrameOK(r)'
  BY DEF FrameOK, Active
<1>1. r.p \in AllPositions /\ r.upto \in Nat /\ r.level \in Nat
  BY PositionTypes DEF FrameOK, Frames
<1>2. Front \in Nat /\ Front' \in Nat /\ count \in Nat /\ count' \in Nat /\ count' >= count
  BY FrontType, FrontTypeNext, PositionTypes, PositionTypesNext DEF Grows
<1>3. r.upto <= Front' /\ r.p \in Positions' /\ r.p < r.upto /\ r.upto <= count'
  BY <1>1, <1>2, Grown DEF FrameOK, Grows
<1>4. /\ Levels(r.p)' = Levels(r.p) /\ set'.level[r.p] = set.level[r.p]
      /\ \A l : Visible(l) \ {r.p} \subseteq Visible(l)' \ {r.p}
  BY <1>1, Grown
<1>5. M \in Int
  BY GraphConstants
<1>6. \A l : IsList(r.sel[l], Visible(l) \ {r.p}, M) => IsList(r.sel[l], Visible(l)' \ {r.p}, M)
  BY <1>4, <1>5, ListGrows
<1>7. r.pc # "start" =>
          /\ \E k \in Levels(r.p)' : DOMAIN r.sel = 0 .. k
          /\ \A l \in DOMAIN r.sel : IsList(r.sel[l], Visible(l)' \ {r.p}, M)
  BY <1>4, <1>6 DEF FrameOK
<1>8. r.pc = "greedy" =>
          /\ r.level > set'.level[r.p] /\ DOMAIN r.sel = Levels(r.p)'
          /\ r.cur \in Visible(r.level)' \ {r.p}
  BY <1>4 DEF FrameOK
<1>9. r.pc = "search" =>
          /\ r.level \in DOMAIN r.sel /\ r.cur \in Visible(r.level)' \ {r.p}
          /\ r.beam.cand # {} /\ r.beam.cand \cup r.beam.top \subseteq Visible(r.level)' \ {r.p}
  BY <1>4 DEF FrameOK
<1>10. (r.pc \in {"own", "back"} => r.level \in DOMAIN r.sel) /\ (r.pc = "back" => r.i >= 1)
  BY DEF FrameOK
<1> QED
  BY <1>3, <1>7, <1>8, <1>9, <1>10 DEF FrameOK

\* The other threads' frames stay right when one thread goes on and no position becomes hidden.
LEMMA FramesMove ==
    ASSUME Typed, Typed', Grows, Building', ThreadsOK, NEW t \in Threads, NEW new,
           thread' = [thread EXCEPT ![t] = new], FrameOK(new)'
    PROVE  ThreadsOK'
<1>1. \A u \in Threads : thread[u] \in Frames /\ FrameOK(thread[u])
  BY PositionTypes DEF ThreadsOK
<1>2. ASSUME NEW u \in Threads, u # t PROVE FrameOK(thread[u])'
  <2>1. thread'[u] = thread[u]
    BY <1>2 DEF Typed
  <2>2. PICK r \in Frames : r = thread[u]
    BY <1>1
  <2>3. FrameOK(r)'
    BY <1>1, <2>2, FrameKept
  <2> QED
    BY <2>1, <2>2, <2>3 DEF FrameOK, Active
<1>3. FrameOK(thread[t])'
  <2>1. thread'[t] = new
    BY DEF Typed
  <2> QED
    BY <2>1 DEF FrameOK, Active
<1> QED
  BY <1>2, <1>3 DEF ThreadsOK

\* When no thread changes.
LEMMA FramesKept ==
    ASSUME Typed, Typed', Grows, Building', ThreadsOK, thread' = thread
    PROVE  ThreadsOK'
<1>1. \A u \in Threads : thread[u] \in Frames /\ FrameOK(thread[u])
  BY PositionTypes DEF ThreadsOK
<1>2. ASSUME NEW u \in Threads PROVE FrameOK(thread[u])'
  <2>1. PICK r \in Frames : r = thread[u]
    BY <1>1
  <2>2. FrameOK(r)'
    BY <1>1, <2>1, FrameKept
  <2> QED
    BY <2>1, <2>2 DEF FrameOK, Active
<1> QED
  BY <1>2 DEF ThreadsOK

\* A node that its thread is done with is hidden no more, on the levels where it is linked.
LEMMA Shown ==
    ASSUME Typed, Typed', Advance, ThreadsOK, Disjoint, NEW t \in Threads, Active(thread[t]), NEW new,
           NEW p \in Nat, p = thread[t].p,
           thread' = [thread EXCEPT ![t] = new], NEW l, Building' => next' = next /\ stage' = stage,
           Active(new) /\ new.p = p => l \in Linked(new), Active(new) => new.p >= p
    PROVE  /\ ~Hidden(p, l)'
           /\ ~Active(new) \/ new.p # p => ~Pending(p)'
<1>1. /\ p \in Positions /\ p < thread[t].upto /\ thread[t].upto <= Front /\ p \in Nat /\ p < count
      /\ thread[t].upto \in Nat
  BY PositionTypes DEF ThreadsOK, FrameOK, Frames, Positions
<1>2. ASSUME NEW u \in Threads, u # t PROVE ~Owns(thread'[u], p) /\ ~Hides(thread'[u], p, l)
  <2>1. thread'[u] = thread[u] /\ thread[u].p \in Nat /\ thread[u].upto \in Nat
    BY <1>2, PositionTypes DEF Typed, Frames
  <2>2. Active(thread[u]) => thread[t].upto <= thread[u].p \/ thread[u].upto <= thread[t].p
    BY <1>2 DEF Disjoint
  <2> QED
    BY <1>1, <2>1, <2>2 DEF Owns, Hides
<1>3. thread'[t] = new /\ new.p \in Nat
  <2>1. thread'[t] = new
    BY DEF Typed
  <2> QED
    BY <2>1, PositionTypesNext DEF Frames
<1>4. ~Hides(thread'[t], p, l) /\ (~Active(new) \/ new.p # p => ~Owns(thread'[t], p))
  BY <1>1, <1>3 DEF Hides, Owns
<1>5. count' = count /\ (Building' => Front' = Front)
  BY DEF Advance, Front, First
<1>6. Front \in Nat /\ count \in Nat
  BY FrontType, PositionTypes
<1>7. ~(p >= count') /\ ~(Building' /\ p >= Front')
  BY <1>1, <1>5, <1>6
<1>8. ~Hidden(p, l)'
  BY <1>2, <1>4, <1>7 DEF Hidden
<1>9. ~Active(new) \/ new.p # p => ~Pending(p)'
  BY <1>2, <1>4, <1>7 DEF Pending
<1> QED
  BY <1>8, <1>9

------------------------------------------------------------------------------
(* The steps of an insert.                                                 *)

\* The way down: what At makes of a frame.
LEMMA AtIs ==
    ASSUME Typed, NEW r \in Frames, NEW level \in Nat, NEW cur \in Positions, cur # r.p
    PROVE  /\ At(r, level, cur) \in Frames
           /\ At(r, level, cur).p = r.p /\ At(r, level, cur).upto = r.upto /\ At(r, level, cur).sel = r.sel
           /\ At(r, level, cur).level = level /\ At(r, level, cur).cur = cur
           /\ IF level > set.level[r.p] THEN At(r, level, cur).pc = "greedy"
              ELSE /\ At(r, level, cur).pc = "search"
                   /\ At(r, level, cur).beam.cand = {cur}
                   /\ At(r, level, cur).beam.top \subseteq {cur}
                   /\ cur \notin dead => At(r, level, cur).beam.top = {cur}
<1> DEFINE keep == (Positions \ dead) \ {r.p}
           b == Beam(cur, keep, {r.p})
<1>1. /\ b.cand = {cur} /\ b.top = {cur} \cap keep
      /\ b = [cand |-> {cur}, top |-> {cur} \cap keep, seen |-> {cur} \cup {r.p}]
  BY DEF Beam
<1>2. cur \in Nat /\ r.p \in Nat
  BY PositionTypes DEF Frames
<1>3. b \in Beams
  <2>1. {cur} \in SUBSET Nat /\ {cur} \cap keep \in SUBSET Nat /\ {cur} \cup {r.p} \in SUBSET Nat
    BY <1>2
  <2> HIDE DEF b
  <2> QED
    BY <1>1, <2>1 DEF Beams
<1>4. cur \notin dead => b.top = {cur}
  <2>1. cur \notin dead => cur \in keep
    OBVIOUS
  <2> HIDE DEF keep, b
  <2> QED
    BY <1>1, <2>1
<1>5. At(r, level, cur) = IF level > set.level[r.p] THEN [r EXCEPT !.pc = "greedy", !.level = level, !.cur = cur]
                          ELSE [r EXCEPT !.pc = "search", !.level = level, !.cur = cur, !.beam = b]
  BY DEF At
<1> HIDE DEF b
<1>6. CASE level > set.level[r.p]
  <2> DEFINE a == [r EXCEPT !.pc = "greedy", !.level = level, !.cur = cur]
  <2>1. /\ a \in Frames /\ a.pc = "greedy" /\ a.p = r.p /\ a.upto = r.upto /\ a.sel = r.sel
        /\ a.level = level /\ a.cur = cur
    BY <1>2 DEF Frames
  <2>2. At(r, level, cur) = a
    BY <1>5, <1>6
  <2> HIDE DEF a
  <2> QED
    BY <1>6, <2>1, <2>2
<1>7. CASE ~(level > set.level[r.p])
  <2> DEFINE a == [r EXCEPT !.pc = "search", !.level = level, !.cur = cur, !.beam = b]
  <2>1. /\ a \in Frames /\ a.pc = "search" /\ a.p = r.p /\ a.upto = r.upto /\ a.sel = r.sel
        /\ a.level = level /\ a.cur = cur /\ a.beam = b
    BY <1>2, <1>3 DEF Frames
  <2>2. At(r, level, cur) = a
    BY <1>5, <1>7
  <2>3. b.cand = {cur} /\ b.top \subseteq {cur}
    BY <1>1
  <2> HIDE DEF a
  <2> QED
    BY <1>4, <1>7, <2>1, <2>2, <2>3
<1> QED
  BY <1>6, <1>7

\* The frames of a thread that ended, takes a range, or starts an insert.
LEMMA EndedIs ==
    /\ Ended \in Frames /\ Ended.pc = "ended" /\ Taking \in Frames /\ Taking.pc = "take"
    /\ ~Active(Ended) /\ ~Active(Taking)
    /\ \A p, upto \in Nat : /\ Inserting(p, upto) \in Frames /\ Inserting(p, upto).pc = "start"
                            /\ Inserting(p, upto).p = p /\ Inserting(p, upto).upto = upto
<1>1. Ended \in Frames /\ Ended.pc = "ended"
  BY DEF Ended, Frames, Beams, Picks
<1>2. Taking \in Frames /\ Taking.pc = "take"
  BY <1>1 DEF Taking, Frames
<1>3. ASSUME NEW p \in Nat, NEW upto \in Nat
      PROVE  /\ Inserting(p, upto) \in Frames /\ Inserting(p, upto).pc = "start"
             /\ Inserting(p, upto).p = p /\ Inserting(p, upto).upto = upto
  BY <1>1 DEF Inserting, Frames
<1> QED
  BY <1>1, <1>2, <1>3 DEF Active

\* An insert is done: the next position of the range follows, or the thread takes another range.
LEMMA FinishedIs ==
    ASSUME NEW r \in Frames
    PROVE  /\ Finished(r) \in Frames
           /\ IF r.p + 1 < r.upto
              THEN /\ Finished(r).pc = "start" /\ Active(Finished(r))
                   /\ Finished(r).p = r.p + 1 /\ Finished(r).upto = r.upto
              ELSE Finished(r).pc = "take" /\ ~Active(Finished(r))
<1>1. r.p + 1 \in Nat /\ r.upto \in Nat
  BY DEF Frames
<1> QED
  BY <1>1, EndedIs DEF Finished, Active

\* A node on a level where it is not linked is hidden there: nothing leads to it, and it has no links.
LEMMA OwnHidden ==
    ASSUME Inv, NEW t \in Threads, Active(thread[t]), NEW l, l \notin Linked(thread[t])
    PROVE  Hidden(thread[t].p, l) /\ thread[t].p \notin Visible(l)
<1>1. thread[t].p < thread[t].upto /\ thread[t].p \in Nat
  BY PositionTypes DEF Inv, ThreadsOK, FrameOK, Frames
<1>2. Hides(thread[t], thread[t].p, l)
  BY <1>1 DEF Hides
<1> QED
  BY <1>2 DEF Hidden, Visible

\* What a list of links of a visible node leads to.
LEMMA NeighboursVisible ==
    ASSUME Inv, NEW l \in Nat, NEW x \in Visible(l)
    PROVE  MembersOf(links[x][l]) \subseteq Visible(l) /\ l \in Levels(x) /\ x \in AllPositions
<1>1. x \in AllPositions /\ l \in Levels(x)
  <2>1. x \in AllPositions /\ l <= set.level[x]
    BY PositionTypes DEF Inv, Visible
  <2>2. set.level[x] \in Nat
    BY <2>1, PositionTypes DEF Inv
  <2> QED
    BY <2>1, <2>2 DEF Levels
<1>2. IsList(links[x][l], Visible(l) \ {x}, Capacity(l))
  BY <1>1 DEF Inv, GraphOK
<1>3. Capacity(l) \in Int
  BY CapacityType
<1>4. MembersOf(links[x][l]) \subseteq Visible(l) \ {x}
  BY <1>2, <1>3, ListMembers
<1> QED
  BY <1>1, <1>4

\* A step within an insert.
LEMMA InnerMove ==
    ASSUME Inv, NEW t \in Threads, NEW new \in Frames, thread' = [thread EXCEPT ![t] = new],
           UNCHANGED <<graphVars, entry, top, lock, next, cutoff, repair>>,
           Active(thread[t]), thread[t].pc # "start", Active(new), new.pc # "start",
           new.p = thread[t].p, new.upto = thread[t].upto, Linked(thread[t]) \subseteq Linked(new), FrameOK(new)
    PROVE  /\ Typed' /\ Advance /\ Grows /\ Building' /\ ThreadsOK' /\ Disjoint'
           /\ EntryOK' /\ LockOK' /\ Tops' /\ Stages' /\ RepairOK'
<1>1. Building /\ stage' = stage /\ Building'
  BY DEF Inv, Stages, Active, Building, graphVars
<1>2. thread' \in [Threads -> Frames] /\ thread'[t] = new /\ \A u \in Threads : u # t => thread'[u] = thread[u]
  BY DEF Inv, Typed
<1>3. Typed'
  BY <1>2 DEF Inv, Typed, graphVars, Positions, AllPositions
<1>4. Front' = Front /\ Front \in Nat
  BY <1>1, FrontType DEF Inv, Front, First, graphVars
<1>5. \A u \in Threads : Follows(thread[u], thread'[u])
  <2> TAKE u \in Threads
  <2>1. thread[u].p \in Nat
    BY PositionTypes DEF Inv, Frames
  <2> QED
    BY <1>2, <2>1 DEF Follows
<1>6. Advance /\ Grows
  <2>1. Advance
    BY <1>1, <1>4, <1>5 DEF Advance, graphVars
  <2> QED
    BY <1>3, <2>1, Advances DEF Inv
<1>7. ThreadsOK'
  <2>1. FrameOK(new)'
    BY <1>1, <1>3, <1>6, FrameKept DEF Inv
  <2> QED
    BY <1>1, <1>3, <1>6, <2>1, FramesMove DEF Inv
<1>8. Disjoint'
  BY <1>3, <1>6, Advances DEF Inv
<1>9. \A u \in Threads : /\ Active(thread'[u]) <=> Active(thread[u])
                         /\ thread'[u].pc = "start" <=> thread[u].pc = "start"
                         /\ thread'[u].pc = "ended" <=> thread[u].pc = "ended"
                         /\ thread'[u].p = thread[u].p /\ thread'[u].upto = thread[u].upto
  BY <1>2 DEF Active
<1>10. \A x : Pending(x)' <=> Pending(x)
  BY <1>1, <1>4, <1>9 DEF Pending, Owns, Building
<1>11. EntryOK'
  BY <1>9, <1>10 DEF Inv, EntryOK, graphVars
<1>12. LockOK'
  BY <1>9 DEF Inv, LockOK, graphVars
<1>13. Tops'
  <2>1. Caller \in Threads
    BY GraphConstants
  <2> QED
    BY <1>1, <1>4, <1>9, <1>10, <2>1 DEF Inv, Tops, graphVars, Positions
<1>14. Stages' /\ RepairOK'
  BY <1>1 DEF Inv, Stages, RepairOK, Building, graphVars, AllPositions
<1> QED
  BY <1>1, <1>3, <1>6, <1>7, <1>8, <1>11, <1>12, <1>13, <1>14

\* What an insert chose on one level takes its place among what it chose.
LEMMA PicksUpdate ==
    ASSUME NEW sel \in Picks, NEW k \in Nat, DOMAIN sel = 0 .. k, NEW l \in 0 .. k, NEW v \in Seq(Nat)
    PROVE  /\ [sel EXCEPT ![l] = v] \in Picks /\ DOMAIN [sel EXCEPT ![l] = v] = 0 .. k
           /\ [sel EXCEPT ![l] = v][l] = v /\ \A j \in 0 .. k : j # l => [sel EXCEPT ![l] = v][j] = sel[j]
<1>1. sel # <<>>
  <2>1. 0 \in 0 .. k /\ 0 \notin DOMAIN <<>>
    OBVIOUS
  <2> QED
    BY <2>1
<1>2. PICK m \in Nat : sel \in [0 .. m -> Seq(Nat)]
  BY <1>1 DEF Picks
<1>3. sel \in [0 .. k -> Seq(Nat)]
  BY <1>2
<1>4. [sel EXCEPT ![l] = v] \in [0 .. k -> Seq(Nat)]
  BY <1>3
<1> QED
  BY <1>3, <1>4 DEF Picks

\* Inv, put together.
LEMMA InnerInv ==
    ASSUME Inv, NEW t \in Threads, NEW new \in Frames, thread' = [thread EXCEPT ![t] = new],
           UNCHANGED <<graphVars, entry, top, lock, next, cutoff, repair>>,
           Active(thread[t]), thread[t].pc # "start", Active(new), new.pc # "start",
           new.p = thread[t].p, new.upto = thread[t].upto, Linked(thread[t]) \subseteq Linked(new), FrameOK(new),
           links' = links \/ GraphOK'
    PROVE  Inv'
<1>1. /\ Typed' /\ Advance /\ Grows /\ Building' /\ ThreadsOK' /\ Disjoint'
      /\ EntryOK' /\ LockOK' /\ Tops' /\ Stages' /\ RepairOK'
  BY InnerMove
<1>2. GraphOK'
  BY <1>1, GraphKept DEF Inv
<1> QED
  BY <1>1, <1>2 DEF Inv

\* One look at the links of cur: it is at a visible node, above its own level, and moves to one.
LEMMA GreedyStep == ASSUME Inv, NEW t \in Threads, Greedy(t) PROVE Inv'
<1> DEFINE r == thread[t]
           q == set.at[r.p]
           best == MoveOf(q, r.cur, links[r.cur][r.level])
           V == Visible(r.level)
<1>1. /\ r \in Frames /\ r.pc = "greedy" /\ Active(r) /\ Linked(r) = {} /\ FrameOK(r) /\ r.level \in Nat /\ Typed
      /\ r.p \in Positions /\ r.p < r.upto /\ r.upto <= count /\ r.upto <= Front
      /\ r.level > set.level[r.p] /\ DOMAIN r.sel = Levels(r.p)
      /\ r.cur \in Visible(r.level) \ {r.p}
      /\ \A l \in DOMAIN r.sel : IsList(r.sel[l], Visible(l) \ {r.p}, M)
      /\ r.p \in AllPositions /\ set.level[r.p] \in Nat
  <2>1. r \in Frames /\ r.pc = "greedy" /\ Active(r) /\ Linked(r) = {} /\ FrameOK(r) /\ Typed
    BY PositionTypes DEF Inv, Greedy, ThreadsOK, Active, Linked
  <2>2. r.level \in Nat
    BY <2>1 DEF Frames
  <2>3. /\ r.p \in Positions /\ r.p < r.upto /\ r.upto <= count /\ r.upto <= Front
        /\ r.level > set.level[r.p] /\ DOMAIN r.sel = Levels(r.p)
        /\ r.cur \in Visible(r.level) \ {r.p}
        /\ \A l \in DOMAIN r.sel : IsList(r.sel[l], Visible(l) \ {r.p}, M)
    BY <2>1 DEF FrameOK
  <2>4. r.p \in AllPositions /\ set.level[r.p] \in Nat
    BY <2>1, <2>3, PositionTypes
  <2> QED
    BY <2>1, <2>2, <2>3, <2>4
<1>2. /\ thread' = [thread EXCEPT ![t] = IF best # r.cur THEN [r EXCEPT !.cur = best] ELSE At(r, r.level - 1, r.cur)]
      /\ UNCHANGED <<graphVars, entry, top, lock, next, cutoff, repair>> /\ links' = links
  BY DEF Greedy
<1> HIDE DEF r
<1>3. V \in SUBSET AllPositions /\ r.p \notin V /\ r.cur \in V /\ MembersOf(links[r.cur][r.level]) \subseteq V
  <2>1. r.p \notin V
    BY <1>1, OwnHidden DEF r
  <2> QED
    BY <1>1, <2>1, PositionTypes, NeighboursVisible
<1>4. best \in V /\ best \in Nat /\ best # r.p
  <2>1. q \in Points /\ set \in Sets
    BY <1>1, PositionTypes DEF Typed
  <2> HIDE DEF q, V
  <2>2. best \in V
    BY <1>3, <2>1, MoveIs
  <2> QED
    BY <1>1, <1>3, <2>2, PositionTypes
<1>5. CASE best # r.cur
  <2> DEFINE new == [r EXCEPT !.cur = best]
  <2>1. /\ new \in Frames /\ new.pc = "greedy" /\ new.p = r.p /\ new.upto = r.upto /\ new.sel = r.sel
        /\ new.level = r.level /\ new.cur = best
    BY <1>1, <1>4 DEF Frames
  <2>2. thread' = [thread EXCEPT ![t] = new]
    BY <1>2, <1>5
  <2> HIDE DEF new, best
  <2>3. FrameOK(new) /\ Active(new) /\ Linked(new) = {}
    BY <1>1, <1>4, <2>1 DEF FrameOK, Active, Linked
  <2> QED
    BY <1>1, <1>2, <2>1, <2>2, <2>3, InnerInv DEF r
<1>6. CASE best = r.cur
  <2> DEFINE new == At(r, r.level - 1, r.cur)
             k == r.level - 1
  <2>1. k \in Nat /\ k >= set.level[r.p] /\ r.cur \in Positions /\ r.cur \in Visible(k) /\ r.cur # r.p
    <3>1. k \in Nat /\ k >= set.level[r.p] /\ k \in 0 .. r.level
      BY <1>1
    <3> QED
      BY <1>1, <1>3, <3>1, PositionTypes, VisibleBelow
  <2>2. /\ new \in Frames /\ new.p = r.p /\ new.upto = r.upto /\ new.sel = r.sel /\ new.level = k /\ new.cur = r.cur
        /\ IF k > set.level[r.p] THEN new.pc = "greedy"
           ELSE new.pc = "search" /\ new.beam.cand = {r.cur} /\ new.beam.top \subseteq {r.cur}
    BY <1>1, <2>1, AtIs
  <2>3. thread' = [thread EXCEPT ![t] = new]
    BY <1>2, <1>6
  <2> HIDE DEF new, best
  <2>4. Active(new) /\ Linked(new) = {} /\ new.pc \in {"greedy", "search"}
    BY <2>2 DEF Active, Linked
  <2>5. k > set.level[r.p] \/ k \in Levels(r.p)
    BY <1>1, <2>1 DEF Levels
  <2> HIDE DEF k
  <2>6. FrameOK(new)
    <3>1. \E j \in Levels(r.p) : DOMAIN r.sel = 0 .. j
      BY <1>1 DEF Levels
    <3> QED
      BY <1>1, <2>1, <2>2, <2>4, <2>5, <3>1 DEF FrameOK
  <2> QED
    BY <1>1, <1>2, <2>2, <2>3, <2>4, <2>6, InnerInv DEF r
<1> QED
  BY <1>5, <1>6

\* Where a search step leads: the beam b goes on, or the level is done with the neighbours sel.
SearchTo(r, b, sel, w) ==
    /\ w \in Frames /\ w.p = r.p /\ w.upto = r.upto
    /\ \/ /\ b.cand # {} /\ w.beam = b
          /\ w.pc = "search" /\ w.sel = r.sel /\ w.level = r.level /\ w.cur = r.cur
       \/ /\ w.sel = [r.sel EXCEPT ![r.level] = sel]
          /\ \/ /\ r.level > 0 /\ w.pc = "search" /\ w.level = r.level - 1 /\ w.cur \in MembersOf(sel) \cup {r.cur}
                /\ w.beam.cand = {w.cur} /\ w.beam.top \subseteq {w.cur}
                /\ w.cur \notin dead => w.beam.top = {w.cur}
             \/ r.level = 0 /\ w.pc = "own" /\ w.level = 0

\* A search step: its beam stays within every set closed under the links that holds what it had, and the
\* neighbours are a list of what is kept.
LEMMA SearchFacts ==
    ASSUME Inv, NEW t \in Threads, Search(t)
    PROVE  \E b \in Beams : \E sel \in Seq(Nat) : \E w \in Frames :
              /\ thread' = [thread EXCEPT ![t] = w] /\ SearchTo(thread[t], b, sel, w)
              /\ IsList(sel, b.top, M) /\ (b.top # {} => sel # <<>>)
              /\ thread[t].beam.top # {} => b.top # {}
              /\ \A c : thread[t].beam.cand = {c} /\ MembersOf(links[c][thread[t].level]) = {} => b.cand = {}
              /\ \A V \in SUBSET AllPositions :
                    /\ thread[t].beam.cand \subseteq V /\ thread[t].beam.top \subseteq V
                    /\ Shut(V, thread[t].level)
                    => b.cand \subseteq V /\ b.top \subseteq V
<1> DEFINE r == thread[t]
           q == set.at[r.p]
           keep == (Positions \ dead) \ {r.p}
           b == Expand(r.beam, q, Ef, keep, r.level)
           sel == Select(q, b.top, M)
           cur == IF sel = <<>> THEN r.cur ELSE sel[1]
           chosen == [r EXCEPT !.sel[r.level] = sel]
           ended == BeamEnds(b, q, Ef)
<1>1. /\ r \in Frames /\ r.pc = "search" /\ FrameOK(r) /\ Active(r) /\ Typed /\ r.level \in Nat /\ r.p \in Nat
      /\ r.beam \in Beams /\ r.sel \in Picks /\ r.cur \in Nat /\ set \in Sets /\ q \in Points
      /\ r.beam.cand # {} /\ r.beam.cand \subseteq AllPositions /\ r.beam.top \subseteq AllPositions
      /\ r.level \in DOMAIN r.sel /\ r.cur \in Visible(r.level) /\ r.cur # r.p
      /\ Ef \in Nat \ {0} /\ M \in Nat \ {0}
  <2>1. r \in Frames /\ r.pc = "search" /\ FrameOK(r) /\ Active(r) /\ Typed
    BY PositionTypes DEF Inv, Search, ThreadsOK, Active
  <2>2. r.level \in Nat /\ r.p \in Nat /\ r.beam \in Beams /\ r.sel \in Picks /\ r.cur \in Nat
    BY <2>1 DEF Frames
  <2>3. /\ r.p \in Positions /\ r.level \in DOMAIN r.sel /\ r.cur \in Visible(r.level) /\ r.cur # r.p
        /\ r.beam.cand # {} /\ r.beam.cand \cup r.beam.top \subseteq Visible(r.level)
    BY <2>1 DEF FrameOK
  <2>4. Ef \in Nat \ {0} /\ M \in Nat \ {0}
    BY GraphConstants DEF Ef
  <2> QED
    BY <2>1, <2>2, <2>3, <2>4, PositionTypes DEF Typed
<1>2. PICK k \in Levels(r.p) : DOMAIN r.sel = 0 .. k
  BY <1>1 DEF FrameOK
<1>3. thread' = [thread EXCEPT ![t] = IF ~ended THEN [r EXCEPT !.beam = b]
                                      ELSE IF r.level > 0 THEN At(chosen, r.level - 1, cur)
                                      ELSE [chosen EXCEPT !.pc = "own", !.beam = Ended.beam, !.cur = 0]]
  BY DEF Search
<1>4. k \in Nat /\ r.level \in 0 .. k
  <2>1. set.level[r.p] \in Nat
    BY <1>1, PositionTypes DEF FrameOK
  <2> QED
    BY <1>1, <1>2, <2>1 DEF Levels
<1> HIDE DEF r, q, keep
<1>5. /\ b \in Beams /\ b.top \subseteq AllPositions
      /\ r.beam.top # {} => b.top # {}
      /\ \A c : r.beam.cand = {c} /\ MembersOf(links[c][r.level]) = {} => b.cand = {}
      /\ \A V \in SUBSET AllPositions :
            /\ r.beam.cand \subseteq V /\ r.beam.top \subseteq V
            /\ Shut(V, r.level)
            => b.cand \subseteq V /\ b.top \subseteq V
  <2>0. b = Expand(r.beam, q, Ef, keep, r.level)
    OBVIOUS
  <2> HIDE DEF b
  <2>1. ASSUME NEW V \in SUBSET AllPositions, r.beam.cand \subseteq V, r.beam.top \subseteq V,
               Shut(V, r.level)
        PROVE  /\ b \in Beams /\ b.cand \subseteq V /\ b.top \subseteq V /\ (r.beam.top # {} => b.top # {})
               /\ \A c : r.beam.cand = {c} /\ MembersOf(links[c][r.level]) = {} => b.cand = {}
    <3>1. /\ set \in Sets /\ q \in Points /\ r.beam \in Beams /\ Ef \in Nat \ {0} /\ r.beam.cand # {}
          /\ r.beam.cand \subseteq V /\ r.beam.top \subseteq V
      BY <1>1, <2>1
    <3>2. Shut(V, r.level)
      BY <2>1
    <3>3. Expanded(r.beam, Expand(r.beam, q, Ef, keep, r.level), r.level, V)
      BY <3>1, <3>2, ExpandIs
    <3> QED
      BY <2>0, <3>3 DEF Expanded
  <2>2. PICK V \in SUBSET AllPositions : /\ r.beam.cand \subseteq V /\ r.beam.top \subseteq V
                                         /\ Shut(V, r.level)
    <3>1. Visible(r.level) \in SUBSET AllPositions
      BY <1>1, PositionTypes
    <3>2. r.beam.cand \subseteq Visible(r.level) /\ r.beam.top \subseteq Visible(r.level)
      BY <1>1 DEF FrameOK
    <3> QED
      BY <1>1, <3>1, <3>2, NeighboursVisible DEF Shut
  <2> QED
    BY <2>1, <2>2
<1>6. ~ended => b.cand # {}
  BY DEF BeamEnds
<1> HIDE DEF b, ended
<1>7. /\ IsList(sel, b.top, M) /\ (b.top # {} => sel # <<>>) /\ MembersOf(sel) \subseteq b.top /\ sel \in Seq(Nat)
      /\ b.top \subseteq Nat
  <2>1. IsList(sel, b.top, M) /\ (b.top # {} => sel # <<>>)
    BY <1>1, <1>5, SelectIs
  <2> HIDE DEF sel
  <2>2. MembersOf(sel) \subseteq b.top
    BY <1>1, <2>1, ListMembers
  <2>3. b.top \subseteq Nat
    BY <1>5 DEF Beams
  <2>4. IsList(sel, Nat, M)
    BY <1>1, <2>1, <2>3, ListGrows
  <2> QED
    BY <2>1, <2>2, <2>3, <2>4 DEF IsList
<1>8. b.top \subseteq Positions \ {r.p}
  <2>1. r.p \notin Visible(r.level)
    BY <1>1, OwnHidden DEF r, Linked
  <2>2. r.beam.cand \subseteq Visible(r.level) /\ r.beam.top \subseteq Visible(r.level)
    BY <1>1 DEF FrameOK
  <2>3. Visible(r.level) \in SUBSET AllPositions
    BY <1>1, PositionTypes
  <2>4. b.top \subseteq Visible(r.level)
    BY <1>1, <1>5, <2>2, <2>3, NeighboursVisible DEF Shut
  <2> QED
    BY <1>1, <2>1, <2>4, PositionTypes
<1> HIDE DEF sel
<1>9. cur \in MembersOf(sel) \cup {r.cur} /\ cur \in Positions /\ cur # r.p /\ cur \in Nat
  <2>1. ASSUME sel # <<>> PROVE sel[1] \in MembersOf(sel)
    BY <1>7, <2>1, EmptySeq DEF MembersOf
  <2>2. r.cur \in Positions /\ Positions \subseteq Nat
    BY <1>1, PositionTypes
  <2> QED
    BY <1>1, <1>7, <1>8, <2>1, <2>2
<1> HIDE DEF cur
<1> DEFINE picks == [r.sel EXCEPT ![r.level] = sel]
<1>10. picks \in Picks
  BY <1>1, <1>2, <1>4, <1>7, PicksUpdate
<1>11. chosen = [r EXCEPT !.sel = picks]
  BY <1>1 DEF Frames
<1> HIDE DEF picks
<1>12. /\ chosen \in Frames /\ chosen.p = r.p /\ chosen.upto = r.upto /\ chosen.sel = picks
       /\ chosen.level = r.level
  BY <1>1, <1>10, <1>11 DEF Frames
<1> HIDE DEF chosen
<1> SUFFICES ASSUME NEW w, w = (IF ~ended THEN [r EXCEPT !.beam = b]
                                ELSE IF r.level > 0 THEN At(chosen, r.level - 1, cur)
                                ELSE [chosen EXCEPT !.pc = "own", !.beam = Ended.beam, !.cur = 0])
             PROVE  SearchTo(r, b, sel, w)
  <2> DEFINE w == IF ~ended THEN [r EXCEPT !.beam = b]
                  ELSE IF r.level > 0 THEN At(chosen, r.level - 1, cur)
                  ELSE [chosen EXCEPT !.pc = "own", !.beam = Ended.beam, !.cur = 0]
  <2>1. thread' = [thread EXCEPT ![t] = w]
    BY <1>3
  <2>2. SearchTo(r, b, sel, w)
    OBVIOUS
  <2> HIDE DEF w
  <2>3. w \in Frames
    BY <2>2 DEF SearchTo
  <2> QED
    BY <1>5, <1>7, <2>1, <2>2, <2>3 DEF r
<1>13. CASE ~ended
  <2> DEFINE a == [r EXCEPT !.beam = b]
  <2>1. /\ a \in Frames /\ a.p = r.p /\ a.upto = r.upto /\ a.pc = "search" /\ a.sel = r.sel /\ a.level = r.level
        /\ a.cur = r.cur /\ a.beam = b
    BY <1>1, <1>5 DEF Frames
  <2>2. w = a
    BY <1>13
  <2> HIDE DEF a
  <2> QED
    BY <1>6, <1>13, <2>1, <2>2 DEF SearchTo
<1>14. CASE ended /\ r.level > 0
  <2>1. w = At(chosen, r.level - 1, cur) /\ r.level - 1 \in Nat /\ ~(r.level - 1 > set.level[r.p])
    <3>1. k <= set.level[r.p] /\ set.level[r.p] \in Nat
      BY <1>1, <1>2, PositionTypes DEF Levels, FrameOK
    <3> QED
      BY <1>1, <1>4, <1>14, <3>1
  <2> DEFINE j == r.level - 1
             a == At(chosen, j, cur)
  <2>3. /\ a \in Frames /\ a.p = r.p /\ a.upto = r.upto /\ a.sel = picks /\ a.level = j /\ a.cur = cur
        /\ a.pc = "search" /\ a.beam.cand = {cur} /\ a.beam.top \subseteq {cur}
        /\ cur \notin dead => a.beam.top = {cur}
    <3>1. j \in Nat /\ ~(j > set.level[r.p]) /\ chosen \in Frames /\ cur \in Positions /\ cur # chosen.p
      BY <1>9, <1>12, <2>1
    <3> HIDE DEF j
    <3> QED
      BY <1>1, <1>12, <3>1, AtIs
  <2>2. /\ w \in Frames /\ w.p = r.p /\ w.upto = r.upto /\ w.sel = picks /\ w.level = r.level - 1 /\ w.cur = cur
        /\ w.pc = "search" /\ w.beam.cand = {cur} /\ w.beam.top \subseteq {cur}
        /\ cur \notin dead => w.beam.top = {cur}
    BY <2>1, <2>3
  <2> QED
    BY <1>9, <1>14, <2>2 DEF SearchTo, picks
<1>15. CASE ended /\ ~(r.level > 0)
  <2>1. w = [chosen EXCEPT !.pc = "own", !.beam = Ended.beam, !.cur = 0] /\ r.level = 0
    BY <1>1, <1>15
  <2>2. Ended.beam \in Beams
    BY EndedIs DEF Frames
  <2>3. /\ w \in Frames /\ w.p = r.p /\ w.upto = r.upto /\ w.sel = picks /\ w.level = r.level /\ w.pc = "own"
    BY <1>12, <2>1, <2>2 DEF Frames
  <2> QED
    BY <2>1, <2>3 DEF SearchTo, picks
<1> QED
  BY <1>13, <1>14, <1>15

\* A search step: the beam stays among visible nodes, and so does what a level that is done has chosen.
LEMMA SearchStep == ASSUME Inv, NEW t \in Threads, Search(t) PROVE Inv'
<1> DEFINE r == thread[t]
           V == Visible(r.level)
<1>1. /\ r \in Frames /\ r.pc = "search" /\ Active(r) /\ Linked(r) = {} /\ FrameOK(r) /\ Typed
      /\ r.p \in Positions /\ r.p < r.upto /\ r.upto <= count /\ r.upto <= Front
      /\ r.level \in Nat /\ r.level \in DOMAIN r.sel /\ r.cur \in V \ {r.p}
      /\ r.beam.cand \subseteq V /\ r.beam.top \subseteq V
      /\ \A l \in DOMAIN r.sel : IsList(r.sel[l], Visible(l) \ {r.p}, M)
      /\ r.p \in AllPositions /\ set.level[r.p] \in Nat
  <2>1. r \in Frames /\ r.pc = "search" /\ Active(r) /\ Linked(r) = {} /\ FrameOK(r) /\ Typed
    BY PositionTypes DEF Inv, Search, ThreadsOK, Active, Linked
  <2>2. r.level \in Nat
    BY <2>1 DEF Frames
  <2>3. /\ r.p \in Positions /\ r.p < r.upto /\ r.upto <= count /\ r.upto <= Front
        /\ r.level \in DOMAIN r.sel /\ r.cur \in V \ {r.p}
        /\ r.beam.cand \subseteq V /\ r.beam.top \subseteq V
        /\ \A l \in DOMAIN r.sel : IsList(r.sel[l], Visible(l) \ {r.p}, M)
    BY <2>1 DEF FrameOK
  <2> QED
    BY <2>1, <2>2, <2>3, PositionTypes
<1>2. PICK k \in Levels(r.p) : DOMAIN r.sel = 0 .. k
  BY <1>1 DEF FrameOK
<1>3. k \in Nat /\ k <= set.level[r.p] /\ r.level \in 0 .. k
  BY <1>1, <1>2 DEF Levels
<1>4. V \in SUBSET AllPositions /\ r.p \notin V /\ Shut(V, r.level)
  <2>1. r.p \notin V
    BY <1>1, OwnHidden
  <2> QED
    BY <1>1, <2>1, PositionTypes, NeighboursVisible DEF Shut
<1>5. PICK b \in Beams : \E sel \in Seq(Nat) : \E w \in Frames :
         /\ thread' = [thread EXCEPT ![t] = w] /\ SearchTo(r, b, sel, w)
         /\ IsList(sel, b.top, M) /\ b.cand \subseteq V /\ b.top \subseteq V
  BY <1>1, <1>4, SearchFacts
<1>6. PICK sel \in Seq(Nat) : \E w \in Frames :
         /\ thread' = [thread EXCEPT ![t] = w] /\ SearchTo(r, b, sel, w)
         /\ IsList(sel, b.top, M) /\ b.cand \subseteq V /\ b.top \subseteq V
  BY <1>5
<1>7. PICK w \in Frames :
         /\ thread' = [thread EXCEPT ![t] = w] /\ SearchTo(r, b, sel, w)
         /\ IsList(sel, b.top, M) /\ b.cand \subseteq V /\ b.top \subseteq V
  BY <1>6
<1>8. UNCHANGED <<graphVars, entry, top, lock, next, cutoff, repair>> /\ links' = links
  BY DEF Search
<1>9. IsList(sel, V, M) /\ IsList(sel, Visible(r.level) \ {r.p}, M) /\ MembersOf(sel) \subseteq V
  <2>1. M \in Int /\ b.top \subseteq V /\ b.top \subseteq V \ {r.p} /\ IsList(sel, b.top, M)
    BY <1>4, <1>7, GraphConstants
  <2> HIDE DEF V
  <2>2. IsList(sel, V, M) /\ IsList(sel, V \ {r.p}, M) /\ MembersOf(sel) \subseteq V
    BY <2>1, ListGrows, ListMembers
  <2> QED
    BY <2>2 DEF V
<1> DEFINE picks == [r.sel EXCEPT ![r.level] = sel]
<1>10. DOMAIN picks = 0 .. k /\ \A l \in 0 .. k : IsList(picks[l], Visible(l) \ {r.p}, M)
  <2>1. r.sel \in Picks
    BY <1>1 DEF Frames
  <2>2. /\ DOMAIN picks = 0 .. k /\ picks[r.level] = sel
        /\ \A l \in 0 .. k : l # r.level => picks[l] = r.sel[l]
    BY <1>1, <1>2, <1>3, <1>7, <2>1, PicksUpdate
  <2> HIDE DEF picks
  <2> QED
    BY <1>1, <1>2, <1>9, <2>2
<1>11. w \in Frames /\ thread' = [thread EXCEPT ![t] = w]
  BY <1>7
<1>12. Active(thread[t]) /\ thread[t].pc # "start" /\ Linked(thread[t]) = {}
  BY <1>1
<1> HIDE DEF r, picks
<1>13. w.p = r.p /\ w.upto = r.upto
  BY <1>7 DEF SearchTo
<1>14. ASSUME Active(w), w.pc # "start", FrameOK(w) PROVE Inv'
  <2>1. w.p = thread[t].p /\ w.upto = thread[t].upto
    BY <1>13 DEF r
  <2> QED
    BY <1>8, <1>11, <1>12, <1>14, <2>1, InnerInv
<1>15. CASE /\ b.cand # {} /\ w.beam = b /\ w.pc = "search" /\ w.sel = r.sel /\ w.level = r.level /\ w.cur = r.cur
  <2>1. Active(w) /\ Linked(w) = {}
    BY <1>15 DEF Active, Linked
  <2>2. b.cand \cup b.top \subseteq Visible(r.level) \ {r.p}
    BY <1>4, <1>7
  <2>3. FrameOK(w)
    BY <1>1, <1>2, <1>13, <1>15, <2>1, <2>2 DEF FrameOK
  <2> QED
    BY <1>15, <1>14, <2>1, <2>3
<1>16. CASE /\ w.sel = picks /\ r.level > 0 /\ w.pc = "search" /\ w.level = r.level - 1
            /\ w.cur \in MembersOf(sel) \cup {r.cur} /\ w.beam.cand = {w.cur} /\ w.beam.top \subseteq {w.cur}
  <2>1. Active(w) /\ Linked(w) = {}
    BY <1>16 DEF Active, Linked
  <2>2. w.level \in Nat /\ w.level \in 0 .. k /\ w.level \in 0 .. r.level
    BY <1>1, <1>3, <1>16
  <2>3. w.cur \in Visible(w.level) \ {r.p}
    <3>1. w.cur \in V /\ w.cur # r.p
      BY <1>1, <1>4, <1>9, <1>16
    <3> QED
      BY <1>1, <2>2, <3>1, VisibleBelow
  <2>4. FrameOK(w)
    BY <1>1, <1>2, <1>10, <1>13, <1>16, <2>1, <2>2, <2>3 DEF FrameOK
  <2> QED
    BY <1>16, <1>14, <2>1, <2>4
<1>17. CASE w.sel = picks /\ w.pc = "own" /\ w.level = 0
  <2>1. Active(w)
    BY <1>17 DEF Active
  <2>2. FrameOK(w)
    BY <1>1, <1>2, <1>3, <1>10, <1>13, <1>17, <2>1 DEF FrameOK
  <2> QED
    BY <1>17, <1>14, <2>1, <2>2
<1> QED
  BY <1>7, <1>15, <1>16, <1>17 DEF SearchTo, picks

\* What an insert that links its node knows.
LEMMA LinkingFacts ==
    ASSUME Inv, NEW t \in Threads, thread[t].pc \in {"own", "back"}
    PROVE  \E p \in AllPositions, l \in Nat :
              /\ p = thread[t].p /\ l = thread[t].level /\ l \in DOMAIN thread[t].sel /\ l \in Levels(p)
              /\ thread[t] \in Frames /\ Active(thread[t]) /\ FrameOK(thread[t]) /\ thread[t].sel \in Picks
              /\ p \in Positions /\ p < thread[t].upto /\ thread[t].upto <= count /\ thread[t].upto <= Front
              /\ thread[t].pc = "back" => thread[t].i >= 1
              /\ \E k \in Levels(p) : DOMAIN thread[t].sel = 0 .. k
              /\ \A j \in DOMAIN thread[t].sel : IsList(thread[t].sel[j], Visible(j) \ {p}, M)
              /\ Typed /\ M \in Nat \ {0} /\ Capacity(l) \in Nat \ {0} /\ set \in Sets /\ set.at[p] \in Points
<1> DEFINE r == thread[t]
<1>1. r \in Frames /\ Active(r) /\ FrameOK(r) /\ Typed
  BY PositionTypes DEF Inv, ThreadsOK, Active
<1>2. r.level \in Nat /\ r.sel \in Picks
  BY <1>1 DEF Frames
<1>3. /\ r.p \in Positions /\ r.p < r.upto /\ r.upto <= count /\ r.upto <= Front
      /\ r.level \in DOMAIN r.sel /\ (r.pc = "back" => r.i >= 1)
      /\ \E k \in Levels(r.p) : DOMAIN r.sel = 0 .. k
      /\ \A l \in DOMAIN r.sel : IsList(r.sel[l], Visible(l) \ {r.p}, M)
  BY <1>1 DEF FrameOK
<1>4. r.p \in AllPositions /\ set.level[r.p] \in Nat /\ set.at[r.p] \in Points /\ set \in Sets
  BY <1>1, <1>3, PositionTypes DEF Typed
<1>5. r.level \in Levels(r.p)
  <2>1. PICK k \in Levels(r.p) : DOMAIN r.sel = 0 .. k
    BY <1>3
  <2>2. k \in Nat /\ k <= set.level[r.p] /\ r.level \in 0 .. k
    BY <1>3, <1>4, <2>1 DEF Levels
  <2> QED
    BY <1>4, <2>2 DEF Levels
<1>6. M \in Nat \ {0} /\ Capacity(r.level) \in Nat \ {0}
  BY GraphConstants, CapacityType
<1> HIDE DEF r
<1>7. PICK p \in AllPositions, l \in Nat : p = r.p /\ l = r.level
  BY <1>2, <1>4
<1>8. /\ p = r.p /\ l = r.level /\ l \in DOMAIN r.sel /\ l \in Levels(p)
      /\ r \in Frames /\ Active(r) /\ FrameOK(r) /\ r.sel \in Picks
      /\ p \in Positions /\ p < r.upto /\ r.upto <= count /\ r.upto <= Front
      /\ r.pc = "back" => r.i >= 1
      /\ \E k \in Levels(p) : DOMAIN r.sel = 0 .. k
      /\ \A j \in DOMAIN r.sel : IsList(r.sel[j], Visible(j) \ {p}, M)
      /\ Typed /\ M \in Nat \ {0} /\ Capacity(l) \in Nat \ {0} /\ set \in Sets /\ set.at[p] \in Points
  BY <1>1, <1>2, <1>3, <1>4, <1>5, <1>6, <1>7
<1> QED
  BY <1>8 DEF r

\* The node's own list: what was chosen and what is there already, all visible; from here on the node is linked.
LEMMA ConnectOwnStep == ASSUME Inv, NEW t \in Threads, ConnectOwn(t) PROVE Inv'
<1> DEFINE r == thread[t]
           new == [r EXCEPT !.pc = "back", !.i = 1]
<1>0. r.pc = "own"
  BY DEF ConnectOwn
<1>1. PICK p \in AllPositions, l \in Nat :
              /\ p = r.p /\ l = r.level /\ l \in DOMAIN r.sel /\ l \in Levels(p)
              /\ r \in Frames /\ Active(r) /\ FrameOK(r) /\ r.sel \in Picks
              /\ p \in Positions /\ p < r.upto /\ r.upto <= count /\ r.upto <= Front
              /\ \A j \in DOMAIN r.sel : IsList(r.sel[j], Visible(j) \ {p}, M)
              /\ Typed /\ M \in Nat \ {0} /\ Capacity(l) \in Nat \ {0} /\ set \in Sets /\ set.at[p] \in Points
  BY <1>0, LinkingFacts
<1> DEFINE q == set.at[p]
           all == (MembersOf(r.sel[l]) \cup MembersOf(links[p][l])) \ {p}
           v == IF Cardinality(all) > Capacity(l) THEN Select(q, all, Capacity(l)) ELSE Ordered(q, all)
<1>2. /\ links' = [links EXCEPT ![p][l] = v] /\ thread' = [thread EXCEPT ![t] = new]
      /\ UNCHANGED <<graphVars, entry, top, lock, next, cutoff, repair>>
  BY <1>1 DEF ConnectOwn
<1> HIDE DEF r
<1>3. /\ new \in Frames /\ new.pc = "back" /\ new.i = 1 /\ new.p = r.p /\ new.upto = r.upto /\ new.sel = r.sel
      /\ new.level = r.level
  BY <1>1 DEF Frames
<1> HIDE DEF new
<1>4. Active(new) /\ Linked(r) \subseteq Linked(new) /\ l \in Linked(new)
  BY <1>0, <1>1, <1>3 DEF Active, Linked
<1>5. FrameOK(new)
  <2>1. \E k \in Levels(p) : DOMAIN r.sel = 0 .. k
    BY <1>0, <1>1 DEF FrameOK
  <2>2. new.pc # "start" /\ new.pc # "greedy" /\ new.pc # "search" /\ new.i >= 1
    BY <1>3
  <2> QED
    BY <1>1, <1>3, <2>1, <2>2 DEF FrameOK
<1>6. Typed' /\ Advance /\ Grows /\ Building'
  BY <1>0, <1>1, <1>2, <1>3, <1>4, <1>5, InnerMove DEF r
<1>7. IsList(v, Visible(l) \ {p}, Capacity(l))
  <2>1. MembersOf(r.sel[l]) \subseteq Visible(l) \ {p}
    <3>1. IsList(r.sel[l], Visible(l) \ {p}, M) /\ M \in Int
      BY <1>1
    <3> QED
      BY <3>1, ListMembers
  <2>2. MembersOf(links[p][l]) \subseteq Visible(l) \ {p}
    <3>1. IsList(links[p][l], Visible(l) \ {p}, Capacity(l))
      BY <1>1 DEF Inv, GraphOK
    <3> QED
      BY <1>1, <3>1, ListMembers
  <2>3. all \subseteq Visible(l) \ {p} /\ all \in SUBSET AllPositions
    BY <1>1, <2>1, <2>2, PositionTypes
  <2> HIDE DEF all, q
  <2>4. IsList(Select(q, all, Capacity(l)), all, Capacity(l))
    BY <1>1, <2>3, SelectIs DEF q
  <2>5. IsList(Ordered(q, all), all, Cardinality(all)) /\ Cardinality(all) \in Nat
    BY <1>1, <2>3, OrderedIs, Ranks DEF q
  <2>6. ~(Cardinality(all) > Capacity(l)) => IsList(Ordered(q, all), Visible(l) \ {p}, Capacity(l))
    BY <1>1, <2>3, <2>5, ListGrows
  <2>7. IsList(Select(q, all, Capacity(l)), Visible(l) \ {p}, Capacity(l))
    BY <1>1, <2>3, <2>4, ListGrows
  <2> QED
    BY <2>6, <2>7
<1> HIDE DEF v
<1>8. IsList(v, Visible(l)' \ {p}, Capacity(l))
  <2>1. Visible(l) \ {p} \subseteq Visible(l)' \ {p}
    BY <1>1, <1>6, Advances
  <2> QED
    BY <1>1, <1>7, <2>1, ListGrows
<1>9. ~Hidden(p, l)'
  <2>1. p \in Nat /\ new.p >= p /\ (Building' => next' = next /\ stage' = stage)
    BY <1>1, <1>2, <1>3, PositionTypes DEF graphVars
  <2> QED
    BY <1>1, <1>2, <1>4, <1>6, <2>1, Shown DEF Inv, r
<1>10. GraphOK'
  BY <1>1, <1>2, <1>6, <1>8, <1>9, GraphWritten DEF Inv
<1> QED
  BY <1>0, <1>1, <1>2, <1>3, <1>4, <1>5, <1>10, InnerInv DEF r

\* The list of a neighbour: it is visible and takes a node that is visible, too, now.
LEMMA ConnectBackStep == ASSUME Inv, NEW t \in Threads, ConnectBack(t) PROVE Inv'
<1> DEFINE r == thread[t]
           new == [r EXCEPT !.i = r.i + 1]
<1>0. r.pc = "back"
  BY DEF ConnectBack
<1>1. PICK p \in AllPositions, l \in Nat :
              /\ p = r.p /\ l = r.level /\ l \in DOMAIN r.sel /\ l \in Levels(p)
              /\ r \in Frames /\ Active(r) /\ FrameOK(r) /\ r.i >= 1
              /\ p \in Positions /\ p < r.upto /\ r.upto <= count /\ r.upto <= Front
              /\ \A j \in DOMAIN r.sel : IsList(r.sel[j], Visible(j) \ {p}, M)
              /\ Typed /\ M \in Nat \ {0} /\ Capacity(l) \in Nat \ {0}
  BY <1>0, LinkingFacts
<1>2. r.i \in Nat /\ r.i <= Len(r.sel[l])
  BY <1>1 DEF ConnectBack, Frames
<1>3. r.sel[l][r.i] \in Visible(l) \ {p}
  <2>1. r.sel[l] \in Seq(Visible(l) \ {p})
    BY <1>1 DEF IsList
  <2>2. r.i \in 1 .. Len(r.sel[l])
    BY <1>1, <1>2, <2>1
  <2> QED
    BY <2>1, <2>2
<1>4. PICK nb \in Visible(l) : nb = r.sel[l][r.i] /\ nb # p
  BY <1>3
<1> DEFINE v == WithLink(links[nb][l], nb, p, Capacity(l))
<1>5. nb \in AllPositions /\ l \in Levels(nb)
  BY <1>1, <1>4, NeighboursVisible
<1>6. /\ thread' = [thread EXCEPT ![t] = new]
      /\ UNCHANGED <<graphVars, entry, top, lock, next, cutoff, repair>>
  <2>1. /\ thread' = [thread EXCEPT ![t].i = r.i + 1]
        /\ UNCHANGED <<graphVars, entry, top, lock, next, cutoff, repair>>
    BY DEF ConnectBack
  <2>2. t \in DOMAIN thread
    BY <1>1 DEF Typed
  <2> QED
    BY <2>1, <2>2
<1>7. links' = [links EXCEPT ![nb][l] = v]
  <2>1. links' = [links EXCEPT ![nb][l] = WithLink(@, nb, p, Capacity(l))]
    BY <1>1, <1>4 DEF ConnectBack
  <2>2. nb \in DOMAIN links /\ l \in DOMAIN links[nb]
    BY <1>5 DEF Inv, GraphOK
  <2> QED
    BY <2>1, <2>2
<1> HIDE DEF r
<1>8. /\ new \in Frames /\ new.pc = "back" /\ new.i = r.i + 1 /\ new.p = r.p /\ new.upto = r.upto
      /\ new.sel = r.sel /\ new.level = r.level
  <2>1. PICK i \in Nat : i = r.i + 1
    BY <1>2
  <2>2. new = [r EXCEPT !.i = i] /\ r \in Frames
    BY <1>1, <2>1
  <2> HIDE DEF new
  <2> QED
    BY <1>0, <2>1, <2>2 DEF Frames
<1> HIDE DEF new
<1>9. Active(new) /\ Linked(r) \subseteq Linked(new) /\ l \in Linked(new)
  BY <1>0, <1>1, <1>8 DEF Active, Linked
<1>10. FrameOK(new)
  <2>1. \E k \in Levels(p) : DOMAIN r.sel = 0 .. k
    BY <1>0, <1>1 DEF FrameOK
  <2>2. new.pc # "start" /\ new.pc # "greedy" /\ new.pc # "search" /\ new.i >= 1
    BY <1>1, <1>2, <1>8
  <2> QED
    BY <1>1, <1>8, <2>1, <2>2 DEF FrameOK
<1>11. Typed' /\ Advance /\ Grows /\ Building'
  BY <1>0, <1>1, <1>6, <1>8, <1>9, <1>10, InnerMove DEF r
<1>12. ~Hidden(p, l)'
  <2>1. p \in Nat /\ new.p >= p /\ (Building' => next' = next /\ stage' = stage)
    BY <1>1, <1>6, <1>8, PositionTypes DEF graphVars
  <2> QED
    BY <1>1, <1>6, <1>9, <1>11, <2>1, Shown DEF Inv, r
<1>13. p \in Visible(l)' /\ Visible(l)' \in SUBSET AllPositions
  <2>1. p \in Positions' /\ l <= set'.level[p] /\ Positions' \subseteq AllPositions
    <3>1. set.level[p] \in Nat
      BY <1>1, PositionTypes
    <3> QED
      BY <1>1, <1>11, <3>1, Advances, PositionTypes DEF Levels
  <2> QED
    BY <1>12, <2>1 DEF Visible
<1>14. ~Hidden(nb, l)' /\ Visible(l) \subseteq Visible(l)'
  <2>1. ~Hidden(nb, l)
    BY <1>4 DEF Visible
  <2> QED
    BY <1>1, <1>5, <1>11, <2>1, Advances
<1>15. IsList(v, Visible(l)' \ {nb}, Capacity(l))
  <2> DEFINE S == Visible(l)' \ {nb}
             list == links[nb][l]
  <2>1. IsList(list, Visible(l) \ {nb}, Capacity(l))
    BY <1>5 DEF Inv, GraphOK
  <2>2. S \in SUBSET AllPositions /\ Visible(l) \ {nb} \subseteq S /\ p \in S
    BY <1>4, <1>13, <1>14
  <2> HIDE DEF S, list
  <2>3. IsList(list, S, Capacity(l))
    BY <1>1, <2>1, <2>2, ListGrows
  <2>4. set \in Sets
    BY <1>1 DEF Typed
  <2>5. IsList(WithLink(list, nb, p, Capacity(l)), S, Capacity(l))
    BY <1>1, <1>5, <2>2, <2>3, <2>4, WithLinkIs
  <2> QED
    BY <2>5 DEF S, list
<1> HIDE DEF v
<1>16. GraphOK'
  BY <1>1, <1>5, <1>7, <1>11, <1>14, <1>15, GraphWritten DEF Inv
<1> QED
  BY <1>0, <1>1, <1>6, <1>8, <1>9, <1>10, <1>16, InnerInv DEF r

\* An insert ends: its node is in, and it is the new entry point when it is above the top level.
LEMMA ReleaseStep ==
    ASSUME Inv, NEW t \in Threads, Active(thread[t]), thread' = [thread EXCEPT ![t] = Finished(thread[t])],
           UNCHANGED <<graphVars, links, next, cutoff, repair>>,
           \/ /\ entry' = thread[t].p /\ top' = set.level[thread[t].p] /\ lock' = NoThread
              /\ lock = t \/ top < 0
           \/ /\ UNCHANGED <<entry, top, lock>>
              /\ lock # t /\ thread[t].pc # "start"
    PROVE  Inv'
<1> DEFINE r == thread[t]
           new == Finished(r)
<1>1. /\ r \in Frames /\ r.p < r.upto /\ r.upto <= count /\ r.upto <= Front /\ r.p \in Positions
      /\ r.p \in Nat /\ r.upto \in Nat /\ r.p \in AllPositions /\ set.level[r.p] \in Nat
      /\ Typed /\ top \in Int /\ count \in Nat
  <2>1. r \in Frames /\ r.p < r.upto /\ r.upto <= count /\ r.upto <= Front /\ r.p \in Positions /\ Typed
    BY PositionTypes DEF Inv, ThreadsOK, FrameOK
  <2> QED
    BY <2>1, PositionTypes DEF Frames, Typed
<1>2. /\ new \in Frames
      /\ IF r.p + 1 < r.upto THEN new.pc = "start" /\ new.p = r.p + 1 /\ new.upto = r.upto /\ Active(new)
         ELSE new.pc = "take" /\ ~Active(new)
  BY <1>1, FinishedIs
<1>3. /\ thread' \in [Threads -> Frames] /\ thread' = [thread EXCEPT ![t] = new] /\ thread'[t] = new
      /\ \A u \in Threads : u # t => thread'[u] = thread[u]
  BY <1>1, <1>2 DEF Typed
<1> HIDE DEF new
<1>4. Building /\ stage' = stage /\ Building'
  BY DEF Inv, Stages, Active, Building, graphVars
<1>5. top' \in Int /\ top' >= top /\ top' >= set.level[r.p] /\ top' >= 0 /\ entry' \in Positions
  <2>1. lock = t => set.level[r.p] > top
    BY DEF Inv, LockOK
  <2>2. lock # t /\ r.pc # "start" => set.level[r.p] <= top
    BY DEF Inv, LockOK
  <2>3. entry \in Positions
    BY <1>1 DEF Typed
  <2> DEFINE k == set.level[r.p]
  <2>4. k \in Nat /\ top \in Int /\ (lock = t => k > top) /\ (lock # t /\ r.pc # "start" => k <= top)
    BY <1>1, <2>1, <2>2
  <2>5. \/ entry' = r.p /\ top' = k /\ (lock = t \/ top < 0)
        \/ entry' = entry /\ top' = top /\ lock # t /\ r.pc # "start"
    OBVIOUS
  <2> HIDE DEF k, r
  <2>6. top' \in Int /\ top' >= top /\ top' >= k /\ top' >= 0
    BY <2>4, <2>5
  <2> QED
    BY <1>1, <2>3, <2>5, <2>6 DEF k
<1>6. lock' \in Threads \cup {NoThread}
  BY DEF Inv, Typed
<1>7. Typed'
  <2>1. top' >= -1
    BY <1>1, <1>5
  <2>2. thread' \in [Threads -> Frames]
    BY <1>3
  <2>3. /\ set' \in Sets /\ count' \in 1 .. Cardinality(AllPositions') /\ dead' \subseteq Positions'
        /\ next' \in Nat /\ cutoff' \in {"no", "cancelled", "error"}
        /\ repair' \in [pass : Nat, p : Nat, seen : SUBSET Nat, made : Nat, last : Int]
        /\ stage' \in {"build", "repair", "built", "extend", "repair again", "extended", "refused"}
    BY <1>1 DEF Typed, graphVars, Positions, AllPositions
  <2>4. entry' \in Positions'
    BY <1>5 DEF Positions, graphVars
  <2> QED
    BY <1>5, <1>6, <2>1, <2>2, <2>3, <2>4 DEF Typed
<1>8. Front' = Front /\ Front \in Nat
  BY <1>1, <1>4, FrontType DEF Front, First, graphVars
<1>9. \A u \in Threads : Follows(thread[u], thread'[u])
  <2> TAKE u \in Threads
  <2>1. CASE u = t
    BY <1>1, <1>2, <1>3, <2>1 DEF Follows
  <2>2. CASE u # t
    <3>1. thread[u].p \in Nat
      BY <1>1, PositionTypes DEF Frames
    <3> QED
      BY <1>3, <2>2, <3>1 DEF Follows
  <2> QED
    BY <2>1, <2>2
<1>10. Advance /\ Grows
  <2>1. Advance
    BY <1>4, <1>8, <1>9 DEF Advance, graphVars
  <2> QED
    BY <1>1, <1>7, <2>1, Advances
<1>11. GraphOK'
  BY <1>1, <1>7, <1>10, GraphKept DEF Inv
<1>12. FrameOK(new)
  <2>1. CASE Active(new)
    <3>1. new.p = r.p + 1 /\ new.upto = r.upto /\ new.p < new.upto /\ new.pc = "start"
      BY <1>2, <2>1
    <3>2. new.p \in Positions
      BY <1>1, <3>1 DEF Positions
    <3> QED
      BY <1>1, <3>1, <3>2 DEF FrameOK
  <2>2. CASE ~Active(new)
    BY <2>2 DEF FrameOK
  <2> QED
    BY <2>1, <2>2
<1>13. ThreadsOK'
  <2>1. PICK w \in Frames : w = new
    BY <1>2
  <2>2. FrameOK(w)
    BY <1>12, <2>1
  <2>3. FrameOK(w)'
    BY <1>1, <1>4, <1>7, <1>10, <2>2, FrameKept
  <2>4. thread' = [thread EXCEPT ![t] = w]
    BY <1>3, <2>1
  <2> QED
    BY <1>1, <1>4, <1>7, <1>10, <2>3, <2>4, FramesMove DEF Inv
<1>14. Disjoint'
  BY <1>1, <1>7, <1>10, Advances DEF Inv
<1>15. PICK p \in AllPositions : p = r.p
  BY <1>1
<1>16. ~Pending(p)'
  <2>1. p \in Nat /\ (Active(new) => new.p >= p) /\ (Building' => next' = next /\ stage' = stage)
    BY <1>1, <1>2, <1>4, <1>15
  <2>2. Active(new) => new.p # p
    BY <1>1, <1>2, <1>15
  <2> QED
    BY <1>1, <1>3, <1>7, <1>10, <1>15, <2>1, <2>2, Shown DEF Inv
<1>17. EntryOK'
  <2>1. CASE entry' = r.p /\ top' = set.level[r.p]
    <3>1. entry' = p /\ set'.level[entry'] = top'
      BY <1>15, <2>1 DEF graphVars
    <3>2. ~Pending(entry)'
      BY <1>16, <3>1 DEF Pending
    <3> QED
      BY <1>5, <3>1, <3>2 DEF EntryOK
  <2>2. CASE entry' = entry /\ top' = top
    <3>1. entry \in Positions /\ set.level[entry] = top /\ ~Pending(entry)
      BY <1>1, <1>5, <2>2 DEF Inv, EntryOK, Typed
    <3>2. PICK e \in Positions : e = entry
      BY <3>1
    <3>3. ~Pending(e)'
      BY <1>1, <1>7, <1>10, <3>1, <3>2, Advances
    <3>4. ~Pending(entry)' /\ set'.level[entry'] = top'
      BY <2>2, <3>1, <3>2, <3>3 DEF Pending, graphVars
    <3> QED
      BY <1>5, <3>4 DEF EntryOK
  <2> QED
    BY <2>1, <2>2
<1>18. LockOK'
  <2>1. ASSUME NEW u \in Threads
        PROVE  /\ lock' = u => /\ Active(thread'[u]) /\ thread'[u].pc # "start"
                               /\ top' >= 0 /\ set'.level[thread'[u].p] > top'
               /\ Active(thread'[u]) /\ thread'[u].pc # "start" /\ lock' # u => set'.level[thread'[u].p] <= top'
    <3>1. CASE u = t
      <4>1. lock' # t
        BY GraphConstants
      <4>2. Active(thread'[t]) => thread'[t].pc = "start"
        BY <1>2, <1>3
      <4> QED
        BY <3>1, <4>1, <4>2
    <3>2. CASE u # t
      <4>1. thread'[u] = thread[u] /\ set' = set
        BY <1>3, <3>2 DEF graphVars
      <4>2. Active(thread[u]) => thread[u].p \in Positions
        BY DEF Inv, ThreadsOK, FrameOK
      <4>3. Active(thread[u]) => set.level[thread[u].p] \in Nat
        BY <1>1, <4>2, PositionTypes
      <4>4. CASE lock' = NoThread /\ (lock = t \/ top < 0)
        <5>1. Active(thread[u]) => lock = t /\ t # u /\ top >= 0
          BY <1>1, <3>2, <4>4 DEF Inv, EntryOK, LockOK
        <5>2. Active(thread[u]) /\ thread[u].pc # "start" => set.level[thread[u].p] <= top
          BY <5>1 DEF Inv, LockOK
        <5>3. lock' # u
          BY <4>4, GraphConstants
        <5> QED
          BY <1>1, <1>5, <4>1, <4>3, <5>2, <5>3
      <4>5. CASE UNCHANGED <<entry, top, lock>>
        BY <4>1, <4>5 DEF Inv, LockOK
      <4> QED
        BY <4>4, <4>5
    <3> QED
      BY <3>1, <3>2
  <2> QED
    BY <2>1 DEF LockOK
<1>19. Tops'
  <2>1. ASSUME NEW x \in Positions, Pending(x), x # p PROVE Pending(x)'
    <3>1. x \in Nat
      BY <1>1, PositionTypes
    <3>2. CASE Owns(r, x)
      <4>1. r.p + 1 <= x /\ x < r.upto /\ r.p + 1 < r.upto
        BY <1>1, <1>15, <2>1, <3>1, <3>2 DEF Owns
      <4>2. Owns(thread'[t], x)
        BY <1>2, <1>3, <4>1 DEF Owns
      <4> QED
        BY <4>2 DEF Pending
    <3>3. CASE \E u \in Threads : u # t /\ Owns(thread[u], x)
      BY <1>3, <3>3 DEF Pending
    <3>4. CASE Building /\ x >= Front
      BY <1>4, <1>8, <3>4 DEF Pending
    <3> QED
      BY <2>1, <3>2, <3>3, <3>4 DEF Pending
  <2>2. \A x \in Positions : set.level[x] \in Nat
    BY <1>1, PositionTypes
  <2>3. Positions' = Positions /\ set' = set /\ cutoff' = cutoff
    BY DEF graphVars, Positions
  <2>4. thread'[Caller].pc = "ended" => thread[Caller].pc = "ended"
    BY <1>2, <1>3, GraphConstants
  <2>5. cutoff = "no" => \A x \in Positions : set.level[x] <= top' \/ Pending(x)'
    BY <1>1, <1>5, <1>15, <2>1, <2>2 DEF Inv, Tops
  <2>6. cutoff = "no" /\ Building /\ thread'[Caller].pc = "ended" => Front' >= count
    BY <1>8, <2>4 DEF Inv, Tops
  <2> QED
    BY <1>4, <2>3, <2>5, <2>6 DEF Tops, graphVars
<1>20. Stages' /\ RepairOK'
  BY <1>4, <1>5 DEF Inv, Stages, RepairOK, Building, graphVars, AllPositions
<1> QED
  BY <1>7, <1>11, <1>13, <1>14, <1>17, <1>18, <1>19, <1>20 DEF Inv

\* A level is linked: the next one follows, or the insert ends.
LEMMA LevelLinkedStep == ASSUME Inv, NEW t \in Threads, LevelLinked(t) PROVE Inv'
<1> DEFINE r == thread[t]
           new == [r EXCEPT !.pc = "own", !.level = r.level + 1, !.i = 0]
<1>0. r.pc = "back"
  BY DEF LevelLinked
<1>1. PICK p \in AllPositions, l \in Nat :
              /\ p = r.p /\ l = r.level /\ l \in DOMAIN r.sel /\ l \in Levels(p)
              /\ r \in Frames /\ Active(r) /\ FrameOK(r) /\ r.i >= 1
              /\ p \in Positions /\ p < r.upto /\ r.upto <= count /\ r.upto <= Front
              /\ \A j \in DOMAIN r.sel : IsList(r.sel[j], Visible(j) \ {p}, M)
              /\ Typed /\ M \in Nat \ {0} /\ Capacity(l) \in Nat \ {0}
  BY <1>0, LinkingFacts
<1>2. CASE r.level + 1 \in DOMAIN r.sel
  <2>1. /\ thread' = [thread EXCEPT ![t] = new] /\ links' = links
        /\ UNCHANGED <<graphVars, entry, top, lock, next, cutoff, repair>>
    BY <1>2 DEF LevelLinked
  <2> HIDE DEF r
  <2>2. /\ new \in Frames /\ new.pc = "own" /\ new.p = r.p /\ new.upto = r.upto
        /\ new.sel = r.sel /\ new.level = l + 1
    <3>1. r.level + 1 \in Nat /\ r.level + 1 = l + 1 /\ r \in Frames
      BY <1>1
    <3> QED
      BY <3>1 DEF Frames
  <2> HIDE DEF new
  <2>3. Active(new) /\ Linked(r) \subseteq Linked(new)
    BY <1>0, <1>1, <2>2 DEF Active, Linked
  <2>4. FrameOK(new)
    <3>1. \E k \in Levels(p) : DOMAIN r.sel = 0 .. k
      BY <1>0, <1>1 DEF FrameOK
    <3>2. new.pc # "start" /\ new.pc # "greedy" /\ new.pc # "search" /\ new.pc # "back"
      BY <2>2
    <3>3. new.level \in DOMAIN new.sel
      BY <1>1, <1>2, <2>2
    <3> QED
      BY <1>1, <2>2, <3>1, <3>2, <3>3 DEF FrameOK
  <2> QED
    BY <1>0, <1>1, <2>1, <2>2, <2>3, <2>4, InnerInv DEF r
<1>3. CASE ~(r.level + 1 \in DOMAIN r.sel)
  <2>1. /\ thread' = [thread EXCEPT ![t] = Finished(r)]
        /\ UNCHANGED <<graphVars, links, next, cutoff, repair>>
        /\ IF lock = t THEN entry' = r.p /\ top' = set.level[r.p] /\ lock' = NoThread
           ELSE UNCHANGED <<entry, top, lock>>
    BY <1>3 DEF LevelLinked
  <2> QED
    BY <1>0, <1>1, <2>1, ReleaseStep
<1> QED
  BY <1>2, <1>3

\* The entry point is a node that every thread may see, on the top level.
LEMMA EntryVisible ==
    ASSUME Inv, top >= 0
    PROVE  /\ entry \in Visible(top) /\ entry \in Positions /\ top \in Nat
           /\ \A t \in Threads : Active(thread[t]) => thread[t].p # entry
<1>1. entry \in Positions /\ top \in Nat /\ set.level[entry] = top /\ ~Pending(entry) /\ Typed
  <2>1. Typed /\ set.level[entry] = top /\ ~Pending(entry)
    BY DEF Inv, EntryOK
  <2>2. entry \in Positions /\ top \in Int
    BY <2>1 DEF Typed
  <2> QED
    BY <2>1, <2>2
<1>2. ~(entry >= count)
  BY <1>1, PositionTypes DEF Positions
<1>3. ~Hidden(entry, top)
  BY <1>1, <1>2 DEF Hidden, Pending, Hides, Owns
<1>4. \A t \in Threads : Active(thread[t]) => Owns(thread[t], thread[t].p)
  <2> TAKE t \in Threads
  <2>1. thread[t].p \in Nat
    BY <1>1, PositionTypes DEF Frames
  <2> QED
    BY <2>1 DEF Owns, Inv, ThreadsOK, FrameOK
<1>5. \A t \in Threads : Active(thread[t]) => thread[t].p # entry
  BY <1>1, <1>4 DEF Pending
<1> QED
  BY <1>1, <1>3, <1>5 DEF Visible

\* The entry point is read: it is visible, and not the node itself.
LEMMA StartStep == ASSUME Inv, NEW t \in Threads, Start(t) PROVE Inv'
<1> DEFINE r == thread[t]
           K == LowTop(t, top)
           r2 == [r EXCEPT !.sel = [l \in 0 .. K |-> <<>>]]
           new == At(r2, top, entry)
<1>1. /\ r \in Frames /\ r.pc = "start" /\ Active(r) /\ FrameOK(r) /\ Typed
      /\ r.p \in Positions /\ r.p < r.upto /\ r.upto <= count /\ r.upto <= Front
      /\ r.p \in AllPositions /\ set.level[r.p] \in Nat /\ top \in Int /\ lock = NoThread
  <2>1. r \in Frames /\ r.pc = "start" /\ Active(r) /\ FrameOK(r) /\ Typed /\ lock = NoThread
    BY PositionTypes DEF Inv, Start, ThreadsOK, Active
  <2>2. r.p \in Positions /\ r.p < r.upto /\ r.upto <= count /\ r.upto <= Front
    BY <2>1 DEF FrameOK
  <2>3. r.p \in AllPositions /\ set.level[r.p] \in Nat
    BY <2>1, <2>2, PositionTypes
  <2>4. top \in Int
    BY <2>1 DEF Typed
  <2> QED
    BY <2>1, <2>2, <2>3, <2>4
<1>2. CASE top < 0
  <2>1. /\ thread' = [thread EXCEPT ![t] = Finished(r)] /\ UNCHANGED <<graphVars, links, next, cutoff, repair>>
        /\ entry' = r.p /\ top' = set.level[r.p] /\ lock' = NoThread
    BY <1>1, <1>2 DEF Start
  <2> QED
    BY <1>1, <1>2, <2>1, ReleaseStep
<1>3. CASE ~(top < 0)
  <2>1. /\ thread' = [thread EXCEPT ![t] = new]
        /\ lock' = IF set.level[r.p] > top THEN t ELSE NoThread
        /\ UNCHANGED <<graphVars, links, entry, top, next, cutoff, repair>>
    BY <1>3 DEF Start
  <2>2. top \in Nat /\ entry \in Visible(top) /\ entry \in Positions /\ entry # r.p
    BY <1>1, <1>3, EntryVisible
  <2>3. K \in Nat /\ K <= top /\ K <= set.level[r.p] /\ K \in Levels(r.p)
        /\ (top > set.level[r.p] => K = set.level[r.p]) /\ (~(top > set.level[r.p]) => K = top)
    BY <1>1, <2>2 DEF LowTop, LevelOf, Levels
  <2> HIDE DEF r, K
  <2> DEFINE sel == [l \in 0 .. K |-> <<>>]
  <2>4. sel \in Picks /\ DOMAIN sel = 0 .. K /\ \A l \in 0 .. K : sel[l] = <<>>
    <3>1. sel \in [0 .. K -> Seq(Nat)]
      OBVIOUS
    <3> QED
      BY <2>3, <3>1 DEF Picks
  <2>5. r2 = [r EXCEPT !.sel = sel]
    OBVIOUS
  <2> HIDE DEF sel, r2
  <2>6. r2 \in Frames /\ r2.p = r.p /\ r2.upto = r.upto /\ r2.sel = sel
    BY <1>1, <2>4, <2>5 DEF Frames
  <2>7. /\ new \in Frames /\ new.p = r.p /\ new.upto = r.upto /\ new.sel = sel /\ new.level = top /\ new.cur = entry
        /\ IF top > set.level[r.p] THEN new.pc = "greedy"
           ELSE new.pc = "search" /\ new.beam.cand = {entry} /\ new.beam.top \subseteq {entry}
    BY <1>1, <2>2, <2>6, AtIs
  <2> HIDE DEF new
  <2>8. Active(new) /\ Linked(new) = {} /\ new.pc # "start" /\ new.pc # "ended"
    BY <2>7 DEF Active, Linked
  <2>9. PICK w \in Frames : w = new
    BY <2>7
  <2>10. FrameOK(w)
    <3>1. \A l \in DOMAIN sel : IsList(sel[l], Visible(l) \ {r.p}, M)
      <4>1. \A S : IsList(<<>>, S, M)
        BY GraphConstants DEF IsList
      <4> QED
        BY <2>4, <4>1
    <3>2. \E j \in Levels(r.p) : DOMAIN sel = 0 .. j
      BY <2>3, <2>4
    <3>3. top > set.level[r.p] => DOMAIN sel = Levels(r.p)
      BY <2>3, <2>4 DEF Levels
    <3>4. ~(top > set.level[r.p]) => top \in DOMAIN sel
      BY <2>2, <2>3, <2>4
    <3> QED
      BY <1>1, <2>2, <2>7, <2>8, <2>9, <3>1, <3>2, <3>3, <3>4 DEF FrameOK
  <2>11. /\ thread' \in [Threads -> Frames] /\ thread' = [thread EXCEPT ![t] = w] /\ thread'[t] = w
         /\ \A u \in Threads : u # t => thread'[u] = thread[u]
    BY <1>1, <2>1, <2>9 DEF Typed
  <2>12. Building /\ stage' = stage /\ Building'
    BY <1>1, <2>1 DEF Inv, Stages, Active, Building, graphVars, r
  <2>13. Front' = Front /\ Front \in Nat
    BY <1>1, <2>1, <2>12, FrontType DEF Front, First, graphVars
  <2>14. Typed'
    <3>1. lock' \in Threads \cup {NoThread}
      BY <2>1
    <3> QED
      BY <1>1, <2>1, <2>11, <3>1 DEF Typed, graphVars, Positions, AllPositions
  <2>15. \A u \in Threads : Follows(thread[u], thread'[u])
    <3> TAKE u \in Threads
    <3>1. thread[u].p \in Nat
      BY <1>1, PositionTypes DEF Frames
    <3>2. CASE u = t
      BY <1>1, <2>7, <2>9, <2>11, <3>1, <3>2 DEF Follows, Linked, r
    <3>3. CASE u # t
      BY <2>11, <3>1, <3>3 DEF Follows
    <3> QED
      BY <3>2, <3>3
  <2>16. Advance /\ Grows
    <3>1. Advance
      BY <2>1, <2>12, <2>13, <2>15 DEF Advance, graphVars
    <3> QED
      BY <1>1, <2>14, <3>1, Advances
  <2>17. GraphOK'
    BY <1>1, <2>1, <2>14, <2>16, GraphKept DEF Inv
  <2>18. ThreadsOK'
    <3>1. FrameOK(w)'
      BY <1>1, <2>10, <2>12, <2>14, <2>16, FrameKept
    <3> QED
      BY <1>1, <2>11, <2>12, <2>14, <2>16, <3>1, FramesMove DEF Inv
  <2>19. Disjoint'
    BY <1>1, <2>14, <2>16, Advances DEF Inv
  <2>20. \A u \in Threads : /\ Active(thread'[u]) <=> Active(thread[u])
                            /\ thread'[u].pc = "ended" <=> thread[u].pc = "ended"
                            /\ thread'[u].p = thread[u].p /\ thread'[u].upto = thread[u].upto
    BY <1>1, <2>7, <2>8, <2>9, <2>11 DEF r
  <2>21. \A x : Pending(x)' <=> Pending(x)
    BY <2>12, <2>13, <2>20 DEF Pending, Owns, Building
  <2>22. EntryOK'
    BY <1>1, <1>3, <2>1, <2>21 DEF Inv, EntryOK, graphVars
  <2>23. LockOK'
    <3> SUFFICES ASSUME NEW u \in Threads
                 PROVE  /\ lock' = u => /\ Active(thread'[u]) /\ thread'[u].pc # "start"
                                        /\ top' >= 0 /\ set'.level[thread'[u].p] > top'
                        /\ Active(thread'[u]) /\ thread'[u].pc # "start" /\ lock' # u =>
                              set'.level[thread'[u].p] <= top'
      BY DEF LockOK
    <3>1. NoThread # u /\ NoThread # t
      BY GraphConstants
    <3>2. set' = set /\ top' = top
      BY <2>1 DEF graphVars
    <3>3. CASE u = t
      BY <1>1, <2>1, <2>2, <2>7, <2>8, <2>9, <2>11, <3>1, <3>2, <3>3
    <3>4. CASE u # t
      <4>1. thread'[u] = thread[u] /\ lock' # u
        BY <2>1, <2>11, <3>1, <3>4
      <4> QED
        BY <1>1, <3>1, <3>2, <4>1 DEF Inv, LockOK
    <3> QED
      BY <3>3, <3>4
  <2>24. Tops'
    <3>1. Caller \in Threads
      BY GraphConstants
    <3> QED
      BY <2>1, <2>12, <2>13, <2>20, <2>21, <3>1 DEF Inv, Tops, graphVars, Positions
  <2>25. Stages' /\ RepairOK'
    BY <2>1, <2>12 DEF Inv, Stages, RepairOK, Building, graphVars, AllPositions
  <2> QED
    BY <2>14, <2>17, <2>18, <2>19, <2>22, <2>23, <2>24, <2>25 DEF Inv
<1> QED
  BY <1>2, <1>3

------------------------------------------------------------------------------
(* Ranges are taken, and a build is cut off.                               *)

\* How many blocks of d hold a positions.
LEMMA Blocks ==
    ASSUME NEW a \in Nat, NEW d \in Nat \ {0}
    PROVE  /\ (a + d - 1) \div d \in Nat
           /\ \A n \in Nat : n >= (a + d - 1) \div d <=> n * d >= a
<1> DEFINE b == a + d - 1
           k == b \div d
<1>1. b \in Nat
  OBVIOUS
<1> HIDE DEF b
<1>2. k \in Nat /\ k * d <= b /\ b < k * d + d
  BY <1>1
<1> HIDE DEF k
<1>3. \A n \in Nat : n >= k => n * d >= k * d
  <2> TAKE n \in Nat
  <2>1. n >= k => (n - k) * d >= 0
    <3>1. n >= k => n - k \in Nat
      BY <1>2
    <3> QED
      BY <3>1
  <2>2. (n - k) * d = n * d - k * d
    BY <1>2
  <2>3. n * d \in Int /\ k * d \in Int
    BY <1>2
  <2> QED
    BY <2>1, <2>2, <2>3
<1>4. \A n \in Nat : n < k => n * d <= k * d - d
  <2> TAKE n \in Nat
  <2>1. n < k => (k - 1 - n) * d >= 0
    BY <1>2
  <2>2. (k - 1 - n) * d = k * d - d - n * d
    BY <1>2
  <2>3. n * d \in Int /\ k * d \in Int
    BY <1>2
  <2> QED
    BY <2>1, <2>2, <2>3
<1>5. k * d \in Int /\ \A n \in Nat : n * d \in Int
  BY <1>2
<1>6. k * d >= a /\ k * d - d < a
  BY <1>2, <1>5 DEF b
<1>7. ASSUME NEW n \in Nat PROVE n >= k <=> n * d >= a
  BY <1>2, <1>3, <1>4, <1>5, <1>6
<1> QED
  BY <1>2, <1>7 DEF k, b

\* No range is left exactly when the front has reached the end.
LEMMA RangesAre ==
    ASSUME Inv, Building
    PROVE  /\ Ranges \in Nat /\ First \in Nat /\ First <= count
           /\ next >= Ranges <=> Front >= count
           /\ First + Ranges * RangeSize >= count /\ First + Ranges * RangeSize \in Nat
<1>1. Typed /\ count \in Nat \ {0} /\ next \in Nat /\ RangeSize \in Nat \ {0}
  BY PositionTypes, GraphConstants DEF Inv, Typed
<1>2. First \in Nat /\ First <= count
  <2>1. set.base \in 1 .. Cardinality(AllPositions) /\ Cardinality(AllPositions) \in Nat
    BY <1>1, SetTypes DEF Typed
  <2>2. count \in {set.base, Cardinality(AllPositions)}
    BY DEF Inv, Stages
  <2> QED
    BY <1>1, <2>1, <2>2 DEF First
<1> DEFINE a == count - First
<1>3. a \in Nat
  BY <1>1, <1>2
<1>4. Ranges = (a + RangeSize - 1) \div RangeSize
  BY DEF Ranges
<1>5. Ranges \in Nat /\ \A n \in Nat : n >= Ranges <=> n * RangeSize >= a
  BY <1>1, <1>3, <1>4, Blocks
<1>6. \A n \in Nat : n * RangeSize \in Nat
  BY <1>1
<1>7. next >= Ranges <=> First + next * RangeSize >= count
  BY <1>1, <1>2, <1>5, <1>6
<1>8. Ranges * RangeSize >= a
  BY <1>5
<1>9. First + Ranges * RangeSize >= count
  BY <1>1, <1>2, <1>5, <1>6, <1>8
<1> QED
  BY <1>1, <1>2, <1>5, <1>6, <1>7, <1>9 DEF Front

\* A thread takes the next range: it holds what was at the front, and nobody else does.
LEMMA TakeStep == ASSUME Inv, NEW t \in Threads, Take(t) PROVE Inv'
<1> DEFINE end == IF Front + RangeSize < count THEN Front + RangeSize ELSE count
           new == IF next >= Ranges THEN Ended ELSE Inserting(Front, end)
<1>1. /\ Typed /\ thread[t] \in Frames /\ thread[t].pc = "take" /\ ~Active(thread[t]) /\ top >= 0
      /\ next \in Nat /\ RangeSize \in Nat \ {0} /\ Front \in Nat /\ count \in Nat /\ First \in Nat
      /\ next * RangeSize \in Nat
  BY PositionTypes, FrontType, GraphConstants DEF Inv, Take, Active, Typed
<1>2. Building
  BY <1>1 DEF Inv, Stages
<1>3. /\ next' = next + 1 /\ thread' = [thread EXCEPT ![t] = new]
      /\ UNCHANGED <<graphVars, links, entry, top, lock, cutoff, repair>>
  BY DEF Take, Front
<1>4. stage' = stage /\ Building' /\ First' = First /\ Front' = Front + RangeSize
  <2>1. stage' = stage /\ First' = First
    BY <1>3 DEF graphVars, First
  <2>2. (next + 1) * RangeSize = next * RangeSize + RangeSize
    BY <1>1
  <2> QED
    BY <1>1, <1>2, <1>3, <2>1, <2>2 DEF Front, Building
<1>5. next >= Ranges <=> Front >= count
  BY <1>2, RangesAre
<1>6. /\ new \in Frames /\ end \in Nat
      /\ IF Front >= count THEN new = Ended /\ new.pc = "ended" /\ ~Active(new)
         ELSE new.pc = "start" /\ Active(new) /\ new.p = Front /\ new.upto = end
  BY <1>1, <1>5, EndedIs DEF Active
<1>7. end <= count /\ end <= Front + RangeSize /\ (Front < count => Front < end)
      /\ \A x \in Nat : Front <= x /\ x < count => x < end \/ x >= Front + RangeSize
  BY <1>1
<1> HIDE DEF new, end
<1>8. /\ thread' \in [Threads -> Frames] /\ thread'[t] = new
      /\ \A u \in Threads : u # t => thread'[u] = thread[u]
  BY <1>1, <1>3, <1>6 DEF Typed
<1>9. Typed'
  <2>1. next' \in Nat
    BY <1>1, <1>3
  <2>2. UNCHANGED <<set, dead, count, stage, entry, top, lock, cutoff, repair>> /\ thread' \in [Threads -> Frames]
    BY <1>3, <1>8 DEF graphVars
  <2> QED
    BY <1>1, <2>1, <2>2 DEF Typed, Positions, AllPositions
\* No position becomes pending or hidden.
<1>10. \A u \in Threads : thread[u].p \in Nat /\ thread[u].upto \in Nat
  BY <1>1, PositionTypes DEF Frames
<1>11. ASSUME NEW x \in Nat, x < count
       PROVE  /\ Pending(x)' <=> Pending(x)
              /\ \A l : Hidden(x, l)' => Hidden(x, l)
  <2>1. \A u \in Threads : /\ Owns(thread[u], x) => Owns(thread'[u], x)
                           /\ Owns(thread'[u], x) => Owns(thread[u], x) \/ x >= Front
                           /\ \A l : Hides(thread'[u], x, l) => Hides(thread[u], x, l) \/ x >= Front
    <3> TAKE u \in Threads
    <3>1. CASE u = t
      BY <1>1, <1>6, <1>8, <3>1 DEF Owns, Hides
    <3>2. CASE u # t
      BY <1>8, <3>2
    <3> QED
      BY <3>1, <3>2
  <2>2. x >= Front' => x >= Front
    BY <1>1, <1>4
  <2>3. x >= Front /\ ~(x >= Front') => Owns(thread'[t], x)
    BY <1>1, <1>4, <1>6, <1>7, <1>8, <1>11 DEF Owns
  <2>4. Pending(x)' <=> Pending(x)
    BY <1>2, <1>4, <2>1, <2>2, <2>3 DEF Pending
  <2>5. \A l : Hidden(x, l)' => Hidden(x, l)
    BY <1>2, <1>3, <1>4, <1>11, <2>1, <2>2 DEF Hidden, graphVars
  <2> QED
    BY <2>4, <2>5
<1>12. Positions' = Positions /\ AllPositions' = AllPositions /\ set' = set /\ count' = count
  BY <1>3 DEF graphVars, Positions, AllPositions
<1>13. AllPositions \subseteq Nat /\ Positions \subseteq AllPositions /\ \A x \in Positions : x < count
  BY <1>1, PositionTypes DEF Positions
<1>14. ASSUME NEW x \in AllPositions, NEW l, Hidden(x, l)' PROVE Hidden(x, l)
  <2>1. CASE x < count
    BY <1>11, <1>13, <1>14, <2>1
  <2>2. CASE ~(x < count)
    BY <1>1, <1>13, <2>2 DEF Hidden
  <2> QED
    BY <2>1, <2>2
<1>15. Grows
  BY <1>1, <1>4, <1>12, <1>14 DEF Grows
<1>16. GraphOK'
  BY <1>1, <1>3, <1>9, <1>15, GraphKept DEF Inv
<1>17. ThreadsOK'
  <2>1. PICK w \in Frames : w = new
    BY <1>6
  <2>2. Active(w) => w.p \in Positions' /\ w.p < w.upto /\ w.upto <= count' /\ w.upto <= Front' /\ w.pc = "start"
    BY <1>1, <1>4, <1>6, <1>7, <1>12, <2>1 DEF Positions
  <2>3. FrameOK(w)'
    BY <2>2 DEF FrameOK, Active
  <2>4. thread' = [thread EXCEPT ![t] = w]
    BY <1>3, <2>1
  <2> QED
    BY <1>1, <1>4, <1>9, <1>15, <2>3, <2>4, FramesMove DEF Inv
<1>18. Disjoint'
  <2>1. \A u \in Threads : Active(thread[u]) => thread[u].upto <= Front
    BY DEF Inv, ThreadsOK, FrameOK
  <2>2. Active(new) => new.p = Front
    BY <1>6
  <2>3. \A u, w \in Threads :
           u # w /\ Active(thread'[u]) /\ Active(thread'[w]) =>
               thread'[u].upto <= thread'[w].p \/ thread'[w].upto <= thread'[u].p
    BY <1>8, <2>1, <2>2 DEF Inv, Disjoint
  <2> QED
    BY <2>3 DEF Disjoint
<1>19. EntryOK'
  <2>1. PICK e \in Positions : e = entry
    BY <1>1 DEF Typed
  <2>2. set.level[e] = top /\ ~Pending(e)
    BY <1>1, <2>1 DEF Inv, EntryOK
  <2>3. ~Pending(e)'
    BY <1>11, <1>13, <2>2
  <2>4. entry' = entry /\ top' = top
    BY <1>3
  <2>5. ~Pending(entry)'
    BY <2>1, <2>3, <2>4 DEF Pending
  <2>6. ~(top < 0) /\ set'.level[entry'] = top'
    <3>1. top \in Int
      BY <1>1 DEF Typed
    <3> QED
      BY <1>1, <1>12, <2>1, <2>2, <2>4, <3>1
  <2> QED
    BY <2>4, <2>5, <2>6 DEF EntryOK
<1>20. LockOK'
  <2>1. Active(new) => new.pc = "start"
    BY <1>6
  <2>2. lock # t
    BY <1>1 DEF Inv, LockOK
  <2>3. \A u \in Threads :
           /\ lock' = u => /\ Active(thread'[u]) /\ thread'[u].pc # "start"
                           /\ top' >= 0 /\ set'.level[thread'[u].p] > top'
           /\ Active(thread'[u]) /\ thread'[u].pc # "start" /\ lock' # u => set'.level[thread'[u].p] <= top'
    BY <1>3, <1>8, <1>12, <2>1, <2>2 DEF Inv, LockOK
  <2> QED
    BY <2>3 DEF LockOK
<1>21. Tops'
  <2>1. cutoff = "no" => \A x \in Positions : set.level[x] <= top \/ Pending(x)'
    BY <1>11, <1>13 DEF Inv, Tops
  <2>2. ASSUME cutoff = "no", thread'[Caller].pc = "ended" PROVE Front' >= count
    <3>1. CASE Caller = t
      BY <1>1, <1>4, <1>6, <1>8, <2>2, <3>1
    <3>2. CASE Caller # t
      BY <1>1, <1>2, <1>4, <1>8, <2>2, <3>2, GraphConstants DEF Inv, Tops
    <3> QED
      BY <3>1, <3>2
  <2> QED
    BY <1>3, <1>12, <2>1, <2>2 DEF Tops
<1>22. Stages' /\ RepairOK'
  BY <1>1, <1>2, <1>3, <1>4 DEF Inv, Stages, RepairOK, Building, graphVars, AllPositions
<1> QED
  BY <1>9, <1>16, <1>17, <1>18, <1>19, <1>20, <1>21, <1>22 DEF Inv

\* A frame that is right stays right under another name.
LEMMA FrameMoved == ASSUME NEW u, NEW r, FrameOK(r)', r = thread'[u] PROVE FrameOK(thread[u])'
BY Zenon DEF FrameOK

\* Nothing is asked of a thread that inserts nothing.
LEMMA IdleFrame == ASSUME NEW u, ~Active(thread[u])' PROVE FrameOK(thread[u])'
BY DEF FrameOK

\* A build is cut off: some threads end, and no new range starts.
LEMMA CutStep ==
    ASSUME Inv, Building, NEW T \in SUBSET Threads,
           thread' = [u \in Threads |-> IF u \in T THEN Ended ELSE thread[u]],
           lock' = (IF lock \in T THEN NoThread ELSE lock),
           next' = Ranges, cutoff' \in {"cancelled", "error"}, UNCHANGED <<graphVars, links, entry, top, repair>>
    PROVE  Inv'
<1>1. Typed /\ \A u \in Threads : thread[u] \in Frames /\ thread[u].p \in Nat
  BY PositionTypes DEF Inv, Frames
<1>2. /\ \A u \in Threads : thread'[u] = IF u \in T THEN Ended ELSE thread[u]
      /\ thread' \in [Threads -> Frames]
  BY <1>1, EndedIs
<1>3. Ranges \in Nat /\ First + Ranges * RangeSize >= count
  BY RangesAre
<1>4. UNCHANGED <<set, dead, count, stage, links, entry, top, repair>> /\ Building'
  BY DEF graphVars, Building
<1>5. Typed'
  <2>1. lock' \in Threads \cup {NoThread}
    BY <1>1 DEF Typed
  <2> QED
    BY <1>1, <1>2, <1>3, <1>4, <2>1 DEF Typed, Positions, AllPositions
<1>6. Advance /\ Grows
  <2>1. Front' >= count'
    BY <1>3, <1>4 DEF Front, First
  <2>2. \A u \in Threads : Follows(thread[u], thread'[u])
    BY <1>1, <1>2, EndedIs DEF Follows
  <2>3. Advance
    BY <1>4, <2>1, <2>2 DEF Advance, Building
  <2> QED
    BY <1>1, <1>5, <2>3, Advances
<1>7. GraphOK'
  BY <1>1, <1>4, <1>5, <1>6, GraphKept DEF Inv
<1>8. ThreadsOK'
  <2> SUFFICES ASSUME NEW u \in Threads PROVE FrameOK(thread[u])'
    BY DEF ThreadsOK
  <2>1. CASE u \in T
    <3>1. PICK r : r = thread'[u] /\ ~Active(r)
      BY <1>2, <2>1, EndedIs
    <3>2. ~(thread'[u].pc \in {"start", "greedy", "search", "own", "back"})
      BY <3>1 DEF Active
    <3>3. ~Active(thread[u])'
      BY <3>2 DEF Active
    <3> QED
      BY <3>3, IdleFrame
  <2>2. CASE u \notin T
    <3>1. PICK r \in Frames : r = thread[u] /\ FrameOK(r)
      BY <1>1 DEF Inv, ThreadsOK
    <3>2. FrameOK(r)' /\ thread'[u] = r
      BY <1>1, <1>2, <1>4, <1>5, <1>6, <2>2, <3>1, FrameKept
    <3> QED
      BY <3>2, FrameMoved
  <2> QED
    BY <2>1, <2>2
<1>9. Disjoint'
  BY <1>1, <1>5, <1>6, Advances DEF Inv
<1>10. \A u \in Threads : Active(thread'[u]) => u \notin T /\ thread'[u] = thread[u]
  BY <1>2, EndedIs
<1>11. EntryOK'
  <2>1. PICK e \in Positions : e = entry
    BY <1>1 DEF Typed
  <2>2. top >= 0 => set.level[e] = top /\ ~Pending(e)
    BY <2>1 DEF Inv, EntryOK
  <2>3. top >= 0 => ~Pending(e)'
    BY <1>1, <1>5, <1>6, <2>2, Advances
  <2>4. top >= 0 => ~Pending(entry)'
    BY <1>4, <2>1, <2>3 DEF Pending
  <2>5. top < 0 =>
            /\ stage \in {"build", "refused"}
            /\ \A u \in Threads :
                  Active(thread'[u]) =>
                      u = Caller /\ thread'[u].pc = "start" /\ thread'[u].p = 0 /\ thread'[u].upto = 1
    BY <1>10 DEF Inv, EntryOK
  <2> QED
    BY <1>4, <2>1, <2>2, <2>4, <2>5 DEF EntryOK
<1>12. LockOK'
  <2>1. ASSUME NEW u \in Threads
        PROVE  /\ lock' = u => /\ Active(thread'[u]) /\ thread'[u].pc # "start"
                               /\ top' >= 0 /\ set'.level[thread'[u].p] > top'
               /\ Active(thread'[u]) /\ thread'[u].pc # "start" /\ lock' # u => set'.level[thread'[u].p] <= top'
    <3>1. lock' = u => lock = u /\ u \notin T
      BY GraphConstants
    <3>2. Active(thread'[u]) => (lock' # u => lock # u)
      BY <1>10
    <3> QED
      BY <1>2, <1>4, <1>10, <3>1, <3>2 DEF Inv, LockOK
  <2> QED
    BY <2>1 DEF LockOK
<1>13. Tops'
  BY DEF Tops
<1>14. Stages' /\ RepairOK'
  BY <1>4 DEF Inv, Stages, RepairOK, Building, AllPositions
<1> QED
  BY <1>5, <1>7, <1>8, <1>9, <1>11, <1>12, <1>13, <1>14 DEF Inv

\* Cancelling keeps the invariant.
LEMMA CancelStep == ASSUME Inv, Cancel PROVE Inv'
<1>1. thread[Caller].pc = "take" /\ Caller \in Threads
  BY GraphConstants DEF Cancel
<1>2. Building
  BY <1>1 DEF Inv, Stages
<1>3. lock # Caller
  BY <1>1 DEF Inv, LockOK, Active
<1>4. thread' = [u \in Threads |-> IF u \in {Caller} THEN Ended ELSE thread[u]]
  BY <1>1 DEF Cancel, Inv, Typed
<1>5. lock' = IF lock \in {Caller} THEN NoThread ELSE lock
  BY <1>3 DEF Cancel
<1>6. cutoff' \in {"cancelled", "error"}
  BY DEF Cancel, Inv, Typed
<1>7. next' = Ranges /\ UNCHANGED <<graphVars, links, entry, top, repair>>
  BY DEF Cancel
<1> QED
  BY <1>1, <1>2, <1>4, <1>5, <1>6, <1>7, CutStep

\* An insert that throws keeps the invariant.
LEMMA ThrowsStep == ASSUME Inv, NEW t \in Threads, Throws(t) PROVE Inv'
<1> DEFINE T == {u \in Threads : u = t \/ top < 0}
<1>1. Active(thread[t])
  BY DEF Throws, Active
<1>2. Building
  BY <1>1 DEF Inv, Stages, Active
<1>3. lock \in T => lock = t
  <2>1. top \in Int
    BY DEF Inv, Typed
  <2>2. \A u \in Threads : lock = u => top >= 0
    BY DEF Inv, LockOK
  <2> QED
    BY <2>1, <2>2
<1>4. T \in SUBSET Threads /\ t \in T
  OBVIOUS
<1>5. thread' = [u \in Threads |-> IF u \in T THEN Ended ELSE thread[u]]
  BY DEF Throws
<1>6. lock' = IF lock \in T THEN NoThread ELSE lock
  BY <1>3, <1>4 DEF Throws
<1>7. /\ next' = Ranges /\ UNCHANGED <<graphVars, links, entry, top, repair>>
      /\ cutoff' \in {"cancelled", "error"}
  BY DEF Throws
<1> HIDE DEF T
<1> QED
  BY <1>2, <1>4, <1>5, <1>6, <1>7, CutStep

------------------------------------------------------------------------------
(* The threads are joined, the repair runs, and an incremental build starts. *)

\* Positions are numbers below count; there is an entry point or there is none.
LEMMA Bounds ==
    ASSUME Typed
    PROVE  /\ \A x \in Positions : x \in Nat /\ x < count /\ count \in Nat
           /\ top < 0 \/ top >= 0
           /\ ~(top < 0 /\ top >= 0)
<1>1. top \in Int /\ count \in Nat \ {0}
  BY PositionTypes DEF Typed
<1> QED
  BY <1>1 DEF Positions

\* No position is ahead of the ranges when they are all taken.
LEMMA NoneAhead ==
    ASSUME Typed, NEW x \in Positions, Front >= count
    PROVE  ~(x >= Front)
<1>1. x \in Nat /\ x < count /\ count \in Nat /\ Front \in Nat
  BY Bounds, FrontType
<1> QED
  BY <1>1

\* Nothing is hidden when no thread inserts any more.
LEMMA NothingHidden ==
    ASSUME Inv, ~Building
    PROVE  /\ \A t \in Threads : thread[t].pc = "ended" /\ ~Active(thread[t])
           /\ \A x \in Positions : ~Pending(x) /\ \A l : ~Hidden(x, l)
<1>1. \A t \in Threads : thread[t].pc = "ended" /\ ~Active(thread[t])
  BY DEF Inv, Stages, Active
<1>2. \A x \in Positions : x \in Nat /\ x < count /\ count \in Nat
  BY PositionTypes DEF Inv, Positions
<1>3. \A x \in Positions : ~Pending(x) /\ \A l : ~Hidden(x, l)
  BY <1>1, <1>2 DEF Pending, Hidden, Owns, Hides
<1> QED
  BY <1>1, <1>3

\* Level 0 links lead from positions to positions.
LEMMA GroundLinks ==
    ASSUME Inv, NEW x \in Positions
    PROVE  /\ 0 \in Levels(x) /\ x \in AllPositions
           /\ IsList(links[x][0], Visible(0) \ {x}, Capacity(0)) /\ MembersOf(links[x][0]) \subseteq Positions
<1>1. x \in AllPositions /\ set.level[x] \in Nat /\ Visible(0) \subseteq Positions
  BY PositionTypes DEF Inv
<1>2. 0 \in Levels(x)
  BY <1>1 DEF Levels
<1>3. IsList(links[x][0], Visible(0) \ {x}, Capacity(0))
  BY <1>1, <1>2 DEF Inv, GraphOK
<1>4. MembersOf(links[x][0]) \subseteq Visible(0) \ {x}
  BY <1>3, CapacityType, ListMembers
<1> QED
  BY <1>1, <1>2, <1>3, <1>4

\* What a pass of the repair starts from: all that a walk from the entry point visits.
LEMMA PassStarts ==
    ASSUME Inv, NEW n \in Nat
    PROVE  /\ RepairPass(n) \in [pass : Nat, p : Nat, seen : SUBSET Nat, made : Nat, last : Int]
           /\ RepairPass(n).seen \subseteq Positions
           /\ \A x \in RepairPass(n).seen : MembersOf(links[x][0]) \subseteq RepairPass(n).seen
<1> DEFINE W == Walked(links, {}, {entry})
<1>1. Positions \in SUBSET AllPositions /\ AllPositions \subseteq Nat
  BY PositionTypes DEF Inv
<1>2. \A x \in Positions : MembersOf(links[x][0]) \subseteq Positions
  BY GroundLinks
<1>3. {entry} \subseteq Positions
  BY DEF Inv, Typed
<1>4. W \subseteq Positions /\ \A x \in W : MembersOf(links[x][0]) \subseteq W
  <2>1. PICK none, todo : none = {} /\ todo = {entry}
    OBVIOUS
  <2>2. todo \subseteq Positions /\ Positions \in SUBSET AllPositions
    BY <1>1, <1>3, <2>1
  <2>3. /\ Walked(links, none, todo) \subseteq none \cup Positions
        /\ \A x \in Walked(links, none, todo) \ none : MembersOf(links[x][0]) \subseteq Walked(links, none, todo)
    BY <1>2, <2>2, WalkedIs
  <2>4. W = Walked(links, none, todo)
    BY <2>1
  <2> QED
    BY <2>1, <2>3, <2>4
<1> HIDE DEF W
<1>5. RepairPass(n) = [[NoRepair EXCEPT !.pass = n] EXCEPT !.seen = W]
  BY DEF RepairPass, W
<1>6. NoRepair \in [pass : Nat, p : Nat, seen : SUBSET Nat, made : Nat, last : Int]
  BY DEF NoRepair
<1>7. W \subseteq Nat
  BY <1>1, <1>4
<1>8. /\ RepairPass(n) \in [pass : Nat, p : Nat, seen : SUBSET Nat, made : Nat, last : Int]
      /\ RepairPass(n).seen = W
  BY <1>5, <1>6, <1>7
<1> QED
  BY <1>4, <1>8

\* A step after the join, or the join itself: no thread, no node and no position changes.
LEMMA QuietStep ==
    ASSUME Inv, \A t \in Threads : thread[t].pc = "ended", ~Building',
           UNCHANGED <<set, dead, count, entry, top, lock, next, cutoff, thread>>,
           GraphOK' \/ links' = links, RepairOK', Stages',
           repair' \in [pass : Nat, p : Nat, seen : SUBSET Nat, made : Nat, last : Int],
           stage' \in {"repair", "built", "repair again", "extended", "refused"},
           stage' # "refused" => cutoff = "no" /\ top >= 0
    PROVE  Inv'
<1>1. Typed /\ Typed'
  BY DEF Inv, Typed, Positions, AllPositions
<1>2. \A t \in Threads : ~Active(thread[t])
  BY DEF Active
<1>3. Advance
  BY <1>2 DEF Advance, Follows
<1>4. Grows
  BY <1>1, <1>3, Advances
<1>5. GraphOK'
  BY <1>1, <1>4, GraphKept DEF Inv
<1>6. ThreadsOK'
  BY <1>2 DEF ThreadsOK, FrameOK, Active
<1>7. Disjoint'
  BY <1>1, <1>3, Advances DEF Inv
<1>8. \A x \in Positions : ~Pending(x)'
  BY <1>2 DEF Pending, Owns, Active
<1>9. top >= 0 => set.level[entry] = top
  BY DEF Inv, EntryOK
<1>10. EntryOK'
  <2>1. PICK e \in Positions : e = entry
    BY <1>1 DEF Typed
  <2>2. ~Pending(entry)'
    BY <1>8, <2>1 DEF Pending
  <2>3. top < 0 => stage' = "refused"
    <3>2. ~(top < 0 /\ top >= 0)
      BY <1>1, Bounds
    <3>3. stage' # "refused" => top >= 0
      OBVIOUS
    <3> QED
      BY <3>2, <3>3
  <2>4. cutoff = "no" /\ top < 0 => FALSE
    BY GraphConstants DEF Inv, EntryOK
  <2> QED
    BY <1>2, <1>9, <2>2, <2>3, <2>4 DEF EntryOK, Active
<1>11. LockOK'
  BY <1>2 DEF Inv, LockOK, Active
<1>12. Tops'
  <2>1. ASSUME cutoff = "no", NEW x \in Positions PROVE set.level[x] <= top
    <3>2. Building => Front >= count
      BY <2>1, GraphConstants DEF Inv, Tops
    <3>3. Building => ~(x >= Front)
      BY <1>1, <3>2, NoneAhead
    <3>4. ~Pending(x)
      BY <1>2, <3>3 DEF Pending, Owns
    <3> QED
      BY <2>1, <3>4 DEF Inv, Tops
  <2> QED
    BY <2>1 DEF Tops, Positions
<1> QED
  BY <1>1, <1>5, <1>6, <1>7, <1>10, <1>11, <1>12 DEF Inv

\* The join keeps the invariant.
LEMMA JoinStep == ASSUME Inv, Join PROVE Inv'
<1>1. /\ Building /\ \A t \in Threads : thread[t].pc = "ended"
      /\ UNCHANGED <<set, dead, count, links, entry, top, lock, next, cutoff, thread>>
  BY DEF Join, Building
<1>2. CASE stage' = "refused" /\ repair' = repair
  <2>1. Stages' /\ RepairOK'
    BY <1>1, <1>2 DEF Inv, Stages, RepairOK, Building, AllPositions
  <2>2. repair' \in [pass : Nat, p : Nat, seen : SUBSET Nat, made : Nat, last : Int]
    BY <1>2 DEF Inv, Typed
  <2> QED
    BY <1>1, <1>2, <2>1, <2>2, QuietStep DEF Building
<1>3. CASE /\ cutoff = "no" /\ stage' = (IF stage = "build" THEN "repair" ELSE "repair again")
           /\ repair' = RepairPass(0)
  <2>1. top >= 0
    <3>1. ~(top < 0) /\ top \in Int
      BY <1>1, <1>3, GraphConstants DEF Inv, EntryOK, Typed
    <3> QED
      BY <3>1
  <2>2. /\ repair' \in [pass : Nat, p : Nat, seen : SUBSET Nat, made : Nat, last : Int]
        /\ repair'.seen \subseteq Positions
        /\ \A x \in repair'.seen : MembersOf(links[x][0]) \subseteq repair'.seen
    BY <1>3, PassStarts
  <2>3. RepairOK'
    BY <1>1, <2>2 DEF RepairOK, Positions
  <2>4. Stages'
    BY <1>1, <1>3, <2>1 DEF Inv, Stages, Building, AllPositions
  <2> QED
    BY <1>1, <1>3, <2>1, <2>2, <2>3, <2>4, QuietStep DEF Building
<1> QED
  BY <1>2, <1>3 DEF Join

\* The end of a pass keeps the invariant.
LEMMA RepairPassEndsStep == ASSUME Inv, RepairPassEnds PROVE Inv'
<1>1. /\ ~Building /\ \A t \in Threads : thread[t].pc = "ended"
      /\ stage \in {"repair", "repair again"} /\ cutoff = "no" /\ top >= 0
      /\ UNCHANGED <<set, dead, count, links, entry, top, lock, next, cutoff, thread>>
  BY DEF RepairPassEnds, Building, Inv, Stages
<1>2. CASE stage' = (IF stage = "repair" THEN "built" ELSE "extended") /\ repair' = NoRepair
  <2>1. Stages' /\ RepairOK'
    BY <1>1, <1>2 DEF Inv, Stages, RepairOK, Building, AllPositions
  <2>2. repair' \in [pass : Nat, p : Nat, seen : SUBSET Nat, made : Nat, last : Int]
    BY <1>2 DEF NoRepair
  <2> QED
    BY <1>1, <1>2, <2>1, <2>2, QuietStep DEF Building
<1>3. CASE stage' = stage /\ repair' = RepairPass(repair.pass + 1)
  <2>0. repair \in [pass : Nat, p : Nat, seen : SUBSET Nat, made : Nat, last : Int]
    BY DEF Inv, Typed
  <2>1. repair.pass + 1 \in Nat
    BY <2>0
  <2>2. /\ repair' \in [pass : Nat, p : Nat, seen : SUBSET Nat, made : Nat, last : Int]
        /\ repair'.seen \subseteq Positions
        /\ \A x \in repair'.seen : MembersOf(links[x][0]) \subseteq repair'.seen
    BY <1>3, <2>1, PassStarts
  <2>3. RepairOK'
    BY <1>1, <2>2 DEF RepairOK, Positions
  <2>4. Stages'
    BY <1>1, <1>3 DEF Inv, Stages, Building, AllPositions
  <2> QED
    BY <1>1, <1>3, <2>2, <2>3, <2>4, QuietStep DEF Building
<1> QED
  BY <1>2, <1>3 DEF RepairPassEnds

\* After the join every position may be linked on level 0.
LEMMA GroundVisible ==
    ASSUME Inv, ~Building, NEW p \in Positions
    PROVE  p \in Visible(0)
<1>1. ~Hidden(p, 0)
  BY NothingHidden
<1>2. set.level[p] \in Nat
  BY PositionTypes DEF Inv
<1> QED
  BY <1>1, <1>2 DEF Visible

\* The room of a list is a number.
LEMMA CapacityInt == \A l : Capacity(l) \in Int
BY GraphConstants DEF Capacity

\* A full list is not empty.
LEMMA FullList == ASSUME NEW n \in Nat \ {0}, NEW list, ~(Len(list) < n) PROVE list # <<>>
OBVIOUS

Swapped(list, k, p) == [list EXCEPT ![k] = p]

\* ListReplaces, for one place of a list that is not empty.
LEMMA Replacement ==
    ASSUME NEW S, NEW n \in Int, NEW list, IsList(list, S, n), list # <<>>, NEW p \in S, p \notin MembersOf(list),
           NEW k
    PROVE  /\ IsList(Swapped(list, k, p), S, n) /\ Swapped(list, k, p) # <<>>
           /\ MembersOf(Swapped(list, k, p)) \subseteq MembersOf(list) \cup {p}
<1>1. PICK new : new = [list EXCEPT ![k] = p]
  OBVIOUS
<1>2. IsList(new, S, n) /\ new # <<>> /\ MembersOf(new) \subseteq MembersOf(list) \cup {p}
  BY <1>1, ListReplaces
<1> QED
  BY <1>1, <1>2 DEF Swapped

\* What the repair changes: the list of one reached position, which gets a link to p.
LEMMA LinksToIs ==
    ASSUME Inv, stage \in {"repair", "repair again"}, NEW p \in Positions, p \notin repair.seen
    PROVE  \/ LinksTo(p) = links
           \/ \E c \in repair.seen : \E v :
                 /\ LinksTo(p) = [links EXCEPT ![c][0] = v]
                 /\ IsList(v, Visible(0) \ {c}, Capacity(0)) /\ v # <<>>
                 /\ MembersOf(v) \subseteq MembersOf(links[c][0]) \cup {p}
<1> DEFINE q == set.at[p]
           found == Searched(q, entry, 0, Ef, Positions)
           reached == {c \in found \cap repair.seen : c # p}
           room == {c \in reached : Len(links[c][0]) < Capacity(0)}
           Result == \E c \in repair.seen : \E v :
                        /\ LinksTo(p) = [links EXCEPT ![c][0] = v]
                        /\ IsList(v, Visible(0) \ {c}, Capacity(0)) /\ v # <<>>
                        /\ MembersOf(v) \subseteq MembersOf(links[c][0]) \cup {p}
<1>1. /\ Positions \subseteq AllPositions /\ p \in AllPositions /\ q \in Points /\ set \in Sets
      /\ Capacity(0) \in Nat \ {0} /\ Capacity(0) \in Int
  <2>1. Typed /\ set \in Sets
    BY DEF Inv, Typed
  <2>2. Capacity(0) \in Nat \ {0}
    BY CapacityType
  <2>3. Capacity(0) \in Int
    BY CapacityInt
  <2>4. Positions \subseteq AllPositions /\ p \in AllPositions
    BY <2>1, PositionTypes
  <2>5. q \in Points
    BY <2>1, <2>4, PositionTypes
  <2> QED
    BY <2>1, <2>2, <2>3, <2>4, <2>5
<1>2. repair.seen \subseteq Positions /\ \A x \in repair.seen : MembersOf(links[x][0]) \subseteq repair.seen
  BY DEF Inv, RepairOK
<1>3. p \in Visible(0)
  BY GroundVisible DEF Building
<1>4. LinksTo(p) =
          IF reached = {} THEN links
          ELSE IF room # {} THEN [links EXCEPT ![Nearest(q, room)][0] = Append(@, p)]
          ELSE IF /\ repair.last >= 0 /\ repair.last \in repair.seen
                  /\ Len(links[repair.last][0]) < Capacity(0)
                  /\ Key(q, set.at[Farthest(q, found)]) >= Key(set.at[repair.last], q)
               THEN [links EXCEPT ![repair.last][0] = Append(@, p)]
          ELSE Replaced(Nearest(q, reached), p)
  BY DEF LinksTo
<1>5. \A c \in repair.seen :
          /\ c # p /\ IsList(links[c][0], Visible(0) \ {c}, Capacity(0)) /\ p \notin MembersOf(links[c][0])
          /\ p \in Visible(0) \ {c}
  BY <1>2, <1>3, GroundLinks
<1> HIDE DEF found
<1>6. reached \subseteq repair.seen /\ p \notin reached /\ room \subseteq reached
  OBVIOUS
<1>7. reached \in SUBSET AllPositions /\ room \in SUBSET AllPositions
  BY <1>1, <1>2, <1>6
<1>8. ASSUME NEW c \in repair.seen, LinksTo(p) = [links EXCEPT ![c][0] = Append(@, p)],
             Len(links[c][0]) < Capacity(0)
      PROVE  Result
  <2> DEFINE list == links[c][0]
             S == Visible(0) \ {c}
             n == Capacity(0)
  <2>0. IsList(list, S, n) /\ Len(list) < n /\ n \in Int /\ p \in S /\ p \notin MembersOf(list)
    BY <1>1, <1>5, <1>8
  <2> HIDE DEF list, S, n
  <2>3. /\ IsList(Append(list, p), S, n) /\ Append(list, p) # <<>>
        /\ MembersOf(Append(list, p)) \subseteq MembersOf(list) \cup {p}
    BY <2>0, ListAppends
  <2>1. /\ IsList(Append(links[c][0], p), Visible(0) \ {c}, Capacity(0)) /\ Append(links[c][0], p) # <<>>
        /\ MembersOf(Append(links[c][0], p)) \subseteq MembersOf(links[c][0]) \cup {p}
    BY <2>3 DEF list, S, n
  <2>2. LinksTo(p) = [links EXCEPT ![c][0] = Append(links[c][0], p)]
    BY <1>8
  <2> QED
    BY <2>1, <2>2
<1>9. CASE reached = {}
  BY <1>4, <1>9
<1>10. CASE reached # {} /\ room # {}
  <2>1. Nearest(q, room) \in room
    BY <1>1, <1>7, <1>10, NearestIn
  <2> DEFINE c == Nearest(q, room)
  <2>2. c \in repair.seen /\ Len(links[c][0]) < Capacity(0)
    BY <2>1
  <2>3. LinksTo(p) = [links EXCEPT ![c][0] = Append(@, p)]
    BY <1>4, <1>10
  <2> HIDE DEF c
  <2> QED
    BY <1>8, <2>2, <2>3
<1>11. CASE /\ reached # {} /\ room = {} /\ repair.last \in repair.seen /\ Len(links[repair.last][0]) < Capacity(0)
            /\ LinksTo(p) = [links EXCEPT ![repair.last][0] = Append(@, p)]
  BY <1>8, <1>11
<1>12. CASE reached # {} /\ room = {} /\ LinksTo(p) = Replaced(Nearest(q, reached), p)
  <2> DEFINE x == Nearest(q, reached)
             list == links[x][0]
             away(i) == Key(set.at[x], set.at[list[i]])
             k == CHOOSE i \in DOMAIN list :
                     /\ \A j \in DOMAIN list : away(j) <= away(i)
                     /\ \A j \in 1 .. i - 1 : away(j) < away(i)
  <2>1. x \in reached
    BY <1>1, <1>7, <1>12, NearestIn
  <2>2. x \in repair.seen /\ x \notin room
    BY <1>6, <1>12, <2>1
  <2>3. LinksTo(p) = [links EXCEPT ![x][0][k] = p]
    BY <1>12 DEF Replaced
  <2>4. ~(Len(list) < Capacity(0))
    BY <2>1, <2>2
  <2> HIDE DEF k, x
  <2> DEFINE S == Visible(0) \ {x}
             n == Capacity(0)
  <2>5. IsList(list, S, n) /\ p \in S /\ p \notin MembersOf(list) /\ n \in Int
    BY <1>1, <1>5, <2>2
  <2>6. list # <<>>
    BY <1>1, <2>4, FullList
  <2> HIDE DEF S, n
  <2>7. LinksTo(p) = [links EXCEPT ![x][0] = [list EXCEPT ![k] = p]]
    BY <2>3
  <2> HIDE DEF list
  <2> DEFINE v == Swapped(list, k, p)
  <2>8. /\ IsList(v, S, n) /\ v # <<>>
        /\ MembersOf(v) \subseteq MembersOf(list) \cup {p}
    BY <2>5, <2>6, Replacement
  <2>9. /\ IsList(v, Visible(0) \ {x}, Capacity(0)) /\ v # <<>>
        /\ MembersOf(v) \subseteq MembersOf(links[x][0]) \cup {p}
    BY <2>8 DEF list, S, n
  <2>10. LinksTo(p) = [links EXCEPT ![x][0] = v]
    BY <2>7 DEF Swapped
  <2> HIDE DEF v
  <2> QED
    BY <2>2, <2>9, <2>10
<1>13. reached = {} \/ room # {} \/ LinksTo(p) = Replaced(Nearest(q, reached), p)
           \/ /\ repair.last \in repair.seen /\ Len(links[repair.last][0]) < Capacity(0)
              /\ LinksTo(p) = [links EXCEPT ![repair.last][0] = Append(@, p)]
  BY <1>4
<1> QED
  BY <1>9, <1>10, <1>11, <1>12, <1>13

\* A link of the repair keeps the invariant.
LEMMA RepairLinkStep == ASSUME Inv, RepairLink PROVE Inv'
<1> DEFINE p == CHOOSE x \in Missed : \A y \in Missed : x <= y
           Repairs == [pass : Nat, p : Nat, seen : SUBSET Nat, made : Nat, last : Int]
<1>1. /\ ~Building /\ \A t \in Threads : thread[t].pc = "ended"
      /\ stage \in {"repair", "repair again"} /\ cutoff = "no" /\ top >= 0
      /\ UNCHANGED <<set, dead, count, entry, top, lock, next, cutoff, thread, stage>>
  BY DEF RepairLink, Building, Inv, Stages, graphVars
<1>2. Positions \subseteq AllPositions /\ AllPositions \subseteq Nat /\ Typed
  BY PositionTypes DEF Inv
<1>3. p \in Missed
  <2>1. Missed \in SUBSET Nat /\ Missed # {}
    BY <1>2 DEF Missed, RepairLink
  <2> QED
    BY <2>1, LeastNat
<1>4. /\ links' = LinksTo(p)
      /\ repair' = IF LinksTo(p) = links THEN [repair EXCEPT !.p = p + 1]
                   ELSE [repair EXCEPT !.p = p + 1, !.made = @ + 1, !.last = p,
                                       !.seen = Walked(LinksTo(p), repair.seen, {p})]
  BY DEF RepairLink
<1> HIDE DEF p
<1>5. p \in Positions /\ p \notin repair.seen /\ p \in Nat
  BY <1>2, <1>3 DEF Missed
<1>6. repair \in Repairs /\ p + 1 \in Nat /\ p \in Int
  <2>1. repair \in Repairs
    BY DEF Inv, Typed
  <2> QED
    BY <1>5, <2>1
<1>7. repair.seen \subseteq Positions /\ \A x \in repair.seen : MembersOf(links[x][0]) \subseteq repair.seen
  BY <1>1 DEF Inv, RepairOK
<1>8. Stages' /\ ~Building'
  BY <1>1 DEF Inv, Stages, Building, AllPositions
<1>9. Positions' = Positions
  BY <1>1 DEF Positions
<1>10. CASE LinksTo(p) = links
  <2>1. repair' = [repair EXCEPT !.p = p + 1] /\ links' = links
    BY <1>4, <1>10
  <2>2. repair' \in Repairs /\ repair'.seen = repair.seen
    BY <1>6, <2>1
  <2>3. RepairOK'
    BY <1>7, <1>9, <2>1, <2>2 DEF RepairOK
  <2> QED
    BY <1>1, <1>8, <2>1, <2>2, <2>3, QuietStep
<1>11. CASE LinksTo(p) # links
  <2>1. PICK c \in repair.seen :
            \E v : /\ LinksTo(p) = [links EXCEPT ![c][0] = v]
                   /\ IsList(v, Visible(0) \ {c}, Capacity(0)) /\ v # <<>>
                   /\ MembersOf(v) \subseteq MembersOf(links[c][0]) \cup {p}
    BY <1>1, <1>5, <1>11, LinksToIs
  <2>2. PICK v : /\ LinksTo(p) = [links EXCEPT ![c][0] = v]
                 /\ IsList(v, Visible(0) \ {c}, Capacity(0)) /\ v # <<>>
                 /\ MembersOf(v) \subseteq MembersOf(links[c][0]) \cup {p}
    BY <2>1
  <2>3. links' = [links EXCEPT ![c][0] = v]
    BY <1>4, <2>2
  <2>4. c \in Positions /\ c \in AllPositions /\ 0 \in Levels(c)
    BY <1>2, <1>7, GroundLinks
  <2>5. \A x \in AllPositions : 0 \in Levels(x) => links'[x][0] = IF x = c THEN v ELSE links[x][0]
    BY <1>2, <2>3, <2>4, ListWritten DEF Inv
  <2>6. \A x \in Positions : links'[x][0] = IF x = c THEN v ELSE links[x][0]
    BY <1>2, <2>5, GroundLinks
  <2> DEFINE W == Walked(links', repair.seen, {p})
  <2>7. \A x \in Positions : MembersOf(links'[x][0]) \subseteq Positions
    BY <1>5, <2>2, <2>4, <2>6, GroundLinks
  <2>8. /\ W \subseteq repair.seen \cup Positions /\ repair.seen \subseteq W /\ {p} \subseteq W
        /\ \A x \in W \ repair.seen : MembersOf(links'[x][0]) \subseteq W
    <3>1. {p} \subseteq Positions /\ Positions \in SUBSET AllPositions
      BY <1>2, <1>5
    <3>2. PICK graph : graph = links'
      OBVIOUS
    <3>3. PICK todo : todo = {p}
      OBVIOUS
    <3>4. PICK seen : seen = repair.seen
      OBVIOUS
    <3>5. \A x \in Positions : MembersOf(graph[x][0]) \subseteq Positions
      BY <2>7, <3>2
    <3>6. todo \subseteq Positions
      BY <3>1, <3>3
    <3>7. /\ Walked(graph, seen, todo) \subseteq seen \cup Positions /\ seen \subseteq Walked(graph, seen, todo)
          /\ todo \subseteq Walked(graph, seen, todo)
          /\ \A x \in Walked(graph, seen, todo) \ seen : MembersOf(graph[x][0]) \subseteq Walked(graph, seen, todo)
      BY <3>1, <3>5, <3>6, WalkedIs
    <3> QED
      BY <3>2, <3>3, <3>4, <3>7
  <2>9. repair' = [repair EXCEPT !.p = p + 1, !.made = @ + 1, !.last = p, !.seen = W]
    BY <1>4, <1>11
  <2> HIDE DEF W
  <2>10. W \subseteq Positions /\ W \in SUBSET Nat
    BY <1>2, <1>7, <2>8
  <2>11. repair' \in Repairs /\ repair'.seen = W
    <3>1. repair.made + 1 \in Nat
      BY <1>6
    <3>2. repair' = [repair EXCEPT !.p = p + 1, !.made = repair.made + 1, !.last = p, !.seen = W]
      BY <2>9
    <3> QED
      BY <1>6, <2>10, <3>1, <3>2
  <2>12. \A x \in W : MembersOf(links'[x][0]) \subseteq W
    <3>1. ASSUME NEW x \in W, x \in repair.seen PROVE MembersOf(links'[x][0]) \subseteq W
      BY <1>7, <2>2, <2>6, <2>8, <3>1
    <3> QED
      BY <2>8, <3>1
  <2>13. RepairOK'
    BY <1>9, <2>10, <2>11, <2>12 DEF RepairOK
  <2>14. Typed'
    <3>1. Positions' = Positions /\ AllPositions' = AllPositions
      BY <1>1 DEF Positions, AllPositions
    <3> QED
      BY <1>1, <1>2, <2>11, <3>1 DEF Typed
  <2>15. Advance
    BY <1>1, <1>8 DEF Advance, Follows, Active
  <2>16. Grows /\ Visible(0) \subseteq Visible(0)'
    BY <1>2, <2>14, <2>15, Advances
  <2>17. ~Hidden(c, 0)'
    <3>1. Hidden(c, 0)' => Hidden(c, 0)
      BY <1>2, <2>4, <2>14, <2>15, Advances
    <3> QED
      BY <1>1, <2>4, <3>1, NothingHidden
  <2>18. GraphOK'
    <3>1. IsList(v, Visible(0)' \ {c}, Capacity(0))
      <4>1. Visible(0) \ {c} \subseteq Visible(0)' \ {c}
        BY <2>16
      <4> QED
        BY <2>2, <4>1, CapacityInt, ListGrows
    <3> QED
      BY <1>2, <2>3, <2>4, <2>14, <2>16, <2>17, <3>1, GraphWritten DEF Inv
  <2> QED
    BY <1>1, <1>8, <2>11, <2>13, <2>18, QuietStep
<1> QED
  BY <1>10, <1>11

\* An extension keeps the invariant: new positions are hidden, and the entry point stays on the top level.
LEMMA ExtendStep == ASSUME Inv, Extend PROVE Inv'
<1>1. Typed /\ Positions \subseteq AllPositions /\ AllPositions \subseteq Nat /\ count \in Nat \ {0}
  BY PositionTypes DEF Inv
<1>2. /\ stage = "built" /\ stage' = "extend" /\ ~Building /\ Building'
      /\ count = set.base /\ cutoff = "no" /\ top >= 0 /\ count' = Cardinality(AllPositions) /\ next' = 0
      /\ thread' = [t \in Threads |-> Taking]
      /\ UNCHANGED <<set, links, top, lock, cutoff, repair>>
  BY DEF Extend, Inv, Stages, Building
<1>3. PICK died \in SUBSET Positions :
          LET others == {p \in Positions \ died : set.level[p] = top}
          IN  /\ dead' = died
              /\ entry' = IF entry \in died /\ others # {} THEN CHOOSE p \in others : \A x \in others : p <= x
                          ELSE entry
  BY DEF Extend
<1>4. /\ AllPositions' = AllPositions /\ Cardinality(AllPositions) \in Nat /\ count <= Cardinality(AllPositions)
      /\ count' \in 1 .. Cardinality(AllPositions)'
  <2>1. set \in Sets
    BY <1>1 DEF Typed
  <2>2. set.base \in 1 .. Cardinality(AllPositions) /\ Cardinality(AllPositions) \in Nat \ {0}
    BY <2>1, SetTypes
  <2>3. AllPositions' = AllPositions
    BY <1>2 DEF AllPositions
  <2> QED
    BY <1>2, <2>2, <2>3
<1>5. Positions \subseteq Positions' /\ \A x \in Positions' : x \in Nat
  BY <1>1, <1>2, <1>4 DEF Positions
<1>6. Front' = count
  <2>1. First' = set.base
    BY <1>2 DEF First
  <2>2. next' * RangeSize = 0
    BY <1>2, GraphConstants
  <2>3. Front' = First' + next' * RangeSize
    BY DEF Front
  <2> QED
    BY <1>1, <1>2, <2>1, <2>2, <2>3
<1>7. set.level[entry] = top
  BY <1>2 DEF Inv, EntryOK
<1>8. entry' \in Positions /\ set.level[entry'] = top
  <2> DEFINE others == {p \in Positions \ died : set.level[p] = top}
  <2>1. others \in SUBSET Nat
    BY <1>1
  <2>2. ASSUME others # {} PROVE (CHOOSE p \in others : \A x \in others : p <= x) \in others
    BY <2>1, <2>2, LeastNat
  <2>3. entry' = IF entry \in died /\ others # {} THEN CHOOSE p \in others : \A x \in others : p <= x ELSE entry
    BY <1>3
  <2>4. entry \in Positions
    BY <1>1 DEF Typed
  <2>5. \A x \in others : x \in Positions /\ set.level[x] = top
    OBVIOUS
  <2> HIDE DEF others
  <2> QED
    BY <1>7, <2>2, <2>3, <2>4, <2>5
<1>9. Taking \in Frames /\ Taking.pc = "take"
  BY EndedIs
<1>10. \A t \in Threads : thread'[t].pc = "take" /\ ~Active(thread'[t])
  BY <1>2, <1>9 DEF Active
<1>11. Typed'
  <2>1. dead' \subseteq Positions' /\ entry' \in Positions'
    BY <1>3, <1>5, <1>8
  <2>2. thread' \in [Threads -> Frames]
    BY <1>2, <1>9
  <2> QED
    BY <1>1, <1>2, <1>4, <2>1, <2>2 DEF Typed
<1>12. Grows
  <2>1. ASSUME NEW x \in AllPositions, NEW l, Hidden(x, l)' PROVE Hidden(x, l)
    <3>1. x >= count' \/ x >= Front'
      BY <1>10, <2>1 DEF Hidden, Hides
    <3>2. x \in Nat
      BY <1>1
    <3>3. x >= count
      BY <1>1, <1>2, <1>4, <1>6, <3>1, <3>2
    <3> QED
      BY <3>3 DEF Hidden
  <2>2. count' >= count /\ Front' >= count /\ set' = set
    BY <1>1, <1>2, <1>4, <1>6
  <2> QED
    BY <2>1, <2>2 DEF Grows
<1>13. GraphOK'
  BY <1>1, <1>2, <1>11, <1>12, GraphKept DEF Inv
<1>14. ThreadsOK' /\ Disjoint'
  BY <1>10 DEF ThreadsOK, FrameOK, Disjoint, Active
<1>15. \A x \in Positions : ~Pending(x)'
  <2>1. ASSUME NEW x \in Positions PROVE ~(x >= count)
    BY <1>1, Bounds
  <2> QED
    BY <1>6, <1>10, <2>1 DEF Pending, Owns
<1>16. EntryOK'
  <2>1. PICK e \in Positions : e = entry'
    BY <1>8
  <2>2. ~Pending(entry)'
    BY <1>15, <2>1 DEF Pending
  <2>3. ~(top' < 0)
    BY <1>1, <1>2, Bounds
  <2> QED
    BY <1>2, <1>8, <2>2, <2>3 DEF EntryOK
<1>17. LockOK'
  <2>1. \A t \in Threads : lock # t
    BY <1>2, NothingHidden DEF Inv, LockOK
  <2> QED
    BY <1>2, <1>10, <2>1 DEF LockOK, Active
<1>18. Tops'
  <2>1. ASSUME NEW x \in Positions PROVE set.level[x] <= top
    BY <1>2, NothingHidden DEF Inv, Tops
  <2>2. ASSUME NEW x \in Positions', x \notin Positions PROVE Pending(x)'
    <3>1. x \in Nat /\ ~(x < count)
      BY <1>1, <1>5, <2>2 DEF Positions
    <3>2. x >= Front'
      BY <1>1, <1>6, <3>1
    <3> QED
      BY <1>2, <3>2 DEF Pending
  <2>3. \A x \in Positions' : set'.level[x] <= top' \/ Pending(x)'
    BY <1>2, <2>1, <2>2
  <2>4. thread'[Caller].pc # "ended"
    BY <1>10, GraphConstants
  <2> QED
    BY <2>3, <2>4 DEF Tops
<1>19. Stages' /\ RepairOK'
  BY <1>2, <1>4 DEF Stages, RepairOK, Building
<1> QED
  BY <1>11, <1>13, <1>14, <1>16, <1>17, <1>18, <1>19 DEF Inv

------------------------------------------------------------------------------
(* The invariant holds at the start and in every step.                     *)

\* The empty list is a list.
LEMMA EmptyIs == ASSUME NEW S, NEW n \in Nat PROVE IsList(<<>>, S, n)
BY DEF IsList

\* At the start the caller has position 0 in hand, and the ranges nobody took begin behind it.
LEMMA InitInv == ASSUME Init PROVE Inv
<1>1. /\ set \in Sets /\ Cardinality(AllPositions) \in Nat \ {0} /\ set.base \in 1 .. Cardinality(AllPositions)
      /\ AllPositions = 0 .. Cardinality(AllPositions) - 1 /\ set.level \in [AllPositions -> Nat]
  BY SetTypes DEF Init
<1>2. /\ count = set.base /\ count \in Nat \ {0} /\ stage = "build" /\ Building /\ cutoff = "no" /\ top = -1
      /\ dead = {} /\ entry = 0 /\ lock = NoThread /\ next = 0 /\ repair = NoRepair
  BY <1>1 DEF Init, Building
<1>3. 0 \in Positions /\ 0 \in AllPositions /\ \A x \in AllPositions : x \in Nat /\ (x >= 1 \/ x = 0)
  BY <1>1, <1>2 DEF Positions
<1>4. Front = 1
  BY <1>2, GraphConstants DEF Front, First
<1>5. /\ Inserting(0, 1) \in Frames /\ Inserting(0, 1).pc = "start" /\ Inserting(0, 1).p = 0
      /\ Inserting(0, 1).upto = 1 /\ Taking \in Frames /\ Ended \in Frames
      /\ ~Active(Taking) /\ ~Active(Ended) /\ Active(Inserting(0, 1))
  BY EndedIs DEF Active
<1>6. /\ Caller \in Threads /\ thread[Caller] = Inserting(0, 1)
      /\ \A t \in Threads : t # Caller => thread[t] \in Frames /\ ~Active(thread[t])
      /\ thread \in [Threads -> Frames]
  BY <1>5, GraphConstants DEF Init
<1>7. Owns(thread[Caller], 0) /\ \A l : Hides(thread[Caller], 0, l)
  BY <1>5, <1>6 DEF Owns, Hides, Linked
<1>8. \A x \in AllPositions : Pending(x) /\ \A l : Hidden(x, l)
  BY <1>2, <1>3, <1>4, <1>6, <1>7 DEF Pending, Hidden
<1>9. Typed
  <2>1. NoRepair \in [pass : Nat, p : Nat, seen : SUBSET Nat, made : Nat, last : Int]
    BY DEF NoRepair
  <2>2. top \in Int /\ top >= -1 /\ next \in Nat /\ count \in 1 .. Cardinality(AllPositions)
    BY <1>1, <1>2
  <2> QED
    BY <1>1, <1>2, <1>3, <1>6, <2>1, <2>2 DEF Typed
<1>10. Positions \subseteq AllPositions
  BY <1>9, PositionTypes
<1>11. GraphOK
  <2>1. links = [p \in AllPositions |-> [l \in 0 .. set.level[p] |-> <<>>]]
    BY DEF Init
  <2>2. \A l : \A S : IsList(<<>>, S, Capacity(l))
    BY CapacityType, EmptyIs
  <2> QED
    BY <2>1, <2>2 DEF GraphOK, Levels
<1>12. ThreadsOK
  <2>1. 0 < 1 /\ 1 <= count /\ 1 <= Front
    BY <1>2, <1>4
  <2>2. FrameOK(thread[Caller])
    BY <1>3, <1>5, <1>6, <2>1 DEF FrameOK
  <2> QED
    BY <1>6, <2>2 DEF ThreadsOK, FrameOK
<1>13. Disjoint
  BY <1>6 DEF Disjoint
<1>14. EntryOK
  BY <1>2, <1>5, <1>6 DEF EntryOK
<1>15. LockOK
  BY <1>2, <1>5, <1>6, GraphConstants DEF LockOK
<1>16. Tops
  BY <1>5, <1>6, <1>8, <1>10 DEF Tops
<1>17. Stages /\ RepairOK
  BY <1>2 DEF Stages, RepairOK
<1> QED
  BY <1>9, <1>11, <1>12, <1>13, <1>14, <1>15, <1>16, <1>17 DEF Inv

\* Every step keeps the invariant.
LEMMA NextInv == Inv /\ [Next]_vars => Inv'
<1> SUFFICES ASSUME Inv, [Next]_vars PROVE Inv'
  OBVIOUS
<1>1. ASSUME NEW t \in Threads, Take(t) PROVE Inv'
  BY <1>1, TakeStep
<1>2. ASSUME NEW t \in Threads, Start(t) PROVE Inv'
  BY <1>2, StartStep
<1>3. ASSUME NEW t \in Threads, Greedy(t) PROVE Inv'
  BY <1>3, GreedyStep
<1>4. ASSUME NEW t \in Threads, Search(t) PROVE Inv'
  BY <1>4, SearchStep
<1>5. ASSUME NEW t \in Threads, ConnectOwn(t) PROVE Inv'
  BY <1>5, ConnectOwnStep
<1>6. ASSUME NEW t \in Threads, ConnectBack(t) PROVE Inv'
  BY <1>6, ConnectBackStep
<1>7. ASSUME NEW t \in Threads, LevelLinked(t) PROVE Inv'
  BY <1>7, LevelLinkedStep
<1>8. ASSUME NEW t \in Threads, Throws(t) PROVE Inv'
  BY <1>8, ThrowsStep
<1>9. CASE Cancel
  BY <1>9, CancelStep
<1>10. CASE Join
  BY <1>10, JoinStep
<1>11. CASE RepairLink
  BY <1>11, RepairLinkStep
<1>12. CASE RepairPassEnds
  BY <1>12, RepairPassEndsStep
<1>13. CASE Extend
  BY <1>13, ExtendStep
<1>14. CASE UNCHANGED vars
  <2>1. /\ (Typed' <=> Typed) /\ Positions' = Positions /\ AllPositions' = AllPositions /\ (Building' <=> Building)
        /\ Front' = Front
    BY <1>14 DEF vars, Typed, Positions, AllPositions, Building, Front, First
  <2>2. \A x : Pending(x)' = Pending(x)
    BY <1>14, <2>1 DEF vars, Pending
  <2>3. Typed /\ Advance
    <3>1. Front \in Nat /\ Typed
      BY FrontType DEF Inv
    <3>2. \A t \in Threads : thread[t] \in Frames
      BY <3>1, PositionTypes
    <3>3. \A t \in Threads : Follows(thread[t], thread'[t])
      BY <1>14, <3>2 DEF vars, Follows, Frames
    <3> QED
      BY <1>14, <2>1, <3>1, <3>3 DEF vars, Advance
  <2>4. GraphOK' /\ ThreadsOK'
    <3>1. Grows
      BY <2>1, <2>3, Advances
    <3>2. GraphOK'
      BY <1>14, <2>1, <2>3, <3>1, GraphKept DEF Inv, vars
    <3>0. thread' = thread /\ ThreadsOK
      BY <1>14 DEF Inv, vars
    <3>3. CASE Building
      <4>1. Building' /\ Typed'
        BY <2>1, <2>3, <3>3
      <4> QED
        BY <2>3, <3>0, <3>1, <3>2, <4>1, FramesKept
    <3>4. CASE ~Building
      <4>1. \A t \in Threads : ~Active(thread[t])
        BY <3>4, NothingHidden
      <4>2. \A t \in Threads : ~Active(thread'[t])
        BY <3>0, <4>1
      <4> QED
        BY <3>2, <4>2 DEF ThreadsOK, FrameOK
    <3> QED
      BY <3>2, <3>3, <3>4
  <2>5. Disjoint' = Disjoint /\ EntryOK' = EntryOK /\ LockOK' = LockOK
    BY <1>14, <2>1, <2>2 DEF vars, Disjoint, EntryOK, LockOK
  <2>6. Tops' = Tops /\ Stages' = Stages /\ RepairOK' = RepairOK
    BY <1>14, <2>1, <2>2 DEF vars, Tops, Stages, RepairOK
  <2> QED
    BY <2>1, <2>4, <2>5, <2>6 DEF Inv
<1> QED
  BY <1>1, <1>2, <1>3, <1>4, <1>5, <1>6, <1>7, <1>8, <1>9, <1>10, <1>11, <1>12, <1>13, <1>14 DEF Next, Step

\* The invariant, for every number of threads and positions.
THEOREM GraphInvariant == Spec => []Inv
<1>1. Init => Inv
  BY InitInv
<1>2. Inv /\ [Next]_vars => Inv'
  BY NextInv
<1> HIDE DEF Inv
<1> QED
  BY <1>1, <1>2, PTL DEF Spec

------------------------------------------------------------------------------
(* What the invariant says to a load, and to whoever searches meanwhile.   *)

\* TypeOK follows from it.
LEMMA TypeFollows == Inv => TypeOK
<1> SUFFICES ASSUME Inv PROVE TypeOK
  OBVIOUS
<1>1. /\ set \in Sets /\ dead \subseteq Positions /\ entry \in Positions
      /\ lock \in Threads \cup {NoThread} /\ cutoff \in {"no", "cancelled", "error"}
      /\ stage \in {"build", "repair", "built", "extend", "repair again", "extended", "refused"}
  BY DEF Inv, Typed
<1>2. top >= 0 => set.level[entry] = top
  BY DEF Inv, EntryOK
<1>3. stage \in {"built", "extended"} => \A p \in Positions : set.level[p] <= top
  <2> SUFFICES ASSUME stage \in {"built", "extended"} PROVE \A p \in Positions : set.level[p] <= top
    OBVIOUS
  <2>1. ~Building /\ cutoff = "no"
    BY DEF Building, Inv, Stages
  <2> QED
    BY <2>1, NothingHidden DEF Inv, Tops
<1>4. ASSUME NEW p \in AllPositions, NEW l \in DOMAIN links[p]
      PROVE  /\ Len(links[p][l]) <= Capacity(l) /\ Cardinality(MembersOf(links[p][l])) = Len(links[p][l])
             /\ \A x \in MembersOf(links[p][l]) : x \in Positions \ {p} /\ l <= set.level[x]
  <2>1. IsList(links[p][l], Visible(l) \ {p}, Capacity(l))
    BY <1>4 DEF Inv, GraphOK
  <2>2. Len(links[p][l]) <= Capacity(l)
    BY <2>1 DEF IsList
  <2>3. Cardinality(MembersOf(links[p][l])) = Len(links[p][l])
    BY <2>1, CapacityInt, ListCount
  <2>4. MembersOf(links[p][l]) \subseteq Visible(l) \ {p}
    BY <2>1, CapacityInt, ListMembers
  <2> QED
    BY <2>2, <2>3, <2>4 DEF Visible
<1> QED
  BY <1>1, <1>2, <1>3, <1>4 DEF TypeOK

\* At every moment of a build the graph passes the checks of a load, whatever the threads do at the same time.
THEOREM GraphTypeCorrect == Spec => []TypeOK
<1>1. Spec => []Inv
  BY GraphInvariant
<1>2. Inv => TypeOK
  BY TypeFollows
<1> HIDE DEF Inv, TypeOK
<1> QED
  BY <1>1, <1>2, PTL

\* LateNodesHidden follows from it.
LEMMA HiddenFollows == Inv => LateNodesHidden
<1> SUFFICES ASSUME Inv, NEW t \in Threads, Active(thread[t]),
                    NEW l \in (0 .. set.level[thread[t].p]) \ Linked(thread[t])
             PROVE  /\ links[thread[t].p][l] = <<>>
                    /\ \A x \in Positions : l \in DOMAIN links[x] => thread[t].p \notin MembersOf(links[x][l])
  BY DEF LateNodesHidden, Active, Linked
<1>1. Hidden(thread[t].p, l) /\ thread[t].p \notin Visible(l)
  BY OwnHidden
<1>2. Positions \subseteq AllPositions
  BY PositionTypes DEF Inv
<1>3. thread[t].p \in AllPositions
  BY <1>2 DEF Inv, ThreadsOK, FrameOK
<1>4. links[thread[t].p][l] = <<>>
  BY <1>1, <1>3 DEF Inv, GraphOK, Levels
<1>5. ASSUME NEW x \in Positions, l \in DOMAIN links[x] PROVE thread[t].p \notin MembersOf(links[x][l])
  <2>1. IsList(links[x][l], Visible(l) \ {x}, Capacity(l))
    BY <1>2, <1>5 DEF Inv, GraphOK
  <2>2. MembersOf(links[x][l]) \subseteq Visible(l) \ {x}
    BY <2>1, CapacityInt, ListMembers
  <2> QED
    BY <1>1, <2>2
<1> QED
  BY <1>4, <1>5

\* A node that searches is not found by others, on every level that it has not linked yet.
THEOREM LateNodesAreHidden == Spec => []LateNodesHidden
<1>1. Spec => []Inv
  BY GraphInvariant
<1>2. Inv => LateNodesHidden
  BY HiddenFollows
<1> HIDE DEF Inv, LateNodesHidden
<1> QED
  BY <1>1, <1>2, PTL

------------------------------------------------------------------------------
(* Nobody is left without links: a node that is in has neighbours, except  *)
(* position 0 as long as every other one is still on its way.              *)

\* What an insert knows that can find position 0 only.
AloneFrame(r) ==
    r.pc \in {"greedy", "search", "own", "back"} =>
        /\ \A l \in DOMAIN r.sel : MembersOf(r.sel[l]) \subseteq {0}
        /\ r.pc \in {"greedy", "search"} => r.cur = 0
        /\ r.pc = "search" => r.beam.cand = {0} /\ r.beam.top = {0}
        /\ r.pc \in {"own", "back"} => r.level = 0
        /\ r.pc = "back" => r.i = 1
\* Position 0 is in and no node linked to it yet.
Alone == cutoff = "no" /\ top >= 0 /\ dead = {} /\ links[0][0] = <<>>
AloneOK ==
    Alone => /\ entry = 0
             /\ \A p \in AllPositions : \A l \in Levels(p) : MembersOf(links[p][l]) \subseteq {0}
             /\ \A x \in Positions \ {0} : Pending(x)
             /\ \A t \in Threads : AloneFrame(thread[t])

\* An insert has found something, and chooses at least one neighbour on level 0.
Chosen(r) ==
    /\ r.pc = "search" => r.beam.top # {}
    /\ r.pc \in {"own", "back"} => r.sel[0] # <<>>
NonEmpty ==
    cutoff = "no" /\ dead = {} =>
        /\ \A p \in Positions \ {0} : ~Hidden(p, 0) => links[p][0] # <<>>
        /\ \A t \in Threads : Chosen(thread[t])

Whole == AloneOK /\ NonEmpty

\* A step of one thread: what it does not finish stays hidden and pending.
LEMMA StillHidden ==
    ASSUME Typed, NEW t \in Threads, NEW w, thread' = [thread EXCEPT ![t] = w],
           UNCHANGED <<set, count, stage, next>>
    PROVE  /\ \A x : (Owns(thread[t], x) => Owns(w, x)) /\ Pending(x) => Pending(x)'
           /\ \A x : (Hides(thread[t], x, 0) => Hides(w, x, 0)) /\ Hidden(x, 0) => Hidden(x, 0)'
           /\ thread'[t] = w /\ \A u \in Threads : u # t => thread'[u] = thread[u]
<1>1. thread'[t] = w /\ \A u \in Threads : u # t => thread'[u] = thread[u]
  BY DEF Typed
<1>2. (Building <=> Building') /\ Front' = Front /\ count' = count
  BY DEF Building, Front, First
<1>3. ASSUME NEW x, Owns(thread[t], x) => Owns(w, x), Pending(x) PROVE Pending(x)'
  <2>1. CASE Building /\ x >= Front
    BY <1>2, <2>1 DEF Pending
  <2>2. CASE \E u \in Threads : Owns(thread[u], x)
    <3>1. PICK u \in Threads : Owns(thread[u], x)
      BY <2>2
    <3>2. Owns(thread'[u], x)
      BY <1>1, <1>3, <3>1
    <3> QED
      BY <3>2 DEF Pending
  <2> QED
    BY <1>3, <2>1, <2>2 DEF Pending
<1>4. ASSUME NEW x, Hides(thread[t], x, 0) => Hides(w, x, 0), Hidden(x, 0) PROVE Hidden(x, 0)'
  <2>1. CASE x >= count \/ (Building /\ x >= Front)
    BY <1>2, <2>1 DEF Hidden
  <2>2. CASE \E u \in Threads : Hides(thread[u], x, 0)
    <3>1. PICK u \in Threads : Hides(thread[u], x, 0)
      BY <2>2
    <3>2. Hides(thread'[u], x, 0)
      BY <1>1, <1>4, <3>1
    <3> QED
      BY <3>2 DEF Hidden
  <2> QED
    BY <1>4, <2>1, <2>2 DEF Hidden
<1> QED
  BY <1>1, <1>3, <1>4

\* A step of one thread that writes no list and does not finish its node.
LEMMA InnerWhole ==
    ASSUME Inv, Whole, NEW t \in Threads, NEW w, thread' = [thread EXCEPT ![t] = w],
           UNCHANGED <<set, dead, count, stage, links, entry, top, next, cutoff>>,
           \A x : Owns(thread[t], x) => Owns(w, x),
           \A x : Hides(thread[t], x, 0) => Hides(w, x, 0),
           Alone => AloneFrame(w),
           cutoff = "no" /\ dead = {} => Chosen(w)
    PROVE  Whole'
<1>1. /\ \A x : Pending(x) => Pending(x)'
      /\ \A x : Hidden(x, 0) => Hidden(x, 0)'
      /\ thread'[t] = w /\ \A u \in Threads : u # t => thread'[u] = thread[u]
  BY StillHidden DEF Inv
<1>2. Positions' = Positions /\ AllPositions' = AllPositions /\ \A p : Levels(p)' = Levels(p)
  BY DEF Positions, AllPositions, Levels
<1>3. AloneOK'
  <2> SUFFICES ASSUME Alone'
               PROVE  /\ entry' = 0
                      /\ \A p \in AllPositions : \A l \in Levels(p) : MembersOf(links[p][l]) \subseteq {0}
                      /\ \A x \in Positions \ {0} : Pending(x)'
                      /\ \A u \in Threads : AloneFrame(thread'[u])
    BY <1>2 DEF AloneOK
  <2>1. Alone
    BY DEF Alone
  <2>2. /\ entry = 0
        /\ \A p \in AllPositions : \A l \in Levels(p) : MembersOf(links[p][l]) \subseteq {0}
        /\ \A x \in Positions \ {0} : Pending(x)
        /\ \A u \in Threads : AloneFrame(thread[u])
    BY <2>1 DEF Whole, AloneOK
  <2>3. AloneFrame(w)
    BY <2>1
  <2> QED
    BY <1>1, <2>2, <2>3
<1>4. NonEmpty'
  <2> SUFFICES ASSUME cutoff = "no", dead = {}
               PROVE  /\ \A p \in Positions \ {0} : ~Hidden(p, 0)' => links[p][0] # <<>>
                      /\ \A u \in Threads : Chosen(thread'[u])
    BY <1>2 DEF NonEmpty
  <2>1. /\ \A p \in Positions \ {0} : ~Hidden(p, 0) => links[p][0] # <<>>
        /\ \A u \in Threads : Chosen(thread[u])
    BY DEF Whole, NonEmpty
  <2>2. Chosen(w)
    OBVIOUS
  <2> QED
    BY <1>1, <2>1, <2>2
<1> QED
  BY <1>3, <1>4 DEF Whole

\* While position 0 is alone it is the entry point, it has no links, and nobody inserts it again.
LEMMA AloneIs ==
    ASSUME Inv, Whole, Alone
    PROVE  /\ entry = 0 /\ 0 \in Positions /\ 0 \in AllPositions
           /\ \A l \in Levels(0) : MembersOf(links[0][l]) = {}
           /\ \A t \in Threads : Active(thread[t]) => thread[t].p # 0 /\ AloneFrame(thread[t])
<1>1. /\ entry = 0 /\ \A p \in AllPositions : \A l \in Levels(p) : MembersOf(links[p][l]) \subseteq {0}
      /\ \A t \in Threads : AloneFrame(thread[t])
  BY DEF Whole, AloneOK
<1>2. 0 \in Positions /\ 0 \in AllPositions
  BY <1>1, PositionTypes DEF Inv, Typed
<1>3. ASSUME NEW l \in Levels(0) PROVE MembersOf(links[0][l]) = {}
  <2>1. IsList(links[0][l], Visible(l) \ {0}, Capacity(l))
    BY <1>2, <1>3 DEF Inv, GraphOK
  <2>2. MembersOf(links[0][l]) \subseteq Visible(l) \ {0}
    BY <2>1, CapacityInt, ListMembers
  <2> QED
    BY <1>1, <1>2, <1>3, <2>2
<1>4. ASSUME NEW t \in Threads, Active(thread[t]) PROVE thread[t].p # 0
  <2>1. ~Pending(entry)
    BY DEF Inv, EntryOK, Alone
  <2>2. thread[t].p \in Nat /\ thread[t].p < thread[t].upto
    BY <1>4, PositionTypes DEF Inv, ThreadsOK, FrameOK, Frames
  <2>3. Owns(thread[t], thread[t].p)
    BY <1>4, <2>2 DEF Owns
  <2> QED
    BY <1>1, <2>1, <2>3 DEF Pending
<1> QED
  BY <1>1, <1>2, <1>3, <1>4

\* A greedy move keeps Whole.
LEMMA GreedyWhole == ASSUME Inv, Whole, NEW t \in Threads, Greedy(t) PROVE Whole'
<1> DEFINE r == thread[t]
           q == set.at[r.p]
           best == MoveOf(q, r.cur, links[r.cur][r.level])
<1>1. /\ r \in Frames /\ r.pc = "greedy" /\ Active(r) /\ Linked(r) = {} /\ Typed /\ r.level \in Nat /\ r.p \in Nat
      /\ r.p \in Positions /\ r.cur \in Visible(r.level) /\ r.cur # r.p /\ r.level > set.level[r.p]
      /\ set.level[r.p] \in Nat /\ q \in Points /\ set \in Sets /\ r.cur \in Positions
  <2>1. r \in Frames /\ r.pc = "greedy" /\ Active(r) /\ Linked(r) = {} /\ FrameOK(r) /\ Typed
    BY PositionTypes DEF Inv, Greedy, ThreadsOK, Active, Linked
  <2>2. r.level \in Nat /\ r.p \in Nat
    BY <2>1 DEF Frames
  <2>3. r.p \in Positions /\ r.cur \in Visible(r.level) /\ r.cur # r.p /\ r.level > set.level[r.p]
    BY <2>1 DEF FrameOK
  <2> QED
    BY <2>1, <2>2, <2>3, PositionTypes DEF Typed
<1>2. /\ thread' = [thread EXCEPT ![t] = IF best # r.cur THEN [r EXCEPT !.cur = best] ELSE At(r, r.level - 1, r.cur)]
      /\ UNCHANGED <<set, dead, count, stage, links, entry, top, next, cutoff>>
  BY DEF Greedy, graphVars
<1>3. Alone => /\ r.cur = 0 /\ best = 0 /\ \A l \in DOMAIN r.sel : MembersOf(r.sel[l]) \subseteq {0}
  <2> SUFFICES ASSUME Alone
               PROVE r.cur = 0 /\ best = 0 /\ \A l \in DOMAIN r.sel : MembersOf(r.sel[l]) \subseteq {0}
    OBVIOUS
  <2>1. r.cur = 0 /\ \A l \in DOMAIN r.sel : MembersOf(r.sel[l]) \subseteq {0}
    BY <1>1, AloneIs DEF AloneFrame
  <2>2. r.level \in Levels(0)
    BY <1>1, <2>1 DEF Visible, Levels
  <2>3. MembersOf(links[0][r.level]) \subseteq {0} /\ {0} \in SUBSET AllPositions
    BY <2>2, AloneIs
  <2> HIDE DEF q, r
  <2>4. MoveOf(q, 0, links[0][r.level]) \in {0}
    BY <1>1, <2>3, MoveIs
  <2> QED
    BY <2>1, <2>4
<1> HIDE DEF r, best
<1>4. CASE best # r.cur
  <2> DEFINE w == [r EXCEPT !.cur = best]
  <2>1. w.pc = "greedy" /\ w.p = r.p /\ w.upto = r.upto /\ w.sel = r.sel /\ w.cur = best
    BY <1>1 DEF Frames
  <2>2. thread' = [thread EXCEPT ![t] = w]
    BY <1>2, <1>4
  <2> HIDE DEF w
  <2>3. \A x : (Owns(r, x) => Owns(w, x)) /\ (Hides(r, x, 0) => Hides(w, x, 0))
    BY <1>1, <2>1 DEF Owns, Hides, Active, Linked
  <2>4. (Alone => AloneFrame(w)) /\ Chosen(w)
    BY <1>3, <1>4, <2>1 DEF AloneFrame, Chosen
  <2> QED
    BY <1>2, <2>2, <2>3, <2>4, InnerWhole DEF r
<1>5. CASE best = r.cur
  <2> DEFINE w == At(r, r.level - 1, r.cur)
  <2>1. r.level - 1 \in Nat
    BY <1>1
  <2>2. /\ w.p = r.p /\ w.upto = r.upto /\ w.sel = r.sel /\ w.cur = r.cur
        /\ \/ w.pc = "greedy"
           \/ w.pc = "search" /\ w.beam.cand = {r.cur} /\ (r.cur \notin dead => w.beam.top = {r.cur})
    BY <1>1, <2>1, AtIs
  <2>3. thread' = [thread EXCEPT ![t] = w]
    BY <1>2, <1>5
  <2> HIDE DEF w
  <2>4. \A x : (Owns(r, x) => Owns(w, x)) /\ (Hides(r, x, 0) => Hides(w, x, 0))
    BY <1>1, <2>2 DEF Owns, Hides, Active, Linked
  <2>5. (Alone => AloneFrame(w)) /\ (dead = {} => Chosen(w))
    BY <1>3, <2>2 DEF AloneFrame, Chosen, Alone
  <2> QED
    BY <1>2, <2>3, <2>4, <2>5, InnerWhole DEF r
<1> QED
  BY <1>4, <1>5

\* A step of a search keeps Whole: whoever starts at a linked node finds one.
LEMMA SearchWhole == ASSUME Inv, Whole, NEW t \in Threads, Search(t) PROVE Whole'
<1> DEFINE r == thread[t]
<1>1. /\ r \in Frames /\ r.pc = "search" /\ Active(r) /\ Linked(r) = {} /\ r.sel \in Picks /\ r.level \in Nat
      /\ r.level \in DOMAIN r.sel /\ r.cur \in Visible(r.level)
      /\ \E k \in Levels(r.p) : DOMAIN r.sel = 0 .. k
  <2>1. r \in Frames /\ r.pc = "search" /\ Active(r) /\ Linked(r) = {} /\ FrameOK(r)
    BY PositionTypes DEF Inv, Search, ThreadsOK, Active, Linked
  <2>2. r.sel \in Picks /\ r.level \in Nat
    BY <2>1 DEF Frames
  <2> QED
    BY <2>1, <2>2 DEF FrameOK
<1>2. PICK k \in Nat : DOMAIN r.sel = 0 .. k
  BY <1>1 DEF Picks, Levels
<1>3. PICK b \in Beams : \E sel \in Seq(Nat) : \E w \in Frames :
         /\ thread' = [thread EXCEPT ![t] = w] /\ SearchTo(r, b, sel, w)
         /\ IsList(sel, b.top, M) /\ (b.top # {} => sel # <<>>) /\ (r.beam.top # {} => b.top # {})
         /\ \A c : r.beam.cand = {c} /\ MembersOf(links[c][r.level]) = {} => b.cand = {}
         /\ \A V \in SUBSET AllPositions :
               r.beam.cand \subseteq V /\ r.beam.top \subseteq V /\ Shut(V, r.level) =>
                   b.cand \subseteq V /\ b.top \subseteq V
  BY SearchFacts
<1>4. PICK sel \in Seq(Nat) : \E w \in Frames :
         thread' = [thread EXCEPT ![t] = w] /\ SearchTo(r, b, sel, w)
         /\ IsList(sel, b.top, M) /\ (b.top # {} => sel # <<>>)
  BY <1>3
<1>5. PICK w \in Frames : thread' = [thread EXCEPT ![t] = w] /\ SearchTo(r, b, sel, w)
  BY <1>4
<1>6. UNCHANGED <<set, dead, count, stage, links, entry, top, next, cutoff>>
  BY DEF Search, graphVars
<1>7. cutoff = "no" /\ dead = {} => b.top # {} /\ sel # <<>>
  BY <1>1, <1>3, <1>4 DEF Whole, NonEmpty, Chosen
<1>8. Alone => /\ r.cur = 0 /\ b.cand = {} /\ MembersOf(sel) \subseteq {0}
               /\ \A l \in DOMAIN r.sel : MembersOf(r.sel[l]) \subseteq {0}
  <2> SUFFICES ASSUME Alone
               PROVE  /\ r.cur = 0 /\ b.cand = {} /\ MembersOf(sel) \subseteq {0}
                      /\ \A l \in DOMAIN r.sel : MembersOf(r.sel[l]) \subseteq {0}
    OBVIOUS
  <2>1. /\ r.cur = 0 /\ r.beam.cand = {0} /\ r.beam.top = {0}
        /\ \A l \in DOMAIN r.sel : MembersOf(r.sel[l]) \subseteq {0}
    BY <1>1, AloneIs DEF AloneFrame
  <2>2. r.level \in Levels(0)
    BY <1>1, <2>1 DEF Visible, Levels
  <2>3. MembersOf(links[0][r.level]) = {} /\ {0} \in SUBSET AllPositions
    BY <2>2, AloneIs
  <2>4. Shut({0}, r.level)
    BY <2>3 DEF Shut
  <2>5. b.cand = {} /\ b.top \subseteq {0}
    BY <1>3, <2>1, <2>3, <2>4
  <2>6. MembersOf(sel) \subseteq b.top
    BY <1>4, GraphConstants, ListMembers
  <2> QED
    BY <2>1, <2>5, <2>6
<1> DEFINE picks == [r.sel EXCEPT ![r.level] = sel]
<1>9. /\ DOMAIN picks = 0 .. k /\ picks[r.level] = sel
      /\ \A l \in 0 .. k : l # r.level => picks[l] = r.sel[l]
  BY <1>1, <1>2, <1>4, PicksUpdate
<1>10. w.p = r.p /\ w.upto = r.upto /\ w.pc \in {"search", "own"}
  BY <1>5 DEF SearchTo
<1>11. ASSUME w.pc = "own" => w.level = 0, Alone => AloneFrame(w), cutoff = "no" /\ dead = {} => Chosen(w)
       PROVE  Whole'
  <2>1. Active(w) /\ Linked(w) = {}
    BY <1>10, <1>11 DEF Active, Linked
  <2>2. \A x : (Owns(r, x) => Owns(w, x)) /\ (Hides(r, x, 0) => Hides(w, x, 0))
    BY <1>10, <2>1 DEF Owns, Hides
  <2> QED
    BY <1>5, <1>6, <1>11, <2>2, InnerWhole
<1> HIDE DEF r, picks
<1>12. CASE b.cand # {} /\ w.beam = b /\ w.pc = "search"
  BY <1>7, <1>8, <1>11, <1>12 DEF Chosen
<1>13. CASE /\ w.sel = picks /\ w.pc = "search" /\ w.cur \in MembersOf(sel) \cup {r.cur} /\ w.beam.cand = {w.cur}
            /\ w.cur \notin dead => w.beam.top = {w.cur}
  <2>1. Alone => AloneFrame(w)
    <3> SUFFICES ASSUME Alone PROVE AloneFrame(w)
      OBVIOUS
    <3>1. w.cur = 0 /\ dead = {}
      BY <1>8, <1>13 DEF Alone
    <3>2. \A l \in DOMAIN w.sel : MembersOf(w.sel[l]) \subseteq {0}
      BY <1>2, <1>8, <1>9, <1>13
    <3> QED
      BY <1>13, <3>1, <3>2 DEF AloneFrame
  <2>2. dead = {} => Chosen(w)
    BY <1>13 DEF Chosen
  <2> QED
    BY <1>11, <1>13, <2>1, <2>2
<1>14. CASE w.sel = picks /\ r.level = 0 /\ w.pc = "own" /\ w.level = 0
  <2>1. Alone => AloneFrame(w)
    <3> SUFFICES ASSUME Alone PROVE AloneFrame(w)
      OBVIOUS
    <3>1. \A l \in DOMAIN w.sel : MembersOf(w.sel[l]) \subseteq {0}
      BY <1>2, <1>8, <1>9, <1>14
    <3> QED
      BY <1>14, <3>1 DEF AloneFrame
  <2>2. cutoff = "no" /\ dead = {} => Chosen(w)
    BY <1>7, <1>9, <1>14 DEF Chosen
  <2> QED
    BY <1>11, <1>14, <2>1, <2>2
<1> QED
  BY <1>5, <1>12, <1>13, <1>14 DEF SearchTo, picks


\* The same for a step that writes one list.
LEMMA LinkWhole ==
    ASSUME Inv, Whole, NEW t \in Threads, NEW w, thread' = [thread EXCEPT ![t] = w],
           UNCHANGED <<set, dead, count, stage, entry, top, next, cutoff>>,
           NEW a \in AllPositions, NEW b \in Levels(a), NEW v, links' = [links EXCEPT ![a][b] = v],
           \A x : Owns(thread[t], x) => Owns(w, x),
           \A x : x # a \/ b # 0 => (Hides(thread[t], x, 0) => Hides(w, x, 0)),
           cutoff = "no" /\ dead = {} => Chosen(w) /\ (b = 0 => v # <<>>),
           Alone' => Alone /\ AloneFrame(w) /\ MembersOf(v) \subseteq {0}
    PROVE  Whole'
<1>1. /\ \A x : Pending(x) => Pending(x)'
      /\ \A x : x # a \/ b # 0 => (Hidden(x, 0) => Hidden(x, 0)')
      /\ thread'[t] = w /\ \A u \in Threads : u # t => thread'[u] = thread[u]
  BY StillHidden DEF Inv
<1>2. /\ Positions' = Positions /\ AllPositions' = AllPositions /\ \A p : Levels(p)' = Levels(p)
      /\ Positions \subseteq AllPositions
  BY PositionTypes DEF Positions, AllPositions, Levels, Inv
<1>3. \A p \in AllPositions : \A l \in Levels(p) : links'[p][l] = IF p = a /\ l = b THEN v ELSE links[p][l]
  BY ListWritten DEF Inv
<1>4. AloneOK'
  <2> SUFFICES ASSUME Alone'
               PROVE  /\ entry' = 0
                      /\ \A p \in AllPositions : \A l \in Levels(p) : MembersOf(links'[p][l]) \subseteq {0}
                      /\ \A x \in Positions \ {0} : Pending(x)'
                      /\ \A u \in Threads : AloneFrame(thread'[u])
    BY <1>2 DEF AloneOK
  <2>1. /\ entry = 0
        /\ \A p \in AllPositions : \A l \in Levels(p) : MembersOf(links[p][l]) \subseteq {0}
        /\ \A x \in Positions \ {0} : Pending(x)
        /\ \A u \in Threads : AloneFrame(thread[u])
    BY DEF Whole, AloneOK
  <2>2. AloneFrame(w) /\ MembersOf(v) \subseteq {0}
    OBVIOUS
  <2>3. ASSUME NEW p \in AllPositions, NEW l \in Levels(p) PROVE MembersOf(links'[p][l]) \subseteq {0}
    <3>1. links'[p][l] = IF p = a /\ l = b THEN v ELSE links[p][l]
      BY <1>3
    <3>2. MembersOf(links[p][l]) \subseteq {0}
      BY <2>1
    <3> QED
      BY <2>2, <3>1, <3>2
  <2>4. entry' = entry /\ \A u \in Threads : AloneFrame(thread'[u])
    BY <1>1, <2>1, <2>2
  <2> QED
    BY <1>1, <2>1, <2>3, <2>4
<1>5. NonEmpty'
  <2> SUFFICES ASSUME cutoff = "no", dead = {}
               PROVE  /\ \A p \in Positions \ {0} : ~Hidden(p, 0)' => links'[p][0] # <<>>
                      /\ \A u \in Threads : Chosen(thread'[u])
    BY <1>2 DEF NonEmpty
  <2>1. /\ \A p \in Positions \ {0} : ~Hidden(p, 0) => links[p][0] # <<>>
        /\ \A u \in Threads : Chosen(thread[u])
    BY DEF Whole, NonEmpty
  <2>2. Chosen(w) /\ (b = 0 => v # <<>>)
    OBVIOUS
  <2>3. ASSUME NEW p \in Positions \ {0}, ~Hidden(p, 0)' PROVE links'[p][0] # <<>>
    <3>1. p \in AllPositions /\ 0 \in Levels(p)
      BY <1>2, GroundLinks
    <3>2. links'[p][0] = IF p = a /\ 0 = b THEN v ELSE links[p][0]
      BY <1>3, <3>1
    <3> QED
      BY <1>1, <2>1, <2>2, <2>3, <3>2
  <2> QED
    BY <1>1, <2>1, <2>2, <2>3
<1> QED
  BY <1>4, <1>5 DEF Whole

\* While position 0 is alone, the node that links knows no other neighbour, and has nobody linked back yet.
LEMMA AloneLinking ==
    ASSUME Inv, Whole, Alone, NEW t \in Threads, thread[t].pc \in {"own", "back"}
    PROVE  /\ thread[t].p # 0 /\ thread[t].level = 0 /\ (thread[t].pc = "back" => thread[t].i = 1)
           /\ 0 \in DOMAIN thread[t].sel /\ MembersOf(thread[t].sel[0]) \subseteq {0}
           /\ thread[t].sel[0] \in Seq({0}) /\ thread[t].sel[0] # <<>>
           /\ Len(thread[t].sel[0]) >= 1 /\ thread[t].sel[0][1] = 0
<1>1. thread[t].p # 0 /\ AloneFrame(thread[t])
  BY AloneIs DEF Active
<1>2. thread[t].level = 0 /\ (thread[t].pc = "back" => thread[t].i = 1)
  BY <1>1 DEF AloneFrame
<1>3. PICK p \in AllPositions, l \in Nat :
          /\ l = thread[t].level /\ l \in DOMAIN thread[t].sel
          /\ \A j \in DOMAIN thread[t].sel : IsList(thread[t].sel[j], Visible(j) \ {p}, M)
  BY LinkingFacts
<1>4. PICK s : s = thread[t].sel[0]
  OBVIOUS
<1>5. 0 \in DOMAIN thread[t].sel /\ IsList(s, Visible(0) \ {p}, M) /\ MembersOf(s) \subseteq {0}
  BY <1>1, <1>2, <1>3, <1>4 DEF AloneFrame
<1>6. IsList(s, {0}, M)
  BY <1>5, ListMembers, GraphConstants
<1>7. s # <<>>
  <2>1. Chosen(thread[t])
    BY DEF Whole, NonEmpty, Alone
  <2> QED
    BY <1>4, <2>1 DEF Chosen
<1>8. s \in Seq({0}) /\ Len(s) >= 1 /\ s[1] = 0
  <2>1. s \in Seq({0})
    BY <1>6 DEF IsList
  <2>2. Len(s) # 0 /\ Len(s) \in Nat
    BY <1>7, <2>1, EmptySeq
  <2>3. 1 \in 1 .. Len(s)
    BY <2>2
  <2> QED
    BY <2>1, <2>2, <2>3
<1> QED
  BY <1>1, <1>2, <1>4, <1>5, <1>7, <1>8

\* Linking a node's own list keeps Whole.
LEMMA ConnectOwnWhole == ASSUME Inv, Whole, NEW t \in Threads, ConnectOwn(t) PROVE Whole'
<1> DEFINE r == thread[t]
           w == [r EXCEPT !.pc = "back", !.i = 1]
<1>0. r.pc = "own"
  BY DEF ConnectOwn
<1>1. PICK p \in AllPositions, l \in Nat :
              /\ p = r.p /\ l = r.level /\ l \in DOMAIN r.sel /\ l \in Levels(p)
              /\ r \in Frames /\ Active(r) /\ r.sel \in Picks
              /\ \A j \in DOMAIN r.sel : IsList(r.sel[j], Visible(j) \ {p}, M)
              /\ Typed /\ M \in Nat \ {0} /\ Capacity(l) \in Nat \ {0} /\ set \in Sets /\ set.at[p] \in Points
  BY <1>0, LinkingFacts
<1> DEFINE q == set.at[p]
           all == (MembersOf(r.sel[l]) \cup MembersOf(links[p][l])) \ {p}
           v == IF Cardinality(all) > Capacity(l) THEN Select(q, all, Capacity(l)) ELSE Ordered(q, all)
<1>2. /\ links' = [links EXCEPT ![p][l] = v] /\ thread' = [thread EXCEPT ![t] = w]
      /\ UNCHANGED <<set, dead, count, stage, entry, top, next, cutoff>>
  BY <1>1 DEF ConnectOwn, graphVars
<1>3. Hidden(p, l) /\ links[p][l] = <<>>
  <2>1. l \notin Linked(r)
    BY <1>0, <1>1 DEF Linked
  <2>2. Hidden(p, l)
    BY <1>1, <2>1, OwnHidden
  <2> QED
    BY <1>1, <2>2 DEF Inv, GraphOK
<1>4. /\ MembersOf(r.sel[l]) \subseteq Visible(l) \ {p}
      /\ MembersOf(r.sel[l]) = {} <=> r.sel[l] = <<>>
  <2>1. IsList(r.sel[l], Visible(l) \ {p}, M) /\ M \in Int
    BY <1>1
  <2> QED
    BY <2>1, ListMembers
<1>5. all \in SUBSET AllPositions /\ all = MembersOf(r.sel[l])
  <2>1. MembersOf(<<>>) = {}
    BY DEF MembersOf
  <2> QED
    BY <1>1, <1>3, <1>4, <2>1, PositionTypes
<1>6. cutoff = "no" /\ dead = {} => r.sel[0] # <<>>
  BY <1>0 DEF Whole, NonEmpty, Chosen
<1>7. all # {} => v # <<>>
  <2> HIDE DEF all, q
  <2>1. all # {} => Select(q, all, Capacity(l)) # <<>>
    BY <1>1, <1>5, SelectIs DEF q
  <2>2. MembersOf(Ordered(q, all)) = all
    BY <1>1, <1>5, OrderedIs DEF q
  <2>3. Ordered(q, all) = <<>> => all = {}
    BY <2>2 DEF MembersOf
  <2> QED
    BY <2>1, <2>3
<1>8. MembersOf(v) \subseteq all
  <2> HIDE DEF all, q
  <2>1. IsList(Select(q, all, Capacity(l)), all, Capacity(l))
    BY <1>1, <1>5, SelectIs DEF q
  <2>2. MembersOf(Select(q, all, Capacity(l))) \subseteq all
    BY <1>1, <2>1, ListMembers
  <2>3. MembersOf(Ordered(q, all)) = all
    BY <1>1, <1>5, OrderedIs DEF q
  <2> QED
    BY <2>2, <2>3
<1>9. /\ w.p = r.p /\ w.upto = r.upto /\ w.pc = "back" /\ w.sel = r.sel /\ w.level = l /\ w.i = 1
  BY <1>1 DEF Frames
<1> HIDE DEF w, v, all
<1>10. \A x : Owns(r, x) => Owns(w, x)
  BY <1>1, <1>9 DEF Owns, Active
<1>11. \A x : x # p \/ l # 0 => (Hides(r, x, 0) => Hides(w, x, 0))
  <2>1. Linked(r) = 0 .. l - 1 /\ Linked(w) = 0 .. l
    BY <1>0, <1>1, <1>9 DEF Linked
  <2>2. l # 0 => 0 \in Linked(r)
    BY <1>1, <2>1
  <2> QED
    BY <1>1, <1>9, <2>2 DEF Hides, Active
<1>12. cutoff = "no" /\ dead = {} => Chosen(w) /\ (l = 0 => v # <<>>)
  BY <1>4, <1>5, <1>6, <1>7, <1>9 DEF Chosen
<1>13. Alone' => Alone /\ AloneFrame(w) /\ MembersOf(v) \subseteq {0}
  <2> SUFFICES ASSUME Alone' PROVE Alone /\ AloneFrame(w) /\ MembersOf(v) \subseteq {0}
    OBVIOUS
  <2>1. Alone
    <3>1. top >= 0 /\ cutoff = "no" /\ dead = {} /\ links'[0][0] = <<>>
      BY <1>2 DEF Alone
    <3>2. entry \in Visible(top) /\ set.base \in 1 .. Cardinality(AllPositions)
          /\ AllPositions = 0 .. Cardinality(AllPositions) - 1 /\ Cardinality(AllPositions) \in Nat \ {0}
      BY <1>1, <3>1, EntryVisible, SetTypes
    <3>3. 0 \in AllPositions
      BY <3>2
    <3>4. 0 \in Levels(0)
      <4>1. set.level[0] \in Nat
        BY <1>1, <3>3, PositionTypes
      <4> QED
        BY <4>1 DEF Levels
    <3>5. links'[0][0] = IF 0 = p /\ 0 = l THEN v ELSE links[0][0]
      <4>1. /\ DOMAIN links = AllPositions /\ \A x \in AllPositions : DOMAIN links[x] = Levels(x)
            /\ links' = [links EXCEPT ![p][l] = v] /\ p \in AllPositions /\ l \in Levels(p)
        BY <1>1, <1>2 DEF Inv, GraphOK
      <4> QED
        BY <3>3, <3>4, <4>1
    <3>6. links[0][0] = <<>>
      BY <1>3, <3>1, <3>5
    <3> QED
      BY <3>1, <3>6 DEF Alone
  <2>2. l = 0 /\ MembersOf(r.sel[0]) \subseteq {0}
    BY <1>0, <1>1, <2>1, AloneLinking
  <2>3. AloneFrame(r)
    BY <1>1, <2>1, AloneIs
  <2> QED
    BY <1>0, <1>5, <1>8, <1>9, <2>1, <2>2, <2>3 DEF AloneFrame
<1> QED
  BY <1>1, <1>2, <1>10, <1>11, <1>12, <1>13, LinkWhole DEF r

\* Linking back keeps Whole: no list becomes empty.
LEMMA ConnectBackWhole == ASSUME Inv, Whole, NEW t \in Threads, ConnectBack(t) PROVE Whole'
<1> DEFINE r == thread[t]
           w == [r EXCEPT !.i = r.i + 1]
<1>0. r.pc = "back"
  BY DEF ConnectBack
<1>1. PICK p \in AllPositions, l \in Nat :
              /\ p = r.p /\ l = r.level /\ l \in DOMAIN r.sel /\ l \in Levels(p)
              /\ r \in Frames /\ Active(r) /\ r.i >= 1 /\ p \in Positions /\ p < r.upto /\ r.upto <= count
              /\ \A j \in DOMAIN r.sel : IsList(r.sel[j], Visible(j) \ {p}, M)
              /\ Typed /\ M \in Nat \ {0} /\ Capacity(l) \in Nat \ {0} /\ set \in Sets
  BY <1>0, LinkingFacts
<1>2. r.i \in Nat /\ r.i <= Len(r.sel[l])
  BY <1>1 DEF ConnectBack, Frames
<1>3. r.sel[l][r.i] \in Visible(l) \ {p}
  <2>1. r.sel[l] \in Seq(Visible(l) \ {p})
    BY <1>1 DEF IsList
  <2>2. r.i \in 1 .. Len(r.sel[l])
    BY <1>1, <1>2, <2>1
  <2> QED
    BY <2>1, <2>2
<1>4. PICK nb \in Visible(l) : nb = r.sel[l][r.i] /\ nb # p
  BY <1>3
<1> DEFINE v == WithLink(links[nb][l], nb, p, Capacity(l))
<1>5. nb \in AllPositions /\ l \in Levels(nb)
  BY <1>1, <1>4, NeighboursVisible
<1>6. /\ thread' = [thread EXCEPT ![t] = w] /\ UNCHANGED <<set, dead, count, stage, entry, top, next, cutoff>>
  BY DEF ConnectBack, Inv, Typed, graphVars
<1>7. links' = [links EXCEPT ![nb][l] = v]
  <2>1. links' = [links EXCEPT ![nb][l] = WithLink(@, nb, p, Capacity(l))]
    BY <1>1, <1>4 DEF ConnectBack
  <2>2. nb \in DOMAIN links /\ l \in DOMAIN links[nb]
    BY <1>5 DEF Inv, GraphOK
  <2> QED
    BY <2>1, <2>2
<1>8. v # <<>>
  <2>1. IsList(links[nb][l], Visible(l) \ {nb}, Capacity(l))
    BY <1>5 DEF Inv, GraphOK
  <2>2. Visible(l) \ {nb} \subseteq AllPositions \ {nb} /\ p \in AllPositions \ {nb}
    BY <1>1, <1>4, PositionTypes
  <2>3. IsList(links[nb][l], AllPositions \ {nb}, Capacity(l))
    BY <1>1, <2>1, <2>2, ListGrows
  <2> QED
    BY <1>1, <1>5, <2>2, <2>3, WithLinkIs
<1>9. /\ w.p = r.p /\ w.upto = r.upto /\ w.pc = "back" /\ w.sel = r.sel /\ w.level = r.level
  BY <1>0, <1>1 DEF Frames
<1> HIDE DEF w, v
<1>10. \A x : (Owns(r, x) => Owns(w, x)) /\ (Hides(r, x, 0) => Hides(w, x, 0))
  BY <1>0, <1>9 DEF Owns, Hides, Active, Linked
<1>11. cutoff = "no" /\ dead = {} => Chosen(w)
  BY <1>0, <1>9 DEF Whole, NonEmpty, Chosen
<1>12. ~Alone'
  <2> SUFFICES ASSUME Alone' PROVE FALSE
    OBVIOUS
  <2>1. top >= 0 /\ cutoff = "no" /\ dead = {} /\ links'[0][0] = <<>>
    BY <1>6 DEF Alone
  <2>2. nb # 0 \/ l # 0
    <3>1. DOMAIN links = AllPositions /\ \A x \in AllPositions : DOMAIN links[x] = Levels(x)
      BY DEF Inv, GraphOK
    <3>2. links'[nb][l] = v
      BY <1>5, <1>7, <3>1
    <3> QED
      BY <1>8, <2>1, <3>2
  <2>3. links[0][0] = <<>>
    <3>1. links'[0][0] = links[0][0]
      BY <1>7, <2>2
    <3> QED
      BY <2>1, <3>1
  <2>4. Alone
    BY <2>1, <2>3 DEF Alone
  <2>5. r.level = 0 /\ r.i = 1 /\ r.sel[0][1] = 0
    BY <1>0, <2>4, AloneLinking
  <2> QED
    BY <1>1, <1>4, <2>2, <2>5
<1> QED
  BY <1>1, <1>5, <1>6, <1>7, <1>8, <1>10, <1>11, <1>12, LinkWhole DEF r

\* An insert ends: its node has links, or it is position 0 and the first one.
LEMMA FinishWhole ==
    ASSUME Inv, Whole, NEW t \in Threads, thread' = [thread EXCEPT ![t] = Finished(thread[t])],
           UNCHANGED <<set, dead, count, stage, links, next, cutoff>>,
           \/ /\ thread[t].pc = "back" /\ top >= 0
              /\ thread[t].i > Len(thread[t].sel[thread[t].level])
           \/ thread[t].pc = "start" /\ top < 0 /\ entry' = thread[t].p
    PROVE  Whole'
<1> DEFINE r == thread[t]
           w == Finished(r)
<1>1. r \in Frames /\ Active(r) /\ Typed /\ r.p \in Nat /\ r.upto \in Nat /\ r.i \in Nat
  BY PositionTypes DEF Inv, Active, Frames
<1>2. /\ w.pc \in {"start", "take"} /\ Linked(w) = {} /\ AloneFrame(w) /\ Chosen(w)
      /\ r.p + 1 < r.upto => Active(w) /\ w.p = r.p + 1 /\ w.upto = r.upto
  BY <1>1, FinishedIs DEF Linked, AloneFrame, Chosen
<1> HIDE DEF w
<1>3. ASSUME NEW x \in Positions, x # r.p
      PROVE  (Owns(r, x) => Owns(w, x)) /\ (Hides(r, x, 0) => Hides(w, x, 0))
  <2>1. x \in Nat
    BY <1>1, Bounds
  <2>2. Owns(r, x) => r.p + 1 < r.upto /\ r.p + 1 <= x /\ x < r.upto
    BY <1>1, <1>3, <2>1 DEF Owns
  <2>3. Owns(r, x) => Owns(w, x)
    BY <1>2, <2>2 DEF Owns
  <2> QED
    BY <1>2, <2>3 DEF Hides, Owns
<1>4. /\ \A x \in Positions \ {r.p} : Pending(x) => Pending(x)'
      /\ \A x \in Positions \ {r.p} : Hidden(x, 0) => Hidden(x, 0)'
      /\ thread'[t] = w /\ \A u \in Threads : u # t => thread'[u] = thread[u]
  BY <1>1, <1>3, StillHidden DEF w
<1>5. Positions' = Positions /\ AllPositions' = AllPositions /\ \A p : Levels(p)' = Levels(p)
  BY DEF Positions, AllPositions, Levels
<1>6. CASE /\ r.pc = "back" /\ top >= 0 /\ r.i > Len(r.sel[r.level])
  <2>1. ~Alone
    <3> SUFFICES ASSUME Alone PROVE FALSE
      OBVIOUS
    <3>1. r.level = 0 /\ r.i = 1 /\ Len(r.sel[0]) >= 1 /\ r.sel[0] \in Seq({0})
      BY <1>6, AloneLinking
    <3>2. Len(r.sel[0]) \in Nat
      BY <3>1
    <3> QED
      BY <1>6, <3>1, <3>2
  <2>2. ~Alone'
    BY <1>6, <2>1 DEF Alone
  <2>3. ~Hides(r, r.p, 0)
    <3>1. r.level \in Nat
      BY <1>1 DEF Frames
    <3> QED
      BY <1>6, <3>1 DEF Hides, Linked
  <2>4. ASSUME NEW p, p = r.p, Hidden(p, 0) PROVE Hidden(p, 0)'
    BY <1>1, <2>3, <2>4, StillHidden DEF w
  <2>5. NonEmpty'
    <3> SUFFICES ASSUME cutoff = "no", dead = {}
                 PROVE  /\ \A p \in Positions \ {0} : ~Hidden(p, 0)' => links[p][0] # <<>>
                        /\ \A u \in Threads : Chosen(thread'[u])
      BY <1>5 DEF NonEmpty
    <3>1. /\ \A p \in Positions \ {0} : ~Hidden(p, 0) => links[p][0] # <<>>
          /\ \A u \in Threads : Chosen(thread[u])
      BY DEF Whole, NonEmpty
    <3>2. ASSUME NEW p \in Positions \ {0}, ~Hidden(p, 0)' PROVE links[p][0] # <<>>
      <4>1. ~Hidden(p, 0)
        BY <1>4, <2>4, <3>2
      <4> QED
        BY <3>1, <4>1
    <3>3. \A u \in Threads : Chosen(thread'[u])
      BY <1>2, <1>4, <3>1
    <3> QED
      BY <3>2, <3>3
  <2> QED
    BY <2>2, <2>5 DEF Whole, AloneOK
<1>7. CASE r.pc = "start" /\ top < 0 /\ entry' = r.p
  <2>1. /\ t = Caller /\ r.p = 0 /\ Active(r)
        /\ \A u \in Threads : u # t => ~Active(thread[u])
    BY <1>1, <1>7 DEF Inv, EntryOK
  <2>2. AloneOK'
    <3> SUFFICES ASSUME cutoff = "no"
                 PROVE  /\ \A p \in AllPositions : \A l \in Levels(p) : MembersOf(links[p][l]) \subseteq {0}
                        /\ \A x \in Positions \ {0} : Pending(x)'
                        /\ \A u \in Threads : AloneFrame(thread'[u])
      BY <1>5, <1>7, <2>1 DEF AloneOK, Alone
    <3>1. ASSUME NEW x \in Positions PROVE Pending(x) /\ \A l : Hidden(x, l)
      <4>1. Pending(x)
        <5>1. set.level[x] <= top \/ Pending(x)
          BY DEF Inv, Tops
        <5>2. set.level[x] \in Nat /\ top \in Int
          BY <1>1, PositionTypes DEF Typed
        <5> QED
          BY <1>7, <5>1, <5>2
      <4>2. \A l : Hidden(x, l)
        <5>1. \A u \in Threads : \A l : Owns(thread[u], x) => Hides(thread[u], x, l)
          BY <1>7, <2>1 DEF Owns, Hides, Linked
        <5> QED
          BY <4>1, <5>1 DEF Pending, Hidden
      <4> QED
        BY <4>1, <4>2
    <3>2. ASSUME NEW p \in AllPositions, NEW l \in Levels(p) PROVE MembersOf(links[p][l]) \subseteq {0}
      <4>1. Visible(l) = {}
        BY <3>1 DEF Visible
      <4>2. IsList(links[p][l], Visible(l) \ {p}, Capacity(l))
        BY <3>2 DEF Inv, GraphOK
      <4>3. MembersOf(links[p][l]) \subseteq Visible(l) \ {p}
        BY <4>2, CapacityInt, ListMembers
      <4> QED
        BY <4>1, <4>3
    <3>3. \A u \in Threads : AloneFrame(thread'[u])
      BY <1>2, <1>4, <2>1 DEF AloneFrame, Active
    <3> QED
      BY <1>4, <2>1, <3>1, <3>2, <3>3
  <2>3. NonEmpty'
    <3> SUFFICES ASSUME cutoff = "no", dead = {}
                 PROVE  /\ \A p \in Positions \ {0} : ~Hidden(p, 0)' => links[p][0] # <<>>
                        /\ \A u \in Threads : Chosen(thread'[u])
      BY <1>5 DEF NonEmpty
    <3>1. /\ \A p \in Positions \ {0} : ~Hidden(p, 0) => links[p][0] # <<>>
          /\ \A u \in Threads : Chosen(thread[u])
      BY DEF Whole, NonEmpty
    <3> QED
      BY <1>2, <1>4, <2>1, <3>1
  <2> QED
    BY <2>2, <2>3 DEF Whole
<1> QED
  BY <1>6, <1>7

\* The end of a level, or of an insert, keeps Whole.
LEMMA LevelLinkedWhole == ASSUME Inv, Whole, NEW t \in Threads, LevelLinked(t) PROVE Whole'
<1> DEFINE r == thread[t]
           w == [r EXCEPT !.pc = "own", !.level = r.level + 1, !.i = 0]
<1>1. /\ r.pc = "back" /\ r.i > Len(r.sel[r.level]) /\ r \in Frames /\ Active(r) /\ r.level \in Nat /\ r.i \in Nat
      /\ UNCHANGED <<set, dead, count, stage, links, next, cutoff>>
  BY PositionTypes DEF LevelLinked, graphVars, Inv, Active, Frames
<1>2. CASE r.level + 1 \in DOMAIN r.sel
  <2>1. thread' = [thread EXCEPT ![t] = w] /\ UNCHANGED <<entry, top>>
    BY <1>2 DEF LevelLinked
  <2>2. w.pc = "own" /\ w.p = r.p /\ w.upto = r.upto /\ w.sel = r.sel /\ w.level = r.level + 1
    BY <1>1 DEF Frames
  <2> HIDE DEF w
  <2>3. Linked(w) = Linked(r)
    <3>1. 0 .. (r.level + 1) - 1 = 0 .. r.level
      BY <1>1
    <3> QED
      BY <1>1, <2>2, <3>1 DEF Linked
  <2>4. \A x : (Owns(r, x) => Owns(w, x)) /\ (Hides(r, x, 0) => Hides(w, x, 0))
    BY <1>1, <2>2, <2>3 DEF Owns, Hides, Active
  <2>5. cutoff = "no" /\ dead = {} => Chosen(w)
    BY <1>1, <2>2 DEF Whole, NonEmpty, Chosen
  <2>6. ~Alone
    <3> SUFFICES ASSUME Alone PROVE FALSE
      OBVIOUS
    <3>1. r.level = 0 /\ r.i = 1 /\ Len(r.sel[0]) >= 1 /\ r.sel[0] \in Seq({0})
      BY <1>1, AloneLinking
    <3>2. Len(r.sel[0]) \in Nat
      BY <3>1
    <3> QED
      BY <1>1, <3>1, <3>2
  <2> QED
    BY <1>1, <2>1, <2>4, <2>5, <2>6, InnerWhole DEF r
<1>3. CASE ~(r.level + 1 \in DOMAIN r.sel)
  <2>1. thread' = [thread EXCEPT ![t] = Finished(r)]
    BY <1>3 DEF LevelLinked
  <2>2. top >= 0
    <3>1. top \in Int
      BY DEF Inv, Typed
    <3> QED
      BY <1>1, <3>1 DEF Inv, EntryOK
  <2> QED
    BY <1>1, <2>1, <2>2, FinishWhole
<1> QED
  BY <1>2, <1>3

\* The start of an insert keeps Whole.
LEMMA StartWhole == ASSUME Inv, Whole, NEW t \in Threads, Start(t) PROVE Whole'
<1> DEFINE r == thread[t]
           K == LowTop(t, top)
           r2 == [r EXCEPT !.sel = [l \in 0 .. K |-> <<>>]]
           w == At(r2, top, entry)
<1>1. /\ r \in Frames /\ r.pc = "start" /\ Active(r) /\ Linked(r) = {} /\ Typed /\ set.level[r.p] \in Nat
      /\ UNCHANGED <<set, dead, count, stage, links, next, cutoff>>
  <2>1. r \in Frames /\ r.pc = "start" /\ Active(r) /\ FrameOK(r) /\ Typed /\ Linked(r) = {}
    BY PositionTypes DEF Inv, Start, ThreadsOK, Active, Linked
  <2>2. r.p \in Positions
    BY <2>1 DEF FrameOK
  <2> QED
    BY <2>1, <2>2, PositionTypes DEF Start, graphVars
<1>2. CASE top < 0
  <2>1. thread' = [thread EXCEPT ![t] = Finished(r)] /\ entry' = r.p
    BY <1>2 DEF Start
  <2> QED
    BY <1>1, <1>2, <2>1, FinishWhole
<1>3. CASE ~(top < 0)
  <2>1. thread' = [thread EXCEPT ![t] = w] /\ UNCHANGED <<entry, top>>
    BY <1>3 DEF Start
  <2>2. top \in Nat /\ entry \in Positions /\ entry # r.p
    <3>1. top >= 0
      BY <1>1, <1>3, Bounds
    <3> QED
      BY <1>1, <3>1, EntryVisible
  <2>3. K \in Nat
    BY <1>1, <2>2 DEF LowTop, LevelOf
  <2> HIDE DEF r, K
  <2> DEFINE sel == [l \in 0 .. K |-> <<>>]
  <2>4. sel \in Picks /\ DOMAIN sel = 0 .. K /\ \A l \in 0 .. K : MembersOf(sel[l]) = {}
    <3>1. sel \in [0 .. K -> Seq(Nat)]
      OBVIOUS
    <3> QED
      BY <2>3, <3>1 DEF Picks, MembersOf
  <2>5. r2 = [r EXCEPT !.sel = sel]
    OBVIOUS
  <2> HIDE DEF sel, r2
  <2>6. r2 \in Frames /\ r2.p = r.p /\ r2.upto = r.upto /\ r2.sel = sel
    BY <1>1, <2>4, <2>5 DEF Frames
  <2>7. /\ w.p = r.p /\ w.upto = r.upto /\ w.sel = sel /\ w.cur = entry
        /\ \/ w.pc = "greedy"
           \/ w.pc = "search" /\ w.beam.cand = {entry} /\ (entry \notin dead => w.beam.top = {entry})
    BY <1>1, <2>2, <2>6, AtIs
  <2> HIDE DEF w
  <2>8. \A x : (Owns(r, x) => Owns(w, x)) /\ (Hides(r, x, 0) => Hides(w, x, 0))
    BY <1>1, <2>7 DEF Owns, Hides, Active, Linked
  <2>9. Alone => AloneFrame(w)
    BY <2>4, <2>7, AloneIs DEF AloneFrame, Alone
  <2>10. dead = {} => Chosen(w)
    BY <2>7 DEF Chosen
  <2> QED
    BY <1>1, <2>1, <2>8, <2>9, <2>10, InnerWhole DEF r
<1> QED
  BY <1>2, <1>3

\* Taking a range keeps Whole.
LEMMA TakeWhole == ASSUME Inv, Whole, NEW t \in Threads, Take(t) PROVE Whole'
<1> DEFINE end == IF Front + RangeSize < count THEN Front + RangeSize ELSE count
           w == IF next >= Ranges THEN Ended ELSE Inserting(Front, end)
<1>1. /\ Typed /\ thread[t].pc = "take" /\ ~Active(thread[t])
      /\ next \in Nat /\ RangeSize \in Nat \ {0} /\ Front \in Nat /\ count \in Nat
  BY PositionTypes, FrontType, GraphConstants DEF Inv, Take, Active, Typed
<1>2. Building
  BY <1>1 DEF Inv, Stages
<1>3. /\ next' = next + 1 /\ thread' = [thread EXCEPT ![t] = w]
      /\ UNCHANGED <<set, dead, count, stage, links, entry, top, cutoff>>
  BY DEF Take, Front, graphVars
<1>4. Building' /\ Front' = Front + RangeSize
  <2>1. First' = First
    BY <1>3 DEF First
  <2>2. (next + 1) * RangeSize = next * RangeSize + RangeSize /\ First \in Nat /\ next * RangeSize \in Nat
    BY <1>1, FrontType
  <2> QED
    BY <1>1, <1>2, <1>3, <2>1, <2>2 DEF Front, Building
<1>5. /\ w \in Frames /\ Linked(w) = {} /\ AloneFrame(w) /\ Chosen(w)
      /\ ~(Front >= count) => Active(w) /\ w.p = Front /\ w.upto = end
  <2>1. next >= Ranges <=> Front >= count
    BY <1>2, RangesAre
  <2>2. end \in Nat
    BY <1>1
  <2> HIDE DEF end
  <2>3. /\ w \in Frames
        /\ IF Front >= count THEN w.pc = "ended"
           ELSE w.pc = "start" /\ w.p = Front /\ w.upto = end
    BY <1>1, <2>1, <2>2, EndedIs
  <2> HIDE DEF w
  <2> QED
    BY <2>3 DEF Linked, AloneFrame, Chosen, Active
<1>6. /\ thread'[t] = w /\ \A u \in Threads : u # t => thread'[u] = thread[u]
  BY <1>1, <1>3, <1>5 DEF Typed
<1>7. \A x \in Nat : x >= Front /\ x < count => ~(Front >= count) /\ (x < end \/ x >= Front + RangeSize)
  BY <1>1
<1> HIDE DEF w, end
<1>8. ASSUME NEW x \in Positions
      PROVE  (Pending(x) => Pending(x)') /\ (Hidden(x, 0) => Hidden(x, 0)')
  <2>1. x \in Nat /\ x < count
    BY <1>1, Bounds
  <2>2. x >= Front => x >= Front' \/ (Owns(w, x) /\ Hides(w, x, 0))
    BY <1>4, <1>5, <1>7, <2>1 DEF Owns, Hides
  <2>3. \A u \in Threads : /\ Owns(thread[u], x) => Owns(thread'[u], x)
                           /\ Hides(thread[u], x, 0) => Hides(thread'[u], x, 0)
    BY <1>1, <1>6 DEF Owns, Hides
  <2>4. Pending(x) => Pending(x)'
    BY <1>4, <1>6, <2>2, <2>3 DEF Pending
  <2>5. Hidden(x, 0) => Hidden(x, 0)'
    BY <1>1, <1>3, <1>4, <1>6, <2>1, <2>2, <2>3 DEF Hidden
  <2> QED
    BY <2>4, <2>5
<1>9. Positions' = Positions /\ AllPositions' = AllPositions /\ \A p : Levels(p)' = Levels(p)
  BY <1>3 DEF Positions, AllPositions, Levels
<1>10. Alone' <=> Alone
  BY <1>3 DEF Alone
<1>11. AloneOK'
  <2> SUFFICES ASSUME Alone
               PROVE  /\ entry' = 0
                      /\ \A p \in AllPositions : \A l \in Levels(p) : MembersOf(links'[p][l]) \subseteq {0}
                      /\ \A x \in Positions \ {0} : Pending(x)'
                      /\ \A u \in Threads : AloneFrame(thread'[u])
    BY <1>9, <1>10 DEF AloneOK
  <2>1. /\ entry = 0
        /\ \A p \in AllPositions : \A l \in Levels(p) : MembersOf(links[p][l]) \subseteq {0}
        /\ \A x \in Positions \ {0} : Pending(x)
        /\ \A u \in Threads : AloneFrame(thread[u])
    BY DEF Whole, AloneOK
  <2>2. \A u \in Threads : AloneFrame(thread'[u])
    BY <1>5, <1>6, <2>1
  <2> QED
    BY <1>3, <1>8, <2>1, <2>2
<1>12. NonEmpty'
  <2> SUFFICES ASSUME cutoff = "no", dead = {}
               PROVE  /\ \A p \in Positions \ {0} : ~Hidden(p, 0)' => links'[p][0] # <<>>
                      /\ \A u \in Threads : Chosen(thread'[u])
    BY <1>3, <1>9 DEF NonEmpty
  <2>1. /\ \A p \in Positions \ {0} : ~Hidden(p, 0) => links[p][0] # <<>>
        /\ \A u \in Threads : Chosen(thread[u])
    BY DEF Whole, NonEmpty
  <2> QED
    BY <1>3, <1>5, <1>6, <1>8, <2>1
<1> QED
  BY <1>11, <1>12 DEF Whole

\* After the join no node is on its way: position 0 is alone only when there is no other one.
LEMMA AllIn ==
    ASSUME Inv, Whole, \A t \in Threads : thread[t].pc = "ended", cutoff = "no"
    PROVE  /\ Alone => Positions = {0}
           /\ dead = {} => \A p \in Positions \ {0} : links[p][0] # <<>>
<1>1. ASSUME NEW x \in Positions PROVE ~Pending(x) /\ ~Hidden(x, 0)
  <2>1. \A t \in Threads : ~Owns(thread[t], x) /\ ~Hides(thread[t], x, 0)
    BY DEF Owns, Hides, Active
  <2>2. ~(x >= count)
    BY Bounds DEF Inv
  <2>3. ~(Building /\ x >= Front)
    <3>1. Building => Front >= count
      BY GraphConstants DEF Inv, Tops
    <3> QED
      BY <3>1, NoneAhead DEF Inv
  <2> QED
    BY <2>1, <2>2, <2>3 DEF Pending, Hidden
<1>2. 0 \in Positions
  <2>1. count \in Nat \ {0}
    BY PositionTypes DEF Inv
  <2> QED
    BY <2>1 DEF Positions
<1> QED
  BY <1>1, <1>2 DEF Whole, AloneOK, NonEmpty

\* After the join, a step that writes no list or puts one there that is not empty.
LEMMA QuietWhole ==
    ASSUME Inv, Inv', Whole, \A t \in Threads : thread[t].pc = "ended",
           UNCHANGED <<set, dead, count, entry, top, cutoff, thread>>,
           cutoff = "no" => \A p \in Positions : links'[p][0] = links[p][0] \/ links'[p][0] # <<>>
    PROVE  Whole'
<1>1. Positions' = Positions /\ AllPositions' = AllPositions /\ \A p : Levels(p)' = Levels(p)
  BY DEF Positions, AllPositions, Levels
<1>2. 0 \in Positions
  <2>1. count \in Nat \ {0}
    BY PositionTypes DEF Inv
  <2> QED
    BY <2>1 DEF Positions
<1>3. AloneOK'
  <2> SUFFICES ASSUME Alone'
               PROVE  /\ entry = 0
                      /\ \A p \in AllPositions : \A l \in Levels(p) : MembersOf(links'[p][l]) \subseteq {0}
                      /\ \A x \in Positions \ {0} : Pending(x)'
                      /\ \A t \in Threads : AloneFrame(thread[t])
    BY <1>1 DEF AloneOK
  <2>1. Alone
    BY <1>2 DEF Alone
  <2>2. Positions = {0} /\ entry = 0
    BY <2>1, AllIn DEF Alone, Whole, AloneOK
  <2>3. ASSUME NEW p \in AllPositions, NEW l \in Levels(p) PROVE MembersOf(links'[p][l]) \subseteq {0}
    <3>1. IsList(links'[p][l], Visible(l)' \ {p}, Capacity(l))
      <4>1. p \in AllPositions' /\ l \in Levels(p)'
        BY <1>1
      <4>2. IsList(links'[p][l], Visible(l)' \ {p}, Capacity(l)')
        BY <4>1 DEF Inv, GraphOK
      <4> QED
        BY <4>2 DEF Capacity
    <3>2. MembersOf(links'[p][l]) \subseteq Visible(l)' \ {p}
      BY <3>1, CapacityInt, ListMembers
    <3>3. Visible(l)' \subseteq Positions'
      BY DEF Visible
    <3> QED
      BY <1>1, <2>2, <3>2, <3>3
  <2> QED
    BY <2>2, <2>3 DEF AloneFrame
<1>4. NonEmpty'
  <2> SUFFICES ASSUME cutoff = "no", dead = {}
               PROVE  /\ \A p \in Positions \ {0} : links'[p][0] # <<>>
                      /\ \A t \in Threads : Chosen(thread[t])
    BY <1>1 DEF NonEmpty
  <2>1. \A p \in Positions \ {0} : links[p][0] # <<>>
    BY AllIn
  <2> QED
    BY <2>1 DEF Chosen
<1> QED
  BY <1>3, <1>4 DEF Whole

\* A link of the repair keeps Whole: no list becomes empty.
LEMMA RepairLinkWhole == ASSUME Inv, Inv', Whole, RepairLink PROVE Whole'
<1> DEFINE p == CHOOSE x \in Missed : \A y \in Missed : x <= y
<1>1. /\ \A t \in Threads : thread[t].pc = "ended"
      /\ stage \in {"repair", "repair again"}
      /\ UNCHANGED <<set, dead, count, entry, top, cutoff, thread>>
  BY DEF RepairLink, Building, Inv, Stages, graphVars
<1>2. Positions \subseteq AllPositions /\ AllPositions \subseteq Nat /\ Typed
  BY PositionTypes DEF Inv
<1>3. p \in Missed
  <2>1. Missed \in SUBSET Nat /\ Missed # {}
    BY <1>2 DEF Missed, RepairLink
  <2> QED
    BY <2>1, LeastNat
<1>4. links' = LinksTo(p)
  BY DEF RepairLink
<1> HIDE DEF p
<1>5. p \in Positions /\ p \notin repair.seen
  BY <1>3 DEF Missed
<1>6. CASE LinksTo(p) = links
  BY <1>1, <1>4, <1>6, QuietWhole
<1>7. \/ LinksTo(p) = links
      \/ \E c \in repair.seen : \E v :
            /\ LinksTo(p) = [links EXCEPT ![c][0] = v]
            /\ IsList(v, Visible(0) \ {c}, Capacity(0)) /\ v # <<>>
            /\ MembersOf(v) \subseteq MembersOf(links[c][0]) \cup {p}
  BY <1>1, <1>5, LinksToIs
<1>8. CASE LinksTo(p) # links
  <2>1. PICK c \in repair.seen : \E v : /\ LinksTo(p) = [links EXCEPT ![c][0] = v]
                                       /\ IsList(v, Visible(0) \ {c}, Capacity(0)) /\ v # <<>>
                                       /\ MembersOf(v) \subseteq MembersOf(links[c][0]) \cup {p}
    BY <1>7, <1>8
  <2>2. PICK v : LinksTo(p) = [links EXCEPT ![c][0] = v] /\ v # <<>>
    BY <2>1
  <2>3. c \in AllPositions /\ 0 \in Levels(c)
    BY <1>1, GroundLinks DEF Inv, RepairOK
  <2>4. ASSUME NEW x \in Positions PROVE links'[x][0] = links[x][0] \/ links'[x][0] # <<>>
    <3>1. links' = [links EXCEPT ![c][0] = v]
      BY <1>4, <2>2
    <3>2. x \in AllPositions /\ 0 \in Levels(x)
      BY GroundLinks
    <3>3. links'[x][0] = IF x = c /\ 0 = 0 THEN v ELSE links[x][0]
      BY <1>2, <2>3, <3>1, <3>2, ListWritten DEF Inv
    <3> QED
      BY <2>2, <3>3
  <2> QED
    BY <1>1, <2>4, QuietWhole
<1> QED
  BY <1>6, <1>8

\* An extension keeps Whole.
LEMMA ExtendWhole == ASSUME Inv, Inv', Whole, Extend PROVE Whole'
<1>1. /\ stage = "built" /\ ~Building /\ cutoff = "no" /\ dead = {} /\ count = set.base /\ next' = 0
      /\ stage' = "extend" /\ thread' = [t \in Threads |-> Taking] /\ UNCHANGED <<set, links, top, cutoff>>
      /\ \A t \in Threads : thread[t].pc = "ended"
  BY DEF Extend, Inv, Stages, Building
<1>2. dead' = {} => entry' = entry
  BY DEF Extend
<1>3. Taking.pc = "take" /\ AloneFrame(Taking) /\ Chosen(Taking) /\ ~Active(Taking)
  BY EndedIs DEF AloneFrame, Chosen
<1>4. AllPositions' = AllPositions /\ \A p : Levels(p)' = Levels(p)
  BY <1>1 DEF AllPositions, Levels
<1>5. Front' = count /\ count \in Nat \ {0}
  <2>1. First' = set.base /\ next' * RangeSize = 0 /\ count \in Nat \ {0}
    BY <1>1, GraphConstants, PositionTypes DEF First, Inv
  <2> QED
    BY <1>1, <2>1 DEF Front
<1>6. Building'
  BY <1>1 DEF Building
<1>7. ASSUME NEW x \in Positions', x \notin Positions PROVE Pending(x)' /\ Hidden(x, 0)'
  <2>1. x \in Nat /\ ~(x \in 0 .. count - 1)
    BY <1>7, PositionTypesNext DEF Inv, Positions
  <2>2. x >= Front'
    BY <1>5, <2>1
  <2> QED
    BY <1>6, <2>2 DEF Pending, Hidden
<1>8. AloneOK'
  <2> SUFFICES ASSUME Alone'
               PROVE  /\ entry' = 0
                      /\ \A p \in AllPositions : \A l \in Levels(p) : MembersOf(links'[p][l]) \subseteq {0}
                      /\ \A x \in Positions' \ {0} : Pending(x)'
                      /\ \A t \in Threads : AloneFrame(thread'[t])
    BY <1>4 DEF AloneOK
  <2>1. Alone /\ dead' = {}
    BY <1>1 DEF Alone
  <2>2. /\ Positions = {0} /\ entry = 0
        /\ \A p \in AllPositions : \A l \in Levels(p) : MembersOf(links[p][l]) \subseteq {0}
    BY <1>1, <2>1, AllIn DEF Whole, AloneOK
  <2> QED
    BY <1>1, <1>2, <1>3, <1>7, <2>1, <2>2
<1>9. NonEmpty'
  <2> SUFFICES ASSUME dead' = {}
               PROVE  /\ \A p \in Positions' \ {0} : ~Hidden(p, 0)' => links[p][0] # <<>>
                      /\ \A t \in Threads : Chosen(thread'[t])
    BY <1>1 DEF NonEmpty
  <2>1. \A p \in Positions \ {0} : links[p][0] # <<>>
    BY <1>1, AllIn
  <2> QED
    BY <1>1, <1>3, <1>7, <2>1
<1> QED
  BY <1>8, <1>9 DEF Whole

\* At first position 0 is alone.
LEMMA InitWhole == ASSUME Init PROVE Whole
<1>1. ~Alone
  BY DEF Init, Alone
<1>2. Inv
  BY InitInv
<1>3. ASSUME NEW p \in Positions \ {0} PROVE Hidden(p, 0)
  <2>1. p \in Nat /\ p # 0
    BY <1>2, Bounds DEF Inv
  <2>2. Front = 1
    BY GraphConstants DEF Init, Front, First
  <2>3. p >= Front
    BY <2>1, <2>2
  <2> QED
    BY <2>3 DEF Hidden, Building, Init
<1>4. ASSUME NEW t \in Threads PROVE Chosen(thread[t])
  <2>1. thread[t] \in {Inserting(0, 1), Taking, Ended}
    BY DEF Init
  <2> QED
    BY <2>1, EndedIs DEF Chosen
<1> QED
  BY <1>1, <1>3, <1>4 DEF Whole, AloneOK, NonEmpty

\* Every step keeps Whole.
LEMMA NextWhole == Inv /\ Whole /\ [Next]_vars => Whole'
<1> SUFFICES ASSUME Inv, Whole, [Next]_vars PROVE Whole'
  OBVIOUS
<1>0. Inv'
  BY NextInv
<1>1. ASSUME NEW t \in Threads, Take(t) PROVE Whole'
  BY <1>1, TakeWhole
<1>2. ASSUME NEW t \in Threads, Start(t) PROVE Whole'
  BY <1>2, StartWhole
<1>3. ASSUME NEW t \in Threads, Greedy(t) PROVE Whole'
  BY <1>3, GreedyWhole
<1>4. ASSUME NEW t \in Threads, Search(t) PROVE Whole'
  BY <1>4, SearchWhole
<1>5. ASSUME NEW t \in Threads, ConnectOwn(t) PROVE Whole'
  BY <1>5, ConnectOwnWhole
<1>6. ASSUME NEW t \in Threads, ConnectBack(t) PROVE Whole'
  BY <1>6, ConnectBackWhole
<1>7. ASSUME NEW t \in Threads, LevelLinked(t) PROVE Whole'
  BY <1>7, LevelLinkedWhole
<1>8. ASSUME Cancel \/ \E t \in Threads : Throws(t) PROVE Whole'
  <2>1. cutoff' # "no"
    BY <1>8 DEF Cancel, Throws
  <2> QED
    BY <2>1 DEF Whole, AloneOK, NonEmpty, Alone
<1>9. CASE Join
  BY <1>0, <1>9, QuietWhole DEF Join
<1>10. CASE RepairLink
  BY <1>0, <1>10, RepairLinkWhole
<1>11. CASE RepairPassEnds
  <2>1. \A t \in Threads : thread[t].pc = "ended"
    BY <1>11 DEF RepairPassEnds, Inv, Stages, Building
  <2> QED
    BY <1>0, <1>11, <2>1, QuietWhole DEF RepairPassEnds
<1>12. CASE Extend
  BY <1>0, <1>12, ExtendWhole
<1>13. CASE UNCHANGED vars
  <2>1. /\ Positions' = Positions /\ AllPositions' = AllPositions /\ (Building' <=> Building) /\ Front' = Front
        /\ (Alone' <=> Alone) /\ \A p : Levels(p)' = Levels(p)
    BY <1>13 DEF vars, Positions, AllPositions, Building, Front, First, Alone, Levels
  <2>2. \A x : Pending(x)' = Pending(x) /\ Hidden(x, 0)' = Hidden(x, 0)
    BY <1>13, <2>1 DEF vars, Pending, Hidden
  <2> QED
    BY <1>13, <2>1, <2>2 DEF vars, Whole, AloneOK, NonEmpty
<1> QED
  BY <1>1, <1>2, <1>3, <1>4, <1>5, <1>6, <1>7, <1>8, <1>9, <1>10, <1>11, <1>12, <1>13 DEF Next, Step

\* EveryPositionIn follows from both.
LEMMA WholeFollows == Inv /\ Whole => EveryPositionIn
<1> SUFFICES ASSUME Inv, Whole PROVE EveryPositionIn
  OBVIOUS
<1>1. ASSUME stage \in {"repair", "repair again"}, dead = {}, count > 1, NEW p \in Positions
      PROVE  links[p][0] # <<>>
  <2>1. /\ \A t \in Threads : thread[t].pc = "ended"
        /\ cutoff = "no" /\ top >= 0
    BY <1>1 DEF Inv, Stages, Building
  <2>2. 1 \in Positions
    <3>1. count \in Nat
      BY PositionTypes DEF Inv
    <3>2. \A n \in Nat : n > 1 => 1 \in 0 .. n - 1
      OBVIOUS
    <3> QED
      BY <1>1, <3>1, <3>2 DEF Positions
  <2>3. ~Alone
    BY <2>1, <2>2, AllIn
  <2>4. links[0][0] # <<>>
    BY <1>1, <2>1, <2>3 DEF Alone
  <2> QED
    BY <1>1, <2>1, <2>4, AllIn
<1>2. ASSUME NEW t \in Threads, NEW u \in Threads \ {t}, {thread[t].pc, thread[u].pc} \cap {"take", "ended"} = {}
      PROVE  thread[t].p # thread[u].p
  <2>1. Typed /\ thread[t] \in Frames /\ thread[u] \in Frames
    BY PositionTypes DEF Inv
  <2>2. Active(thread[t]) /\ Active(thread[u])
    BY <1>2, <2>1 DEF Frames, Active
  <2>3. /\ thread[t].p < thread[t].upto /\ thread[u].p < thread[u].upto
        /\ thread[t].upto <= thread[u].p \/ thread[u].upto <= thread[t].p
    BY <1>2, <2>2 DEF Inv, ThreadsOK, FrameOK, Disjoint
  <2>4. /\ thread[t].p \in Nat /\ thread[u].p \in Nat /\ thread[t].upto \in Nat /\ thread[u].upto \in Nat
    BY <2>1 DEF Frames
  <2> QED
    BY <2>3, <2>4
<1> QED
  BY <1>1, <1>2 DEF EveryPositionIn

\* A graph that is kept has every position in it and no two threads insert the same one, however many threads
\* build it, wherever their ranges meet and wherever it is cut off.
THEOREM EveryPositionIsIn == Spec => []EveryPositionIn
<1>1. Init => Inv /\ Whole
  BY InitInv, InitWhole
<1>2. Inv /\ Whole /\ [Next]_vars => Inv' /\ Whole'
  BY NextInv, NextWhole
<1>3. Inv /\ Whole => EveryPositionIn
  BY WholeFollows
<1> HIDE DEF Inv, Whole, EveryPositionIn
<1> QED
  BY <1>1, <1>2, <1>3, PTL DEF Spec

------------------------------------------------------------------------------
(* Searches end, and find what the links lead to.                          *)

\* What a loop returns: its value where it ends, else what it returns after one more step.
Loops(f, D, ends, value, after) == f = [b \in D |-> IF b \in ends THEN value[b] ELSE f[after[b]]]
\* Every step of a loop lowers the work that is left, at most n.
Works(D, ends, after, work, n) ==
    /\ n \in Nat /\ \A b \in D : work[b] \in 0 .. n
    /\ \A b \in D \ ends : after[b] \in D /\ work[after[b]] < work[b]

\* A loop that works off something returns.
LEMMA LoopFound ==
    ASSUME NEW D, NEW ends, NEW value, NEW after, NEW work, NEW n, Works(D, ends, after, work, n)
    PROVE  \E f : Loops(f, D, ends, value, after)
<1> DEFINE S(m) == {b \in D : work[b] < m}
           body(f, b) == IF b \in ends THEN value[b] ELSE f[after[b]]
           Is(m, f) == f = [b \in S(m) |-> body(f, b)]
<1>1. /\ n \in Nat /\ \A b \in D : work[b] \in 0 .. n
      /\ \A b \in D \ ends : after[b] \in D /\ work[after[b]] < work[b]
  BY DEF Works
<1>2. \E f : Is(0, f)
  <2> DEFINE g == [b \in S(0) |-> 0]
  <2>1. S(0) = {}
    BY <1>1
  <2>2. Is(0, g)
    BY <2>1
  <2> HIDE DEF Is, g
  <2> QED
    BY <2>2
<1>3. ASSUME NEW m \in Nat, NEW f, Is(m, f) PROVE \E g : Is(m + 1, g)
  <2> DEFINE g == [b \in S(m + 1) |-> body(f, b)]
  <2>1. \A b \in S(m) : b \in S(m + 1)
    BY <1>1
  <2>2. ASSUME NEW b \in S(m) PROVE g[b] = f[b]
    <3>1. f[b] = body(f, b)
      <4> HIDE DEF S, body
      <4> QED
        BY <1>3
    <3>2. g[b] = body(f, b)
      <4> HIDE DEF S, body
      <4> QED
        BY <2>1
    <3> HIDE DEF g, body
    <3> QED
      BY <3>1, <3>2
  <2>3. ASSUME NEW b \in S(m + 1) PROVE g[b] = body(g, b)
    <3>1. g[b] = body(f, b)
      <4> HIDE DEF S, body
      <4> QED
        OBVIOUS
    <3>2. ASSUME b \notin ends PROVE after[b] \in S(m)
      <4>1. b \in D /\ work[b] \in Nat /\ work[b] < m + 1
        BY <1>1
      <4>2. after[b] \in D /\ work[after[b]] < work[b] /\ work[after[b]] \in Nat
        BY <1>1, <3>2, <4>1
      <4> QED
        BY <4>1, <4>2
    <3>3. b \notin ends => g[after[b]] = f[after[b]]
      <4> HIDE DEF S, g
      <4> QED
        BY <2>2, <3>2
    <3> HIDE DEF g
    <3> QED
      BY <3>1, <3>3
  <2>4. Is(m + 1, g)
    <3>1. g = [b \in S(m + 1) |-> g[b]]
      OBVIOUS
    <3>2. [b \in S(m + 1) |-> g[b]] = [b \in S(m + 1) |-> body(g, b)]
      <4> HIDE DEF g, S, body
      <4> QED
        BY <2>3
    <3> HIDE DEF g, S, body
    <3> QED
      BY <3>1, <3>2
  <2> HIDE DEF g, Is
  <2> QED
    BY <2>4
<1> DEFINE T == {m \in Nat : ~\E f : Is(m, f)}
<1>4. T = {}
  <2> SUFFICES ASSUME T # {} PROVE FALSE
    OBVIOUS
  <2>1. PICK k \in T : \A i \in T : k <= i
    <3>1. T \in SUBSET Nat
      OBVIOUS
    <3> HIDE DEF T
    <3> QED
      BY <3>1, LeastNat
  <2>2. k \in Nat /\ ~\E f : Is(k, f)
    <3> HIDE DEF Is
    <3> QED
      OBVIOUS
  <2> HIDE DEF Is
  <2>3. k # 0
    BY <1>2, <2>2
  <2>4. PICK i \in Nat : k = i + 1
    BY <2>2, <2>3
  <2>5. i \notin T
    <3> HIDE DEF T
    <3> QED
      BY <2>1, <2>4
  <2>6. \E f : Is(i, f)
    BY <2>5
  <2> QED
    BY <1>3, <2>2, <2>4, <2>6
<1>5. PICK f : Is(n + 1, f)
  <2>1. n + 1 \in Nat
    BY <1>1
  <2> HIDE DEF Is
  <2> QED
    BY <1>4, <2>1
<1>6. S(n + 1) = D
  BY <1>1
<1> HIDE DEF S
<1>7. Loops(f, D, ends, value, after)
  BY <1>5, <1>6 DEF Loops
<1> QED
  BY <1>7

\* It returns the value of a place where it ends, one that its steps lead to.
LEMMA LoopReturns ==
    ASSUME NEW D, NEW ends, NEW value, NEW after, NEW work, NEW n, Works(D, ends, after, work, n),
           NEW f, Loops(f, D, ends, value, after), NEW G \in SUBSET D, \A b \in G \ ends : after[b] \in G
    PROVE  \A b \in G : \E e \in G \cap ends : f[b] = value[e]
<1>1. /\ n \in Nat /\ \A b \in D : work[b] \in Nat
      /\ \A b \in D \ ends : work[after[b]] < work[b]
  BY DEF Works
<1>2. \A b \in D : f[b] = IF b \in ends THEN value[b] ELSE f[after[b]]
  BY DEF Loops
<1> DEFINE Returns(b) == \E e \in G \cap ends : f[b] = value[e]
           T == {m \in Nat : \E b \in G : work[b] = m /\ ~Returns(b)}
<1>3. T = {}
  <2> SUFFICES ASSUME T # {} PROVE FALSE
    OBVIOUS
  <2>1. PICK k \in T : \A i \in T : k <= i
    <3>1. T \in SUBSET Nat
      OBVIOUS
    <3> HIDE DEF T
    <3> QED
      BY <3>1, LeastNat
  <2>2. PICK b \in G : work[b] = k /\ ~Returns(b) /\ k \in Nat
    <3> HIDE DEF Returns
    <3> QED
      OBVIOUS
  <2>3. b \notin ends
    BY <1>2, <2>2
  <2>4. after[b] \in G /\ work[after[b]] < k /\ work[after[b]] \in Nat /\ f[b] = f[after[b]]
    BY <1>1, <1>2, <2>2, <2>3
  <2>5. ~Returns(after[b])
    BY <2>2, <2>4
  <2>6. work[after[b]] \in T
    <3> HIDE DEF Returns
    <3> QED
      BY <2>4, <2>5
  <2>7. ~(k <= work[after[b]])
    BY <2>2, <2>4
  <2> HIDE DEF T
  <2> QED
    BY <2>1, <2>6, <2>7
<1>4. ASSUME NEW b \in G PROVE Returns(b)
  <2>1. work[b] \in Nat /\ work[b] \notin T
    BY <1>1, <1>3
  <2> HIDE DEF Returns
  <2> QED
    BY <2>1
<1> QED
  BY <1>4

\* The beams of searches within P.
BeamsOf(P) == [cand : SUBSET P, top : SUBSET P, seen : SUBSET P]

\* What a search of a level has left: what it is to expand, and what it has not seen.
WorkLeft(b, P) == Cardinality(b.cand) + Cardinality(P \ b.seen)

\* A step of a search of a level expands one position, and sees all that it will expand because of it.
LEMMA ExpandWorks ==
    ASSUME set \in Sets, NEW q \in Points, NEW P \in SUBSET AllPositions, NEW b \in BeamsOf(P), b.cand # {},
           NEW ef \in Nat, NEW keep, NEW l, Shut(P, l)
    PROVE  Expand(b, q, ef, keep, l) \in BeamsOf(P) /\ WorkLeft(Expand(b, q, ef, keep, l), P) < WorkLeft(b, P)
<1> DEFINE c == Nearest(q, b.cand)
           list == links[c][l]
           fresh == {i \in DOMAIN list : list[i] \notin b.seen}
           before(i) == b.top \cup (keep \cap {list[j] : j \in {k \in fresh : k < i}})
           near == {i \in fresh : Cardinality({y \in before(i) : Nearer(q, y, list[i])}) < ef}
           found == {list[i] : i \in fresh}
           far == {list[i] : i \in near}
           kept == b.top \cup (keep \cap found)
           e == Expand(b, q, ef, keep, l)
<1>1. b.cand \in SUBSET P /\ b.top \in SUBSET P /\ b.seen \in SUBSET P
  BY DEF BeamsOf
<1>2. c \in b.cand /\ c \in P
  BY <1>1, NearestIn
<1>3. fresh \subseteq DOMAIN list /\ near \subseteq fresh
  OBVIOUS
<1>4. e = [cand |-> (b.cand \ {c}) \cup far, top |-> Best(q, kept, ef), seen |-> b.seen \cup found]
  BY DEF Expand
<1> HIDE DEF e
<1>5. far \subseteq found /\ found \subseteq P /\ found \cap b.seen = {}
  <2>1. found \subseteq MembersOf(list) /\ MembersOf(list) \subseteq P
    BY <1>2 DEF MembersOf, Shut
  <2>2. far \subseteq found /\ found \cap b.seen = {}
    <3> HIDE DEF near
    <3> QED
      BY <1>3
  <2> QED
    BY <2>1, <2>2
<1> HIDE DEF near, fresh, found, far, list, c
<1>6. kept \in SUBSET AllPositions /\ kept \subseteq P
  BY <1>1, <1>5
<1> HIDE DEF kept
<1>7. Best(q, kept, ef) \subseteq P
  BY <1>6, BestIs
<1>8. e.cand = (b.cand \ {c}) \cup far /\ e.seen = b.seen \cup found /\ e \in BeamsOf(P)
  BY <1>1, <1>4, <1>5, <1>7 DEF BeamsOf
<1>9. IsFiniteSet(P)
  BY SetTypes, FS_Subset
<1> DEFINE rest == b.cand \ {c}
           unseen == P \ b.seen
<1>10. /\ IsFiniteSet(b.cand) /\ IsFiniteSet(rest) /\ IsFiniteSet(far) /\ IsFiniteSet(found) /\ IsFiniteSet(unseen)
       /\ IsFiniteSet(rest \cap far)
  <2>1. /\ rest \in SUBSET P /\ far \in SUBSET P /\ found \in SUBSET P /\ unseen \in SUBSET P
        /\ rest \cap far \in SUBSET P
    BY <1>1, <1>5
  <2> HIDE DEF rest, unseen
  <2> QED
    BY <1>1, <1>9, <2>1, FS_Subset
<1>11. Cardinality(b.cand) = Cardinality(rest) + 1
  <2>1. Cardinality(rest) = Cardinality(b.cand) - 1
    BY <1>2, <1>10, FS_RemoveElement
  <2> QED
    BY <1>10, <2>1, FS_CardinalityType
<1>12. Cardinality(P \ e.seen) = Cardinality(unseen) - Cardinality(found)
  <2>1. P \ e.seen = unseen \ found /\ unseen \cap found = found
    BY <1>5, <1>8
  <2> HIDE DEF unseen
  <2> QED
    BY <1>10, <2>1, FS_Difference
<1>13. Cardinality(far) <= Cardinality(found)
  BY <1>5, <1>10, FS_Subset
<1>14. Cardinality(e.cand) = Cardinality(rest) + Cardinality(far) - Cardinality(rest \cap far)
  <2> HIDE DEF rest
  <2> QED
    BY <1>8, <1>10, FS_Union DEF rest
<1>15. /\ Cardinality(rest) \in Nat /\ Cardinality(far) \in Nat /\ Cardinality(found) \in Nat
       /\ Cardinality(unseen) \in Nat /\ Cardinality(rest \cap far) \in Nat
  <2> HIDE DEF rest, unseen
  <2> QED
    BY <1>10, FS_CardinalityType
<1>16. WorkLeft(e, P) < WorkLeft(b, P)
  <2> HIDE DEF rest, unseen
  <2>1. WorkLeft(b, P) = Cardinality(rest) + 1 + Cardinality(unseen)
    BY <1>11 DEF WorkLeft, unseen
  <2>2. WorkLeft(e, P) = Cardinality(rest) + Cardinality(far) - Cardinality(rest \cap far)
                           + (Cardinality(unseen) - Cardinality(found))
    BY <1>12, <1>14 DEF WorkLeft
  <2> QED
    BY <1>13, <1>15, <2>1, <2>2
<1> QED
  BY <1>8, <1>16 DEF e

\* A search of level 0 that keeps what it sees ends; it finds something, and nothing outside a set that holds
\* where it starts and that the links do not leave.
LEMMA SearchedIs ==
    ASSUME set \in Sets, NEW q \in Points, NEW l, NEW ef \in Nat \ {0}, Positions \in SUBSET AllPositions,
           Shut(Positions, l), NEW V \in SUBSET Positions, Shut(V, l), NEW ep \in V
    PROVE  Searched(q, ep, l, ef, Positions) \subseteq V /\ Searched(q, ep, l, ef, Positions) # {}
<1> DEFINE D == BeamsOf(Positions)
           E == {b \in D : BeamEnds(b, q, ef)}
           value == [b \in D |-> b.top]
           after == [b \in D |-> Expand(b, q, ef, Positions, l)]
           work == [b \in D |-> WorkLeft(b, Positions)]
           n == Cardinality(Positions) + Cardinality(Positions)
           G == {b \in D : b.cand \subseteq V /\ b.top \subseteq V /\ b.top # {}}
           start == Beam(ep, Positions, {})
<1>1. IsFiniteSet(Positions) /\ Cardinality(Positions) \in Nat
  BY SetTypes, FS_Subset, FS_CardinalityType
<1>2. ASSUME NEW b \in D PROVE work[b] \in 0 .. n
  <2>1. b.cand \in SUBSET Positions /\ Positions \ b.seen \in SUBSET Positions
    BY DEF BeamsOf
  <2>2. \A S \in SUBSET Positions : Cardinality(S) \in Nat /\ Cardinality(S) <= Cardinality(Positions)
    BY <1>1, FS_Subset, FS_CardinalityType
  <2>3. Cardinality(b.cand) \in 0 .. Cardinality(Positions)
    BY <1>1, <2>1, <2>2
  <2>4. Cardinality(Positions \ b.seen) \in 0 .. Cardinality(Positions)
    BY <1>1, <2>1, <2>2
  <2>5. work[b] = Cardinality(b.cand) + Cardinality(Positions \ b.seen)
    <3> HIDE DEF D
    <3> QED
      BY DEF WorkLeft
  <2> QED
    BY <1>1, <2>3, <2>4, <2>5
<1>3. ASSUME NEW b \in D, b \notin E PROVE after[b] \in D /\ work[after[b]] < work[b] /\ b.cand # {}
  <2>1. b.cand # {}
    BY <1>3 DEF BeamEnds
  <2>2. PICK e : e = after[b]
    OBVIOUS
  <2>3. ef \in Nat
    OBVIOUS
  <2>4. PICK keep : keep = Positions
    OBVIOUS
  <2>5. e = Expand(b, q, ef, keep, l)
    <3> HIDE DEF D
    <3> QED
      BY <2>2, <2>4
  <2>6. e \in BeamsOf(Positions) /\ WorkLeft(e, Positions) < WorkLeft(b, Positions)
    BY <2>1, <2>3, <2>5, ExpandWorks
  <2> HIDE DEF after, E
  <2> QED
    BY <2>1, <2>2, <2>6
<1>4. Works(D, E, after, work, n)
  <2> HIDE DEF D, E, after, work
  <2>1. n \in Nat
    BY <1>1
  <2> QED
    BY <1>2, <1>3, <2>1 DEF Works
<1>5. PICK f : f = (CHOOSE g : Loops(g, D, E, value, after)) /\ Loops(f, D, E, value, after)
  <2> HIDE DEF D, E, after, work, value, n
  <2>1. \E g : Loops(g, D, E, value, after)
    BY <1>4, LoopFound
  <2> QED
    BY <2>1
<1>6. \A g : Loops(g, D, E, value, after) <=>
          g = [b \in D |-> IF BeamEnds(b, q, ef) THEN b.top ELSE g[Expand(b, q, ef, Positions, l)]]
  <2>1. ASSUME NEW g
        PROVE [b \in D |-> IF b \in E THEN value[b] ELSE g[after[b]]] =
              [b \in D |-> IF BeamEnds(b, q, ef) THEN b.top ELSE g[Expand(b, q, ef, Positions, l)]]
    <3> HIDE DEF D
    <3> QED
      OBVIOUS
  <2> HIDE DEF D, E, value, after
  <2> QED
    BY <2>1 DEF Loops
<1>7. Searched(q, ep, l, ef, Positions) = f[start]
  <2>1. Searched(q, ep, l, ef, Positions) =
           (CHOOSE g : g = [b \in D |-> IF BeamEnds(b, q, ef) THEN b.top
                                        ELSE g[Expand(b, q, ef, Positions, l)]])[start]
    BY DEF Searched, BeamsOf
  <2>2. (CHOOSE g : g = [b \in D |-> IF BeamEnds(b, q, ef) THEN b.top
                                     ELSE g[Expand(b, q, ef, Positions, l)]])
          = (CHOOSE g : Loops(g, D, E, value, after))
    <3> HIDE DEF D, E, value, after
    <3> QED
      BY <1>6
  <2> HIDE DEF D, E, value, after, start
  <2> QED
    BY <1>5, <2>1, <2>2
<1>8. start \in G
  BY DEF Beam, BeamsOf
<1>9. ASSUME NEW b \in G, b \notin E PROVE after[b] \in G
  <2>1. b \in D /\ b.cand \subseteq V /\ b.top \subseteq V /\ b.top # {}
    BY <1>9
  <2>2. b.cand # {} /\ after[b] \in D
    <3> HIDE DEF after, D, E
    <3> QED
      BY <1>3, <1>9, <2>1
  <2>3. PICK keep : keep = Positions
    OBVIOUS
  <2>4. b \in Beams
    BY <2>1, SetTypes DEF BeamsOf, Beams
  <2>5. V \in SUBSET AllPositions
    OBVIOUS
  <2>6. Expanded(b, Expand(b, q, ef, keep, l), l, V)
    BY <2>1, <2>2, <2>4, <2>5, ExpandIs
  <2>7. after[b] = Expand(b, q, ef, keep, l)
    <3> HIDE DEF D
    <3> QED
      BY <2>1, <2>3
  <2> HIDE DEF after
  <2>8. after[b].cand \subseteq V /\ after[b].top \subseteq V /\ after[b].top # {}
    BY <2>1, <2>6, <2>7 DEF Expanded
  <2> HIDE DEF D
  <2> QED
    BY <2>2, <2>8
<1>10. PICK e \in G \cap E : f[start] = value[e]
  <2>1. G \in SUBSET D /\ \A b \in G \ E : after[b] \in G
    BY <1>9
  <2>2. Loops(f, D, E, value, after)
    BY <1>5
  <2> HIDE DEF D, E, after, work, value, n, G, start
  <2>3. \A b \in G : \E e \in G \cap E : f[b] = value[e]
    BY <1>4, <2>1, <2>2, LoopReturns
  <2> QED
    BY <1>8, <2>3
<1>11. value[e] = e.top /\ e.top \subseteq V /\ e.top # {}
  <2> HIDE DEF D
  <2> QED
    OBVIOUS
<1> QED
  BY <1>7, <1>10, <1>11

------------------------------------------------------------------------------
(* The repair links every position it misses.                              *)

\* a[i] is the first of the largest of a[1], ..., a[n].
IsFarthest(a, i, n) == (\A j \in 1 .. n : a[j] <= a[i]) /\ \A j \in 1 .. i - 1 : a[j] < a[i]

\* Some place of a list that is not empty is the first of the farthest.
LEMMA FarthestExists ==
    ASSUME NEW n \in Nat \ {0}, NEW a, \A i \in 1 .. n : a[i] \in Int
    PROVE  \E i \in 1 .. n : IsFarthest(a, i, n)
<1> DEFINE Has(m) == \E i \in 1 .. m : IsFarthest(a, i, m)
           T == {m \in Nat : m # 0 /\ m <= n /\ ~Has(m)}
<1>1. Has(1)
  <2>1. IsFarthest(a, 1, 1)
    BY DEF IsFarthest
  <2> QED
    BY <2>1
<1>2. ASSUME NEW m \in Nat \ {0}, m < n, Has(m) PROVE Has(m + 1)
  <2>1. PICK i \in 1 .. m : IsFarthest(a, i, m)
    BY <1>2
  <2>2. a[i] \in Int /\ a[m + 1] \in Int /\ \A j \in 1 .. m : a[j] \in Int
    BY <1>2
  <2>3. \A j \in 1 .. m + 1 : j = m + 1 \/ j \in 1 .. m
    OBVIOUS
  <2>4. CASE a[i] < a[m + 1]
    <3>1. IsFarthest(a, m + 1, m + 1)
      BY <2>1, <2>2, <2>3, <2>4 DEF IsFarthest
    <3> QED
      BY <3>1
  <2>5. CASE ~(a[i] < a[m + 1])
    <3>1. IsFarthest(a, i, m + 1)
      BY <2>1, <2>2, <2>3, <2>5 DEF IsFarthest
    <3> QED
      BY <3>1
  <2> QED
    BY <2>4, <2>5
<1>3. T = {}
  <2> SUFFICES ASSUME T # {} PROVE FALSE
    OBVIOUS
  <2>1. PICK k \in T : \A i \in T : k <= i
    <3>1. T \in SUBSET Nat
      OBVIOUS
    <3> HIDE DEF T
    <3> QED
      BY <3>1, LeastNat
  <2>2. k \in Nat /\ k # 0 /\ k <= n /\ ~Has(k)
    <3> HIDE DEF Has
    <3> QED
      OBVIOUS
  <2> HIDE DEF Has
  <2>3. k # 1
    BY <1>1, <2>2
  <2>4. PICK i \in Nat \ {0} : k = i + 1
    BY <2>2, <2>3
  <2>5. i < n /\ i \notin T
    <3>1. i < n /\ ~(k <= i)
      BY <2>2, <2>4
    <3> HIDE DEF T
    <3> QED
      BY <2>1, <3>1
  <2>6. Has(i)
    BY <2>5
  <2> QED
    BY <1>2, <2>2, <2>4, <2>5, <2>6
<1> HIDE DEF Has
<1>4. Has(n)
  BY <1>3
<1> QED
  BY <1>4 DEF Has

\* The farthest link of a list that is not empty is one of its links.
LEMMA FarthestLink ==
    ASSUME set \in Sets, NEW x \in AllPositions, NEW S \in SUBSET AllPositions, NEW n \in Int, NEW list,
           IsList(list, S, n), list # <<>>
    PROVE  \E far \in DOMAIN list :
              /\ \A j \in DOMAIN list : Key(set.at[x], set.at[list[j]]) <= Key(set.at[x], set.at[list[far]])
              /\ \A j \in 1 .. far - 1 : Key(set.at[x], set.at[list[j]]) < Key(set.at[x], set.at[list[far]])
<1> DEFINE m == Len(list)
           a == [i \in 1 .. m |-> Key(set.at[x], set.at[list[i]])]
<1>1. list \in Seq(S) /\ DOMAIN list = 1 .. m /\ m \in Nat /\ m # 0
  <2>1. list \in Seq(S) /\ DOMAIN list = 1 .. m /\ m \in Nat
    BY DEF IsList
  <2> QED
    BY <2>1, EmptySeq
<1>2. \A i \in 1 .. m : a[i] \in Int
  <2>1. set.at \in [AllPositions -> Points]
    BY SetTypes
  <2> QED
    BY <1>1, <2>1, KeyType
<1>3. PICK far \in 1 .. m : IsFarthest(a, far, m)
  <2> HIDE DEF a, m
  <2> QED
    BY <1>1, <1>2, FarthestExists
<1>4. \A j \in 1 .. far - 1 : j \in 1 .. m
  BY <1>1
<1> HIDE DEF m
<1> QED
  BY <1>1, <1>3, <1>4 DEF IsFarthest

\* One list that gets a new member is a change of the links.
LEMMA ListChanges ==
    ASSUME Inv, NEW c \in Positions, NEW v, NEW p \in MembersOf(v), p \notin MembersOf(links[c][0])
    PROVE  [links EXCEPT ![c][0] = v] # links
<1>1. c \in DOMAIN links /\ 0 \in DOMAIN links[c]
  BY GroundLinks DEF Inv, GraphOK
<1> DEFINE new == [links EXCEPT ![c] = [links[c] EXCEPT ![0] = v]]
<1>2. new[c][0] = v
  BY <1>1
<1>3. [links EXCEPT ![c][0] = v] = new
  OBVIOUS
<1> HIDE DEF new
<1>4. new # links
  BY <1>2
<1> QED
  BY <1>3, <1>4

\* What is appended to a list is in it.
LEMMA AppendTakes ==
    ASSUME NEW S, NEW list \in Seq(S), NEW p \in S
    PROVE  p \in MembersOf(Append(list, p))
<1>1. Len(list) + 1 \in DOMAIN Append(list, p) /\ Append(list, p)[Len(list) + 1] = p
  OBVIOUS
<1> QED
  BY <1>1 DEF MembersOf

\* The repair always finds a reached node to link a missed one from.
LEMMA LinksToLinks ==
    ASSUME Inv, stage \in {"repair", "repair again"}, entry \in repair.seen, NEW p \in Positions, p \notin repair.seen
    PROVE  LinksTo(p) # links
<1> DEFINE q == set.at[p]
           found == Searched(q, entry, 0, Ef, Positions)
           reached == {c \in found \cap repair.seen : c # p}
           room == {c \in reached : Len(links[c][0]) < Capacity(0)}
<1>1. /\ Positions \in SUBSET AllPositions /\ p \in AllPositions /\ q \in Points /\ set \in Sets
      /\ Capacity(0) \in Nat \ {0} /\ Ef \in Nat \ {0}
  <2>1. Typed /\ set \in Sets
    BY DEF Inv, Typed
  <2>2. Capacity(0) \in Nat \ {0}
    BY CapacityType
  <2>3. Positions \subseteq AllPositions /\ p \in AllPositions
    BY <2>1, PositionTypes
  <2>4. q \in Points
    BY <2>1, <2>3, PositionTypes
  <2>5. Ef \in Nat \ {0}
    BY GraphConstants DEF Ef
  <2> QED
    BY <2>1, <2>2, <2>3, <2>4, <2>5
<1>2. repair.seen \in SUBSET Positions /\ Shut(repair.seen, 0)
  BY DEF Inv, RepairOK, Shut
<1>3. Shut(Positions, 0)
  BY GroundLinks DEF Shut
<1>4. found \subseteq repair.seen /\ found # {}
  <2>1. PICK V \in SUBSET Positions : V = repair.seen
    BY <1>2
  <2>2. PICK l : l = 0
    OBVIOUS
  <2>3. Shut(V, l) /\ Shut(Positions, l) /\ entry \in V
    BY <1>2, <1>3, <2>1, <2>2
  <2>4. Searched(q, entry, l, Ef, Positions) \subseteq V /\ Searched(q, entry, l, Ef, Positions) # {}
    BY <1>1, <2>3, SearchedIs
  <2> QED
    BY <2>1, <2>2, <2>4
<1>5. LinksTo(p) =
          IF reached = {} THEN links
          ELSE IF room # {} THEN [links EXCEPT ![Nearest(q, room)][0] = Append(@, p)]
          ELSE IF /\ repair.last >= 0 /\ repair.last \in repair.seen
                  /\ Len(links[repair.last][0]) < Capacity(0)
                  /\ Key(q, set.at[Farthest(q, found)]) >= Key(set.at[repair.last], q)
               THEN [links EXCEPT ![repair.last][0] = Append(@, p)]
          ELSE Replaced(Nearest(q, reached), p)
  BY DEF LinksTo
<1> HIDE DEF found
<1>6. reached # {} /\ reached \in SUBSET AllPositions /\ reached \subseteq repair.seen
      /\ room \in SUBSET AllPositions /\ room \subseteq reached
  BY <1>1, <1>2, <1>4
<1>7. \A c \in repair.seen :
          /\ c \in Positions /\ IsList(links[c][0], Visible(0) \ {c}, Capacity(0)) /\ p \notin MembersOf(links[c][0])
  BY <1>2, GroundLinks DEF Shut
<1>8. ASSUME NEW c \in repair.seen PROVE [links EXCEPT ![c][0] = Append(@, p)] # links
  <2>1. PICK list : list = links[c][0]
    OBVIOUS
  <2>2. list \in Seq(Positions)
    <3>1. MembersOf(list) \subseteq Positions
      BY <1>7, <2>1, GroundLinks
    <3>2. PICK n \in Int : n = Capacity(0)
      BY CapacityInt
    <3>3. IsList(list, Visible(0) \ {c}, n)
      BY <1>7, <2>1, <3>2
    <3>4. IsList(list, Positions, n)
      BY <3>1, <3>3, ListMembers
    <3> QED
      BY <3>4 DEF IsList
  <2>3. p \in MembersOf(Append(list, p))
    BY <2>2, AppendTakes
  <2>4. PICK v : v = Append(list, p)
    OBVIOUS
  <2>5. p \in MembersOf(v)
    BY <2>3, <2>4
  <2>6. [links EXCEPT ![c][0] = v] # links
    BY <1>7, <2>5, ListChanges
  <2> QED
    BY <2>1, <2>4, <2>6
<1>9. CASE room # {}
  <2>1. Nearest(q, room) \in repair.seen
    <3> HIDE DEF room, reached
    <3> QED
      BY <1>1, <1>6, <1>9, NearestIn
  <2>2. LinksTo(p) = [links EXCEPT ![Nearest(q, room)][0] = Append(@, p)]
    BY <1>5, <1>6, <1>9
  <2> HIDE DEF room
  <2> QED
    BY <1>8, <2>1, <2>2
<1>10. CASE repair.last \in repair.seen /\ LinksTo(p) = [links EXCEPT ![repair.last][0] = Append(@, p)]
  BY <1>8, <1>10
<1>11. CASE LinksTo(p) = Replaced(Nearest(q, reached), p) /\ room = {}
  <2> DEFINE x == Nearest(q, reached)
             list == links[x][0]
             away(i) == Key(set.at[x], set.at[list[i]])
             Foremost(i) == (\A j \in DOMAIN list : away(j) <= away(i)) /\ \A j \in 1 .. i - 1 : away(j) < away(i)
             k == CHOOSE i \in DOMAIN list : Foremost(i)
  <2>1. x \in reached
    <3> HIDE DEF room, reached
    <3> QED
      BY <1>1, <1>6, NearestIn
  <2>2. x \in repair.seen /\ x \notin room /\ x \in AllPositions
    BY <1>6, <1>11, <2>1
  <2>3. ~(Len(list) < Capacity(0))
    BY <2>1, <2>2
  <2>4. LinksTo(p) = [links EXCEPT ![x][0][k] = p]
    BY <1>11 DEF Replaced
  <2> HIDE DEF x
  <2>5. IsList(list, Visible(0) \ {x}, Capacity(0)) /\ list # <<>>
    BY <1>1, <1>7, <2>2, <2>3, FullList
  <2>6. Visible(0) \ {x} \in SUBSET AllPositions
    BY PositionTypes DEF Inv
  <2>7. \E i \in DOMAIN list : Foremost(i)
    <3>1. PICK S \in SUBSET AllPositions : S = Visible(0) \ {x}
      BY <2>6
    <3>2. PICK room0 \in Int : room0 = Capacity(0)
      BY CapacityInt
    <3>3. IsList(list, S, room0)
      BY <2>5, <3>1, <3>2
    <3> HIDE DEF list
    <3> QED
      BY <1>1, <2>2, <2>5, <3>3, FarthestLink
  <2>8. k \in DOMAIN list
    <3> HIDE DEF Foremost, list
    <3> QED
      BY <2>7
  <2> HIDE DEF k
  <2>9. PICK v : v = [list EXCEPT ![k] = p]
    OBVIOUS
  <2>10. v[k] = p /\ k \in DOMAIN v
    <3> HIDE DEF list
    <3> QED
      BY <2>8, <2>9
  <2>11. p \in MembersOf(v)
    BY <2>10 DEF MembersOf
  <2>12. [links EXCEPT ![x][0] = v] # links
    BY <1>7, <2>2, <2>11, ListChanges
  <2> QED
    BY <2>4, <2>9, <2>12
<1>12. room # {} \/ (LinksTo(p) = Replaced(Nearest(q, reached), p) /\ room = {})
           \/ (repair.last \in repair.seen /\ LinksTo(p) = [links EXCEPT ![repair.last][0] = Append(@, p)])
  BY <1>5, <1>6
<1> QED
  BY <1>9, <1>10, <1>11, <1>12

Repairing == stage \in {"repair", "repair again"}

\* A pass starts from what the entry point reaches, and until it links something that is what is reached.
PassOK ==
    Repairing =>
        /\ entry \in repair.seen
        /\ repair.made = 0 => repair.p = 0 /\ repair.seen = Walked(links, {}, {entry})

\* Every live position that the walk misses gets a link from a reached one: the search for it never comes back
\* with nothing to link it from (the "continue" of repair() is never taken).
EveryMissedLinked == [][RepairLink => repair'.made = repair.made + 1]_vars

\* A repair that stops because its last pass made no link leaves no live position unreachable.
NothingMadeNoneLeft == [][RepairPassEnds /\ repair.made = 0 => Unreachable' = {}]_vars

\* A walk visits where it starts.
LEMMA EntryWalked == ASSUME Typed PROVE entry \in Walked(links, {}, {entry})
<1>1. entry \in AllPositions
  BY PositionTypes DEF Typed
<1> QED
  BY <1>1 DEF Walked

\* A pass starts with what a walk from the entry point visits.
LEMMA PassBegins ==
    ASSUME Inv, NEW n \in Nat
    PROVE  /\ RepairPass(n).p = 0 /\ RepairPass(n).made = 0 /\ RepairPass(n).seen = Walked(links, {}, {entry})
           /\ entry \in RepairPass(n).seen
<1> DEFINE W == Walked(links, {}, {entry})
<1>1. entry \in W
  BY EntryWalked DEF Inv
<1> HIDE DEF W
<1>2. RepairPass(n) = [[NoRepair EXCEPT !.pass = n] EXCEPT !.seen = W]
  BY DEF RepairPass, W
<1>3. RepairPass(n).p = 0 /\ RepairPass(n).made = 0 /\ RepairPass(n).seen = W
  BY <1>2 DEF NoRepair
<1> QED
  BY <1>1, <1>3 DEF W

\* The next missed position is linked, and what was reached still counts as reached.
LEMMA RepairLinks ==
    ASSUME Inv, PassOK, RepairLink
    PROVE  repair'.made = repair.made + 1 /\ repair'.made # 0 /\ repair.seen \subseteq repair'.seen
<1> DEFINE p == CHOOSE x \in Missed : \A y \in Missed : x <= y
<1>1. p \in Missed
  <2>1. Missed \in SUBSET Nat /\ Missed # {}
    BY PositionTypes DEF Missed, RepairLink, Inv
  <2> QED
    BY <2>1, LeastNat
<1>2. /\ Repairing
      /\ repair' = IF LinksTo(p) = links THEN [repair EXCEPT !.p = p + 1]
                   ELSE [repair EXCEPT !.p = p + 1, !.made = @ + 1, !.last = p,
                                       !.seen = Walked(LinksTo(p), repair.seen, {p})]
  BY DEF RepairLink, Repairing
<1> HIDE DEF p
<1>3. p \in Positions /\ p \notin repair.seen
  BY <1>1 DEF Missed
<1>4. LinksTo(p) # links
  BY <1>2, <1>3, LinksToLinks DEF PassOK, Repairing
<1>5. repair \in [pass : Nat, p : Nat, seen : SUBSET Nat, made : Nat, last : Int]
  BY DEF Inv, Typed
<1> DEFINE W == Walked(LinksTo(p), repair.seen, {p})
<1>6. repair.seen \subseteq W
  BY DEF Walked
<1>7. repair' = [repair EXCEPT !.p = p + 1, !.made = repair.made + 1, !.last = p, !.seen = W]
  BY <1>2, <1>4
<1> HIDE DEF W
<1>8. repair'.made = repair.made + 1 /\ repair'.seen = W
  BY <1>5, <1>7
<1> QED
  BY <1>5, <1>6, <1>8

\* There is no repair at first.
LEMMA PassInit == ASSUME Init PROVE PassOK
BY DEF Init, PassOK, Repairing

\* Every step keeps what is said of a pass: none but the repair's own happens during one.
LEMMA PassStep == Inv /\ PassOK /\ [Next]_vars => PassOK'
<1> SUFFICES ASSUME Inv, PassOK, [Next]_vars, Repairing' PROVE PassOK'
  BY DEF PassOK
<1>1. ASSUME NEW t \in Threads, Step(t) \/ Throws(t) PROVE FALSE
  <2>1. stage' = stage
    BY <1>1 DEF Step, Take, Start, Greedy, Search, ConnectOwn, ConnectBack, LevelLinked, Throws, graphVars
  <2>2. thread[t].pc = "ended"
    BY <2>1 DEF Inv, Stages, Building, Repairing
  <2> QED
    BY <1>1, <2>2 DEF Step, Take, Start, Greedy, Search, ConnectOwn, ConnectBack, LevelLinked, Throws
<1>2. CASE Cancel
  <2>1. stage' = stage
    BY <1>2 DEF Cancel, graphVars
  <2>2. thread[Caller].pc = "ended"
    BY <2>1, GraphConstants DEF Inv, Stages, Building, Repairing
  <2> QED
    BY <1>2, <2>2 DEF Cancel
<1>3. ASSUME NEW n \in Nat, repair' = RepairPass(n), UNCHANGED <<set, links, entry>> PROVE PassOK'
  <2>1. Walked(links, {}, {entry})' = Walked(links, {}, {entry})
    BY <1>3 DEF Walked, AllPositions
  <2>2. /\ repair'.p = 0 /\ repair'.seen = Walked(links, {}, {entry})
        /\ entry \in repair'.seen
    BY <1>3, PassBegins
  <2> QED
    BY <1>3, <2>1, <2>2 DEF PassOK
<1>4. CASE Join
  <2>1. repair' = RepairPass(0) /\ UNCHANGED <<set, links, entry>>
    BY <1>4 DEF Join, Repairing
  <2> QED
    BY <1>3, <2>1
<1>5. CASE RepairLink
  <2>1. repair'.made # 0 /\ repair.seen \subseteq repair'.seen
    BY <1>5, RepairLinks
  <2>2. entry \in repair.seen /\ entry' = entry
    BY <1>5 DEF RepairLink, PassOK, Repairing
  <2> QED
    BY <2>1, <2>2 DEF PassOK
<1>6. CASE RepairPassEnds
  <2>1. repair' = RepairPass(repair.pass + 1) /\ UNCHANGED <<set, links, entry>>
    BY <1>6 DEF RepairPassEnds, Repairing
  <2>2. repair.pass + 1 \in Nat
    <3>1. repair \in [pass : Nat, p : Nat, seen : SUBSET Nat, made : Nat, last : Int]
      BY DEF Inv, Typed
    <3> QED
      BY <3>1
  <2> QED
    BY <1>3, <2>1, <2>2
<1>7. CASE Extend
  BY <1>7 DEF Extend, Repairing
<1>8. CASE UNCHANGED vars
  <2>1. UNCHANGED <<set, links, entry, repair, stage>>
    BY <1>8 DEF vars
  <2>2. Walked(links, {}, {entry})' = Walked(links, {}, {entry})
    BY <2>1 DEF Walked, AllPositions
  <2> QED
    BY <2>1, <2>2 DEF PassOK, Repairing
<1> QED
  BY <1>1, <1>2, <1>4, <1>5, <1>6, <1>7, <1>8 DEF Next

\* Every position the repair finds missed is linked from a reached one, for every graph that the inserts can
\* leave behind: repair() never passes one over.
THEOREM RepairLinksEveryMissed == Spec => EveryMissedLinked
<1>1. Init => Inv /\ PassOK
  BY InitInv, PassInit
<1>2. Inv /\ PassOK /\ [Next]_vars => Inv' /\ PassOK'
  BY NextInv, PassStep
<1>3. Inv /\ PassOK /\ [Next]_vars => [RepairLink => repair'.made = repair.made + 1]_vars
  BY RepairLinks
<1> HIDE DEF Inv, PassOK
<1> QED
  BY <1>1, <1>2, <1>3, PTL DEF Spec, EveryMissedLinked

\* A repair whose last pass made no link has every live position reachable from the entry point on level 0,
\* whatever the inserts pruned and whoever is dead.  What can stop it earlier is its bound on passes only.
THEOREM RepairLeavesNone == Spec => NothingMadeNoneLeft
<1>1. Init => Inv /\ PassOK
  BY InitInv, PassInit
<1>2. Inv /\ PassOK /\ [Next]_vars => Inv' /\ PassOK'
  BY NextInv, PassStep
<1>3. ASSUME Inv, PassOK, RepairPassEnds, repair.made = 0 PROVE Unreachable' = {}
  <2>1. repair.p = 0 /\ repair.seen = Walked(links, {}, {entry}) /\ Missed = {}
    BY <1>3 DEF PassOK, RepairPassEnds, Repairing
  <2>2. \A x \in Positions : x >= 0
    <3>1. Typed
      BY <1>3 DEF Inv
    <3>2. Positions \subseteq Nat
      BY <3>1, PositionTypes
    <3>3. \A n \in Nat : n >= 0
      OBVIOUS
    <3> QED
      BY <3>2, <3>3
  <2>3. \A x \in Positions \ dead : x \in Walked(links, {}, {entry})
    BY <2>1, <2>2 DEF Missed
  <2>4. UNCHANGED <<set, links, entry, dead, count>>
    BY <1>3 DEF RepairPassEnds
  <2>5. Walked(links, {}, {entry})' = Walked(links, {}, {entry})
    BY <2>4 DEF Walked, AllPositions
  <2>6. (Positions \ dead)' = Positions \ dead
    BY <2>4 DEF Positions
  <2> QED
    BY <2>3, <2>5, <2>6 DEF Unreachable
<1>4. Inv /\ PassOK /\ [Next]_vars => [RepairPassEnds /\ repair.made = 0 => Unreachable' = {}]_vars
  BY <1>3
<1> HIDE DEF Inv, PassOK
<1> QED
  BY <1>1, <1>2, <1>4, PTL DEF Spec, NothingMadeNoneLeft

==============================================================================
