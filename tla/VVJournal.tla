------------------------------ MODULE VVJournal ------------------------------
(***************************************************************************)
(* The change journal of an index and what "the latest row of every id"    *)
(* means.  Pure definitions, shared by the refresh, the queries and the    *)
(* proofs.                                                                 *)
(*                                                                         *)
(* A journal row is [id, ver, del].  Its vector is not written out: two    *)
(* rows that carry the same id and version carry the same vector.          *)
(* Consolidation is the same in three places of the code: the source query *)
(* of a refresh (ROW_NUMBER over ver DESC, del DESC), the incremental      *)
(* builder, and class Journal of vsearch.                                  *)
(***************************************************************************)
EXTENDS Naturals

CONSTANT Ids                    \* the values of the id column

Row == [id : Ids, ver : Nat \ {0}, del : BOOLEAN]

\* Row e replaces row r of the same id: a higher version, or a delete that ties with an add.
Beats(e, r) ==
    /\ e.id = r.id
    /\ \/ e.ver > r.ver
       \/ e.ver = r.ver /\ e.del /\ ~r.del

\* The rows of R up to version b, after version b, and between the two.
Upto(R, b) == {r \in R : r.ver <= b}
After(R, b) == {r \in R : r.ver > b}
Between(R, lo, hi) == {r \in R : r.ver > lo /\ r.ver <= hi}

\* The latest row of every id, deletes left out: what a full build stores.
Live(R) == {r \in R : ~r.del /\ \A e \in R : ~Beats(e, r)}

\* Journal rows D over a consolidated set S: every id of D is masked in S, and its latest row is
\* added unless it is a delete.  This is what an incremental build makes of its base, and what
\* vsearch searches with freshness 'exact'.
ApplyUnmasked(S, D) == S \cup Live(D)          \* mutant: the older row of the base is not masked
Apply(S, D) == {s \in S : \A d \in D : d.id # s.id} \cup Live(D)
==============================================================================
