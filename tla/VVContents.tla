---- MODULE VVContents ----
(* What an index build promises: the snapshot answers with the vectors the       *)
(* journal gives, whatever the layout it keeps them in. A full build holds        *)
(* exactly its rows; an incremental build applies one add, change or delete per   *)
(* id to what its base held. Nothing here knows of positions, tombstones or the   *)
(* id_index. VVIncremental implements it.                                        *)
CONSTANTS
    Ids,            \* ids of the indexed table
    Vectors,        \* vectors, compared bit for bit
    Kept, Gone      \* a batch that says nothing of an id; an id with no vector

VARIABLES
    contents,       \* the vector the snapshot answers for each id
    batch           \* the changes the last build was given

(* The journal's changes for one build, one row per id (the build's query takes  *)
(* the youngest version of each).                                                *)
Batches == [Ids -> Vectors \cup {Kept, Gone}]

Applied(old, changes) ==
    [i \in Ids |-> IF changes[i] = Kept THEN old[i] ELSE changes[i]]

(* A full build knows no earlier vector. *)
Init ==
    /\ batch \in Batches
    /\ contents = Applied([i \in Ids |-> Gone], batch)

Next ==
    /\ batch' \in Batches
    /\ contents' = Applied(contents, batch')

Spec == Init /\ [][Next]_<<contents, batch>>
====
