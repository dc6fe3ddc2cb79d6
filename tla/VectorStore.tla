------------------------------ MODULE VectorStore ------------------------------
(***************************************************************************)
(* DuckDB, the vector store (storage/vector_store.py): one row for each    *)
(* embedded fragment, and the BM25 index over the prose of the rows.  The  *)
(* index is a snapshot: no row inserted or deleted after it was made       *)
(* changes it.  A row is the revision of the prose that was embedded.      *)
(***************************************************************************)
EXTENDS SkillGraph

VARIABLES
    rows,       \* rows[f]: the revision in the row of fragment f, or None
    index,      \* index[f]: the revision of f that the BM25 index holds, or None
    indexBuilt  \* there is a BM25 index

storeVars == <<rows, index, indexBuilt>>

Prose == [Fragment -> Revision \cup {None}]

NoProse == [f \in Fragment |-> None]

StoreTypeOK ==
    /\ rows \in Prose
    /\ index \in Prose
    /\ indexBuilt \in BOOLEAN

StoreInit == rows = NoProse /\ index = NoProse /\ indexBuilt = FALSE

Present == {f \in Fragment : rows[f] # None}

\* What search_bm25 can find: it joins the index with the rows.
Searchable == {f \in Present : indexBuilt /\ index[f] = rows[f]}

\* open_or_create makes the index if there is none; if it cannot, it goes on
\* without one.
OpenStore ==
    /\ indexBuilt' = TRUE
    /\ index' = IF indexBuilt THEN index ELSE rows
    /\ UNCHANGED rows

DeleteRows(skills) ==
    /\ rows' = [f \in Fragment |-> IF f[1] \in skills THEN None ELSE rows[f]]
    /\ UNCHANGED <<index, indexBuilt>>

\* The fragment's id is the primary key.
InsertRow(f, rev) ==
    /\ rows[f] = None
    /\ rows' = [rows EXCEPT ![f] = rev]
    /\ UNCHANGED <<index, indexBuilt>>

\* The two halves of rebuild_fts_index.
DropIndex ==
    /\ indexBuilt' = FALSE
    /\ index' = NoProse
    /\ UNCHANGED rows

CreateIndex ==
    /\ indexBuilt' = TRUE
    /\ index' = rows
    /\ UNCHANGED rows
=============================================================================
