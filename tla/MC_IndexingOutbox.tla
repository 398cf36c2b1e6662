------------------------- MODULE MC_IndexingOutbox -------------------------
(* Instances of IndexingOutbox for TLC.                                     *)
EXTENDS IndexingOutbox, TLC

CONSTANTS e1, e2, d1, w1, w2

\* An ingestion of a document and a reindexing of it, or two reindexings.
SameDoc == [e \in Events |-> d1]
=============================================================================
