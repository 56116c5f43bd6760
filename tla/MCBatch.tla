------------------------------- MODULE MCBatch -------------------------------
EXTENDS Batch

CONSTANTS t1, t2

\* Two batches.  In the first, two documents have one target and the third, without
\* a target, cannot be hashed; the second asks for another target twice and for the
\* first one again.
Doc(id, key) == [id |-> id, key |-> key]
MCDocuments == <<Doc("a", t1), Doc("b", t1), Doc("c", None),
                 Doc("d", t2), Doc("e", t1), Doc("f", t2)>>

\* The service is given another data stream between its two starts.
OldAndNew == <<"old", "new">>
=============================================================================
