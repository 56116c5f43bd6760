----------------------------- MODULE MCSinkFile -----------------------------
EXTENDS SinkFile, TLC

\* With Limit = 1: a line that fills a file, and one no file can take.
SmallBatches == {<<1>>, <<1, 2>>}
UnitBatches == {<<1>>}

\* Descriptor numbers and threads are interchangeable in a safety run.
Interchangeable == Permutations(FDs) \cup Permutations(Workers)
=============================================================================
