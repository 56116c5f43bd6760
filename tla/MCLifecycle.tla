----------------------------- MODULE MCLifecycle -----------------------------
EXTENDS Lifecycle, TLC

CONSTANTS outer, inner

MCStack == <<outer, inner>>
SomeOrder == Permutations(Docs)
=============================================================================
