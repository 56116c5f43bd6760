--------------------------- MODULE MCClusterSetup ---------------------------
EXTENDS ClusterSetup, TLC

CONSTANTS old, new1, new2, manual

\* One process of the release before is still there.
TwoReleases == [w \in {old, new1, new2, manual} |-> IF w \in {new1, new2} THEN 2 ELSE 1]

\* One worker of each release.
OneOfEach == [w \in {old, new1} |-> IF w = old THEN 1 ELSE 2]

Interchangeable == Permutations({new1, new2})
=============================================================================
