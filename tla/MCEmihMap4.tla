----------------------------- MODULE MCEmihMap4 -----------------------------
\* Three keys that start in the last group of every array, which has one slot,
\* and share a bit of its overflow byte, and one that starts in the first group.
EXTENDS EmihMap4, TLC

CONSTANTS k1, k2, k3, k4, v1

MCHash == [k \in Key |-> IF k = k4 THEN 0 ELSE 7]

MCBatches == { <<k, k4>> : k \in {k1, k2, k3} }

Symmetry == Permutations({k1, k2, k3})
=============================================================================
