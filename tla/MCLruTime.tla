------------------------------ MODULE MCLruTime ------------------------------
\* The cache with keys that collide in every size of table, and one that
\* collides only in a small one.
EXTENDS LruTime, TLC

CONSTANTS k1, k2, k3, v1

MCHash == [k \in Key |-> IF k = k3 THEN 1 ELSE 7]

Symmetry == Permutations({k1, k2})
=============================================================================
