---------------------------- MODULE MCHashTable7 ----------------------------
(* Small instances of HashTable7 for TLC.                                  *)
EXTENDS HashTable7

CONSTANTS k1, k2, k3, k4, k5, v1, v2

\* k1, k2 and k3 share the last main bucket of every table, where the first
\* read of a probe sees the least; k4 joins them in tables of up to four
\* buckets; k5 lives where their chain overflows to once the probe wraps.
MCHash == [k \in Key |-> CASE k = k4 -> 3 [] k = k5 -> 0 [] OTHER -> 7]

MCBatches == {<<k1, k2, k1>>, <<k3, k4, k5>>}
MCLruBatches == {<<k1, k2, k1>>, <<k1, k2, k3>>}
=============================================================================
