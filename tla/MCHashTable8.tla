---------------------------- MODULE MCHashTable8 ----------------------------
(* Small instances of HashTable8 for TLC.                                  *)
EXTENDS HashTable8, TLC

CONSTANTS k1, k2, k3, k4, k5, k6, k7, k8, v1, v2

\* k1, k2 and k3 have the same hash; k4 shares their main bucket but not their
\* tag, in every table; k5 shares it in a table of four only, and k6 lives where
\* their chain overflows to.
MCHash == [k \in Key |-> CASE k = k4 -> 11 [] k = k5 -> 7 [] k = k6 -> 0 [] OTHER -> 3]

Twins == Key \cap {k1, k2, k3}
MCSymmetry == Permutations(Twins)

\* Ranges that treat the twins alike.
MCBatches == { <<k, l, k>> : k, l \in Twins }

MCIterBatches == {<<k1, k4, k6>>, <<k4, k1, k4>>}

\* For the run that fills an array: one bucket for each key.
MCSpread ==
  [k \in Key |-> CASE k = k1 -> 1 [] k = k2 -> 2 [] k = k3 -> 3 [] k = k4 -> 4
              [] k = k5 -> 5 [] k = k6 -> 6 [] k = k7 -> 7 [] OTHER -> 8]

MCFill == {<<k1, k2, k3, k4, k5, k6, k7>>}
=============================================================================
