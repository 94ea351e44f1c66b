---------------------------- MODULE MCContainers ----------------------------
\* Keys that share a main bucket in every size of table, one that shares it in
\* a small one, and one whose main bucket a guest of theirs may take.
EXTENDS Containers, TLC

CONSTANTS k1, k2, k3, k4, v1, v2

MCHash == [k \in Key |-> CASE k = k3 -> 3 [] k = k4 -> 0 [] OTHER -> 7]

MCBatches == { <<k, k4, k3>> : k \in {k1, k2} }

MCOtherMax ==
  [map5 |-> 1, map6 |-> 1, map6swap |-> 1, map7 |-> 1, set2 |-> 2, set4 |-> 1, set8 |-> 1]
MCMaxSize ==
  [map5 |-> 8, map6 |-> 16, map6swap |-> 16, map7 |-> 16, set2 |-> 8, set4 |-> 16, set8 |-> 8]

Symmetry == Permutations({k1, k2})
=============================================================================
