------------------------------ MODULE MCSwiss ------------------------------
\* Keys that have one main slot in every table, and others that have another.
EXTENDS Swiss, TLC

CONSTANTS k1, k2, k3, k4, v1

MCHash == [k \in Key |-> CASE k = k3 -> 2 [] k = k4 -> 4 [] OTHER -> 7]

MCBatches == { <<k, k3>> : k \in {k1, k2} }

MCOtherMax ==
  [map1 |-> 2, tight |-> 1, map2 |-> 1, map3 |-> 2, set2 |-> 1, long |-> -1, set3 |-> 1]

Symmetry == Permutations({k1, k2})

\* With the 16 slots of the code's groups, the turns of emihset3 come to every slot
\* of an array but in one of 128, where the far turns step over every other group:
\* if rehash(n) or a range puts more than 112 elements there, a probe may never
\* meet one of the free slots.  No array of the run is that large.
Full == INSTANCE EmihSet3 WITH Key <- Few, simd_bytes <- 16, DefaultLoad <- 800

ASSUME TurnsMeetAllButOne ==
  \A size \in { 16 * 2^e : e \in 0 .. 6 } :
    LET m == [size |-> size]
    IN  UNION { Full!At(m, 0, i) : i \in 0 .. Full!Turns(m) } = Full!Slots(m) <=> size # 128
=============================================================================
