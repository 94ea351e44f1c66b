-------------------------- MODULE MCHashTable7Iter --------------------------
(* Small instances of HashTable7Iter for TLC.                              *)
EXTENDS MCHashTable7, HashTable7Iter

\* One chain begins in the last bucket and wraps round, so that its second
\* element lies before the first; the other begins in the middle of a table of
\* eight, at the first bucket of a word, and goes on in that word.
MCIterHash == [k \in Key |-> IF k \in {k1, k2} THEN 7 ELSE 4]

MCIterBatches == {<<k1, k2, k4>>, <<k4, k5, k4>>}
=============================================================================
