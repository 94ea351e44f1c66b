-------------------------- MODULE MCHashTable8Iter --------------------------
(* Small instances of HashTable8Iter for TLC.                              *)
EXTENDS MCHashTable8, HashTable8Iter
=============================================================================
