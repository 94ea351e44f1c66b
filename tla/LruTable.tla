------------------------------ MODULE LruTable ------------------------------
(***************************************************************************)
(* What the two caches, lru_size and lru_time, have in common.  An entry   *)
(* carries a stamp beside its value, its order number in the one and its   *)
(* deadline in the other, so an element's second is [value, stamp].  The   *)
(* hint is kept in the link of the sentinel behind the last bucket.        *)
(***************************************************************************)
EXTENDS LinkedTable

CONSTANTS
  Value, NoValue,
  LoadFactors,  \* the arguments of max_load_factor, in 1/1000
  HintTurn,     \* the turn of the probe that first reads the hint, 5 in the code
  MaxBuckets,   \* the arguments max_bucket of the constructor
  Requests,     \* the arguments of reserve
  Plain,        \* elements that may be copied and wiped as plain memory
  PairMax       \* the bound on the elements when a call is made on two caches

ASSUME ValueAssumption == NoValue \notin Value
ASSUME NoPairAssumption ==
  NoPair \notin [first : Key, second : [value : Value, stamp : Nat], bucket : Nat]
ASSUME LoadAssumption == LoadFactors \subseteq Nat
ASSUME ProbeAssumption == HintTurn \in Nat \ {0}

\* The code starts from 8 and from 4; what matters is a power of two.
ASSUME DoublingAssumption == MinSize \in {2, 4, 8}

ASSUME RequestAssumption ==
  MaxBuckets \subseteq Nat \ {0} /\ Requests \subseteq Nat /\ PairMax \in Nat

Stamp(t, b) == t.pairs[b].second.stamp
Stamped(t, b, n) == [t EXCEPT !.pairs[b].second.stamp = n]

StampOf(t, k) == Stamp(t, Find(t, k))
ValueOf(t, k) == t.pairs[Find(t, k)].second.value

-----------------------------------------------------------------------------
(* The probe for an empty bucket: the two behind, then two at growing      *)
(* distances, and from HintTurn on two at the hint and two half a table    *)
(* further.                                                                *)

HintAfter(t, j) ==
  IF j < HintTurn THEN t.hint ELSE ((t.hint + 2 * (j - HintTurn)) % t.size) + 2

Places(t, from, j) ==
  LET slot == (from + 3 + (j * (j + 1)) \div 2) % t.size
      before == HintAfter(t, j - 1)
      h == HintAfter(t, j)
      medium == (t.size \div 2 + h) % t.size
  IN  IF j < HintTurn
      THEN <<[at |-> slot, hint |-> before], [at |-> slot + 1, hint |-> before]>>
      ELSE <<[at |-> slot, hint |-> before], [at |-> slot + 1, hint |-> before],
             [at |-> h - 2, hint |-> h - 1], [at |-> h - 1, hint |-> h],
             [at |-> medium, hint |-> h], [at |-> medium + 1, hint |-> h]>>

Behind(t, from) == << [at |-> from + 1, hint |-> t.hint], [at |-> from + 2, hint |-> t.hint] >>

\* The distances of 2 * size turns meet every bucket.
FindEmptyBucket(t, from) ==
  LET j == Lowest({ i \in 1 .. 2 * t.size : SomeEmpty(t, Places(t, from, i)) })
  IN  FirstEmpty(t, IF SomeEmpty(t, Behind(t, from)) THEN Behind(t, from) ELSE Places(t, from, j))

FromTail(main, tail) == tail

\* Mutant: a guest stays in the main bucket of k, and k joins its chain.
FindUniqueBucketGuest(t, k, v) ==
  LET b == Main(t, k)
  IN  IF b \in Empty(t) THEN New(t, b, k, v, b)
      ELSE LinkNew(t, k, v, FindLastBucket(t, b), FindLastBucket(t, b), FindEmptyBucket)

FindUniqueBucket(t, k, v) == Place(t, k, v, FromTail, FindEmptyBucket)

-----------------------------------------------------------------------------
(* Removing.                                                               *)

\* The bucket given up keeps the stamp of the element that is erased.
Pulled(t, b) ==
  LET e == PullNext(t, b) IN [e EXCEPT !.t = Stamped(@, e.freed, Stamp(t, b))]

\* Mutant: the successor is not moved into the bucket before its own is given up.
EraseKeyUnmoved(t, k) ==
  LET b == Find(t, k)
      next == t.pairs[b].bucket
      link == t.pairs[next].bucket
  IN  IF b # Main(t, k) THEN Unlink(t, Main(t, k), b)
      ELSE [t |-> Linked(t, b, IF link = next THEN b ELSE link), freed |-> next]

\* erase_key, for a key that is stored.
EraseKey(t, k) ==
  LET b == Find(t, k)
  IN  IF b # Main(t, k) THEN Unlink(t, Main(t, k), b)
      ELSE IF t.pairs[b].bucket # b THEN Pulled(t, b)
      ELSE [t |-> t, freed |-> b]

EraseBucket(t, b) ==
  IF HashMain(t, b) # b THEN Unlink(t, HashMain(t, b), b)
  ELSE IF t.pairs[b].bucket # b THEN Pulled(t, b)
  ELSE [t |-> t, freed |-> b]
=============================================================================
