------------------------------ MODULE LruSize ------------------------------
(***************************************************************************)
(* emlru_size::lru_cache (include/emhash/lru_size.hpp), two caches at once *)
(* as in HashTable5.  Every entry has an order number, higher the later it *)
(* is made and the more often it is hit; now is the last one that was      *)
(* given out.  A cache that has twice max elements, and would have to      *)
(* grow, evicts all whose number is not above the mean, which it takes     *)
(* from the sum it keeps.                                                  *)
(*                                                                         *)
(* To the record of LinkedTable a cache adds max and sum, and wiped: its   *)
(* empty buckets hold the highest order number since a clear wiped them.   *)
(***************************************************************************)
EXTENDS LruTable

CONSTANTS
  DefaultLoad,  \* 0.85, in 1/1000
  LruGet, LruSet, \* EMHASH_LRU_GET and EMHASH_LRU_SET
  MaxOrder      \* the bound on the order numbers and on their sum

ASSUME DefaultLoadAssumption == DefaultLoad \in 201 .. 949

VARIABLES t, rhs, ret, now

vars == <<t, rhs, ret, now>>

-----------------------------------------------------------------------------
(* Order numbers.                                                          *)

\* The sum of the first n values of w.
Total(w, n) ==
  LET f[i \in 0 .. n] == IF i = 0 THEN 0 ELSE f[i - 1] + w[i - 1] IN f[n]

Orders(m) == [b \in Buckets(m) |-> IF b \in Filled(m) THEN Stamp(m, b) ELSE 0]
SumOf(m) == Total(Orders(m), m.size)

\* update_bucket_order
Reordered(m, b) == [Stamped(m, b, Stamp(m, b) + 1) EXCEPT !.sum = @ + 1]

\* A stored element that is met; with the option it moves one place up.
Met(m, k, up) ==
  LET b == Find(m, k)
      prev == FindPrevBucket(m, Main(m, k), b)
  IN  IF up /\ b # Main(m, k) THEN Reordered(Exchange(m, prev, b), prev) ELSE Reordered(m, b)

\* find_filled_bucket: up only past an element with a lower number.
Got(m, k) ==
  LET b == Find(m, k)
      hit == Reordered(m, b)
      prev == FindPrevBucket(m, Main(m, k), b)
  IN  IF b = m.size THEN m
      ELSE IF ~ LruGet \/ b = Main(m, k) THEN hit
      ELSE IF Stamp(hit, b) > Stamp(hit, prev) THEN Exchange(hit, prev, b) ELSE hit

-----------------------------------------------------------------------------
(* Removing.                                                               *)

\* Mutant: the sum loses the number of the element that moved up.
ClearBucketMoved(m, e) ==
  [Cleared(e.t, e.freed) EXCEPT !.sum = @ - Stamp(m, e.freed), !.wiped = @ \ {e.freed}]

\* clear_bucket
ClearBucket(m, e) ==
  [Cleared(e.t, e.freed) EXCEPT !.sum = @ - Stamp(e.t, e.freed), !.wiped = @ \ {e.freed}]

Erased(m, b) == ClearBucket(m, EraseBucket(m, b))

\* Mutant: an element at the mean stays, and so may all.
RemoveHalfBelow(m) ==
  LET medium == m.sum \div m.filled
      turn(x) ==
        IF x.at = m.size THEN x
        ELSE IF x.at \in Empty(x.t) THEN [x EXCEPT !.at = @ + 1]
        ELSE IF Stamp(x.t, x.at) >= medium THEN [x EXCEPT !.at = @ + 1]
        ELSE [t |-> Erased(x.t, x.at),
              at |-> IF EraseBucket(x.t, x.at).freed = x.at THEN x.at + 1 ELSE x.at]
  IN  Iterate(turn, [t |-> m, at |-> 0], m.size + m.filled).t

\* Mutant: the comparison is turned around.
RemoveHalfNewest(m) ==
  LET medium == m.sum \div m.filled
      turn(x) ==
        IF x.at = m.size THEN x
        ELSE IF x.at \in Empty(x.t) THEN [x EXCEPT !.at = @ + 1]
        ELSE IF Stamp(x.t, x.at) =< medium THEN [x EXCEPT !.at = @ + 1]
        ELSE [t |-> Erased(x.t, x.at),
              at |-> IF EraseBucket(x.t, x.at).freed = x.at THEN x.at + 1 ELSE x.at]
  IN  Iterate(turn, [t |-> m, at |-> 0], m.size + m.filled).t

\* remove_half, which looks again at a bucket that was refilled.
RemoveHalf(m) ==
  LET medium == m.sum \div m.filled
      turn(x) ==
        IF x.at = m.size THEN x
        ELSE IF x.at \in Empty(x.t) THEN [x EXCEPT !.at = @ + 1]
        ELSE IF Stamp(x.t, x.at) > medium THEN [x EXCEPT !.at = @ + 1]
        ELSE [t |-> Erased(x.t, x.at),
              at |-> IF EraseBucket(x.t, x.at).freed = x.at THEN x.at + 1 ELSE x.at]
  IN  Iterate(turn, [t |-> m, at |-> 0], m.size + m.filled).t

\* clear
Cleaned(m) ==
  [m EXCEPT !.pairs = Fresh(m.size), !.filled = 0, !.sum = 0,
            !.wiped = IF Plain THEN Buckets(m) ELSE @ \ Filled(m)]

-----------------------------------------------------------------------------
(* Growing.                                                                *)

EmptyTable(size, mlf, max) ==
  [size |-> size, filled |-> 0, mlf |-> mlf, hint |-> 0, pairs |-> Fresh(size),
   stuck |-> FALSE, sum |-> 0, max |-> max, wiped |-> {}]

Rehashed(m, n) ==
  LET g == Up(EmptyTable(BucketsFor(n), m.mlf, m.max), m, FindUniqueBucket)
  IN  IF n < m.filled THEN m ELSE [g EXCEPT !.sum = SumOf(m)]

Reserved(m, n) ==
  IF RequiredBuckets(m, n) < m.size THEN m
  ELSE IF m.filled >= m.max * 2 THEN RemoveHalf(m)
  ELSE Rehashed(m, RequiredBuckets(m, n) + 2)

Expanded(m) == Reserved(m, m.filled)

-----------------------------------------------------------------------------
(* The calls.                                                              *)

\* A new element, in a bucket that a clear may have wiped.
Placed(m, k, v, n) ==
  LET done == FindUniqueBucket(m, k, [value |-> v, stamp |-> n])
  IN  IF m.stuck \/ done.stuck THEN [m EXCEPT !.stuck = TRUE]
      ELSE [done EXCEPT !.sum = @ + n, !.wiped = @ \ Filled(done)]

\* ret is what a call tells of its key: that it is new or was held, that one or
\* none was erased.

\* The bound of the model: no order number, and no sum, is given out beyond it.
InBounds == now < MaxOrder /\ t.sum < MaxOrder

Becomes(m, told) == t' = m /\ ret' = told /\ UNCHANGED <<rhs, now>>

\* insert, insert_or_assign and operator[]: a hit keeps the value.
Insert(k, v) ==
  LET g == Expanded(t)
      hit == Find(g, k) # g.size
  IN  /\ InBounds
      /\ t' = IF hit THEN Met(g, k, LruSet) ELSE Placed(g, k, v, now + 1)
      /\ ret' = IF hit THEN <<"held", k>> ELSE <<"new", k>>
      /\ now' = IF hit THEN now ELSE now + 1
      /\ UNCHANGED rhs

\* The caller promises that the key is new.
Unique(k, v) ==
  /\ InBounds /\ Find(t, k) = t.size
  /\ t' = Placed(Expanded(t), k, v, now + 1)
  /\ ret' = <<"new", k>> /\ now' = now + 1 /\ UNCHANGED rhs

Erase(k) ==
  IF Find(t, k) = t.size THEN Becomes(t, <<"none", k>>)
  ELSE Becomes(ClearBucket(t, EraseKey(t, k)), <<"one", k>>)

\* erase of an iterator
EraseAt(b) == Becomes(Erased(t, b), <<"one", t.pairs[b].first>>)

MaxLoadFactor(lf) ==
  Becomes(IF lf > 200 /\ lf < 950 THEN [t EXCEPT !.mlf = (FixedOne * 1000) \div lf] ELSE t, <<"void">>)

\* init, and reserve in a cache that has no buckets yet.
NewCache(n, max) ==
  LET mlf == (FixedOne * 1000) \div DefaultLoad
  IN  EmptyTable(BucketsFor((n * mlf) \div FixedOne + 2), mlf, max)

Init ==
  /\ \E n \in Requests, max \in MaxBuckets : t = NewCache(n, max)
  /\ rhs = NewCache(1, 1)
  /\ ret = <<"void">> /\ now = 0

One ==
  \/ \E k \in Key, v \in Value : Insert(k, v) \/ Unique(k, v)
  \/ \E k \in Key : Erase(k) \/ (InBounds /\ Becomes(Got(t, k), <<"void">>))
  \/ \E n \in Requests : Becomes(Reserved(t, n), <<"void">>)
  \/ \E lf \in LoadFactors : MaxLoadFactor(lf)
  \/ \E b \in Filled(t) : EraseAt(b)
  \/ Becomes(Rehashed(t, t.filled), <<"void">>)   \* shrink_to_fit
  \/ Becomes(Cleaned(t), <<"void">>)

\* clone, with the hint only as plain memory.
Cloned(m) == [m EXCEPT !.hint = IF Plain THEN @ ELSE 0]

\* The bound of the model: PairMax elements in both caches together.
Two ==
  /\ t.filled + rhs.filled =< PairMax
  /\ UNCHANGED now
  /\ \/ t' = Cloned(rhs) /\ UNCHANGED rhs
     \/ t' = rhs /\ rhs' = Cleaned(NewCache(1, 1))
     \/ t' = rhs /\ rhs' = Cleaned(t)
     \/ t' = rhs /\ rhs' = t
  /\ ret' = <<"void">>

Next == ~ t.stuck /\ ~ rhs.stuck /\ (One \/ Two)

Spec == Init /\ [][Next]_vars

-----------------------------------------------------------------------------
(* Properties.                                                             *)

\* Through evictions, rehashes, elements kicked out of their buckets, pulled
\* into others and moved up in their chains, the links of either cache stay
\* sound chains, the counter that decides when to grow and when to evict
\* counts the elements, and no key is stored twice.
TablesSound == \A m \in {t, rhs} : SoundChains(m) /\ SoundCount(m)

\* No probe for an empty bucket starts in a full table, where it would never
\* end: an eviction always makes room for the insertion it is made for.
ProbeHasRoom == ~ t.stuck /\ ~ rhs.stuck

\* The sum the mean is taken from is the sum of the order numbers, although
\* clear_bucket subtracts whatever number is in the bucket that is given up,
\* and that is another bucket than the one of the erased element.
SumExact == \A m \in {t, rhs} : m.sum = SumOf(m)

\* An insertion, but for the key it inserts, evicts nothing that is as young
\* or was hit as often as what it keeps.
EvictsOldest ==
  [][ \A k \in Keys(t) \ Keys(t'), j \in Keys(t) \cap Keys(t') :
        StampOf(t, k) >= StampOf(t, j) =>
          ~ \E i \in Key \ {j}, v \in Value : Insert(i, v) ]_vars

\* What a search finds in a cache.
Contents(m) == [k \in Key |-> IF Find(m, k) = m.size THEN NoValue ELSE ValueOf(m, k)]

\* The abstract caches, and that this one implements them: what a search
\* finds is what was stored last, and insert and erase return what they did.
Abstract == INSTANCE CacheSpec WITH map <- Contents(t), other <- Contents(rhs)
ImplementsCaches == Abstract!Spec
=============================================================================
