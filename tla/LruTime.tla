------------------------------ MODULE LruTime ------------------------------
(***************************************************************************)
(* emlru_time::lru_cache (include/emhash/lru_time.hpp), two caches at once *)
(* as in HashTable5.  Every entry has a deadline, and now is the clock.    *)
(* Past its deadline an entry stays in its bucket, but no search finds it, *)
(* until an insertion takes its bucket over, a rehash leaves it behind, or *)
(* clear_timeout sweeps it.  A rehash keeps no more than max elements.     *)
(*                                                                         *)
(* Three calls break the cache, and Careful keeps callers from them:       *)
(*   - clear_timeout clears the bucket it meets, not the one erase_bucket  *)
(*     tells it to, so that it drops what was pulled into that bucket;     *)
(*   - insert_unique of a key that contains() does not find, but that      *)
(*     an expired entry still holds, stores it twice;                      *)
(*   - check_timeout clears a bucket and links nothing.                    *)
(***************************************************************************)
EXTENDS LruTable

CONSTANTS
  DefaultLoad,  \* 0.8, in 1/1000
  TimeOut,      \* the timeout the caches are made with
  TimeOuts,     \* the timeouts of single insertions
  MaxNow,       \* the bound on the clock
  Careful       \* callers stay off the calls that break the cache

ASSUME DefaultLoadAssumption == DefaultLoad \in 201 .. 949
ASSUME TimeOutAssumption == TimeOut \in Nat /\ TimeOuts \subseteq Nat

VARIABLES t, rhs, ret, now

vars == <<t, rhs, ret, now>>

-----------------------------------------------------------------------------
(* Searching.                                                              *)

IsTimeout(m, b) == Stamp(m, b) < now

\* find_filled_bucket, and so find, contains, count and at.
FindLive(m, k) ==
  LET b == Find(m, k) IN IF b = m.size \/ IsTimeout(m, b) THEN m.size ELSE b

Live(m) == { b \in Filled(m) : ~ IsTimeout(m, b) }

-----------------------------------------------------------------------------
(* Growing.                                                                *)

EmptyTable(size, mlf, max) ==
  [size |-> size, filled |-> 0, mlf |-> mlf, hint |-> 0, pairs |-> Fresh(size),
   stuck |-> FALSE, max |-> max]

\* Mutant: the bound counts the element to come.
PutLiveFewer(m, k, v) ==
  IF v.stamp > now /\ m.filled + 1 < m.max THEN FindUniqueBucket(m, k, v) ELSE m

\* What is expired, or at its deadline, and what is beyond max, is left behind.
PutLive(m, k, v) ==
  IF v.stamp > now /\ m.filled < m.max THEN FindUniqueBucket(m, k, v) ELSE m

LeastOf(a, b) == IF a < b THEN a ELSE b

Rehashed(m, n) ==
  Up(EmptyTable(BucketsFor(LeastOf(n, 2 * m.max)), m.mlf, m.max), m, PutLive)

\* Mutant: no bucket more than the load factor asks for.
ReservedTight(m, n) ==
  IF RequiredBuckets(m, n) < m.size - 1 THEN m ELSE Rehashed(m, RequiredBuckets(m, n))

Reserved(m, n) ==
  IF RequiredBuckets(m, n) < m.size - 1 THEN m ELSE Rehashed(m, RequiredBuckets(m, n) + 2)

Expanded(m) == Reserved(m, m.filled)

-----------------------------------------------------------------------------
(* Inserting.                                                              *)

\* The buckets of the chain that starts at the main bucket of k.
Chain(m, k) == IF Main(m, k) \in Empty(m) THEN {} ELSE Walk(m, Main(m, k))

\* The number of steps from the head of the chain of k to bucket b.
Depth(m, k, b) ==
  LET hop[i \in 0 .. m.size] == IF i = 0 THEN Main(m, k) ELSE m.pairs[hop[i - 1]].bucket
  IN  Lowest({ i \in 0 .. m.size : hop[i] = b })

\* The first expired entry of a chain that starts at its own main bucket.
TimeBuckets(m, k) ==
  LET expired == { b \in Chain(m, k) : IsTimeout(m, b) }
  IN  IF Main(m, k) \in Filled(m) /\ HashMain(m, Main(m, k)) # Main(m, k) THEN {}
      ELSE { b \in expired : \A c \in expired : Depth(m, k, b) =< Depth(m, k, c) }

Entry(v, timeout) == [value |-> v, stamp |-> now + timeout]

\* Mutant: the entry that takes over a bucket inherits its deadline.
TakenOverLate(m, b, k, v, timeout) ==
  [m EXCEPT !.pairs[b].first = k, !.pairs[b].second.value = v]

TakenOver(m, b, k, v, timeout) ==
  [m EXCEPT !.pairs[b].first = k, !.pairs[b].second = Entry(v, timeout)]

\* Mutant: an expired entry is taken over before the rest of the chain is
\* searched for the key.
StoredHasty(m, k, v, timeout) ==
  LET b == Find(m, k)
      old == TimeBuckets(m, k)
  IN  IF old # {} THEN TakenOver(m, CHOOSE c \in old : TRUE, k, v, timeout)
      ELSE IF b # m.size THEN Stamped(m, b, now + timeout)
      ELSE FindUniqueBucket(m, k, Entry(v, TimeOut))

\* find_or_allocate, and insert with it: a live hit keeps its value, and an
\* entry that is new gets the timeout of the cache.
Stored(m, k, v, timeout) ==
  LET b == Find(m, k)
      old == TimeBuckets(m, k)
  IN  IF b # m.size /\ ~ IsTimeout(m, b) THEN Stamped(m, b, now + timeout)
      ELSE IF b # m.size THEN TakenOver(m, b, k, v, timeout)
      ELSE IF old # {} THEN TakenOver(m, CHOOSE c \in old : TRUE, k, v, timeout)
      ELSE FindUniqueBucket(m, k, Entry(v, TimeOut))

Becomes(m, told) == t' = m /\ ret' = told /\ UNCHANGED <<rhs, now>>

\* insert, insert_or_assign and operator[].
Insert(k, v, timeout) ==
  LET g == Expanded(t)
  IN  IF g.stuck THEN Becomes(g, <<"void">>)
      ELSE Becomes(Stored(g, k, v, timeout),
                   IF FindLive(g, k) = g.size THEN <<"new", k>> ELSE <<"held", k>>)

\* The caller promises that contains(k) is false.
Unique(k, v) ==
  /\ IF Careful THEN k \notin Keys(t) ELSE FindLive(t, k) = t.size
  /\ Becomes(IF Expanded(t).stuck THEN Expanded(t)
             ELSE FindUniqueBucket(Expanded(t), k, Entry(v, TimeOut)), <<"new", k>>)

-----------------------------------------------------------------------------
(* Removing.                                                               *)

ClearBucket(e) == Cleared(e.t, e.freed)

Erase(k) ==
  IF Find(t, k) = t.size THEN Becomes(t, <<"none", k>>)
  ELSE Becomes(ClearBucket(EraseKey(t, k)), <<"one", k>>)

\* erase of an iterator
EraseAt(b) == Becomes(ClearBucket(EraseBucket(t, b)), <<"one", t.pairs[b].first>>)

Expired(m) == Filled(m) \ Live(m)
Followed(m, b) == HashMain(m, b) = b /\ m.pairs[b].bucket # b

\* One bucket after the other; what erase_bucket returns is not looked at.
Swept(m) ==
  LET f[i \in 0 .. m.size] ==
        IF i = 0 THEN m
        ELSE IF i - 1 \in Expired(f[i - 1])
        THEN Cleared(EraseBucket(f[i - 1], i - 1).t, i - 1)
        ELSE f[i - 1]
  IN  f[m.size]

\* A careful caller sweeps when no expired entry is the head of a longer chain.
ClearTimeout ==
  /\ IF Careful THEN \A b \in Expired(t) : ~ Followed(t, b) ELSE TRUE
  /\ Becomes(Swept(t), <<"void">>)

\* check_timeout: what is expired, or at its main bucket.
CheckTimeout(b) ==
  LET hit == IsTimeout(t, b) \/ HashMain(t, b) = b
  IN  /\ IF Careful THEN HashMain(t, b) = b /\ ~ Followed(t, b) /\ IsTimeout(t, b) ELSE TRUE
      /\ Becomes(IF hit THEN Cleared(t, b) ELSE t, <<"void">>)

Cleaned(m) == [m EXCEPT !.pairs = Fresh(m.size), !.filled = 0]

-----------------------------------------------------------------------------
(* The other calls, and the clock.                                         *)

MaxLoadFactor(lf) ==
  Becomes(IF lf > 200 /\ lf < 950 THEN [t EXCEPT !.mlf = (FixedOne * 1000) \div lf] ELSE t, <<"void">>)

NewCache(n, max) ==
  LET mlf == (FixedOne * 1000) \div DefaultLoad
      required == (n * mlf) \div FixedOne + 2
  IN  EmptyTable(BucketsFor(LeastOf(required, 2 * max)), mlf, max)

Init ==
  /\ \E n \in Requests, max \in MaxBuckets : t = NewCache(n, max)
  /\ rhs = NewCache(1, 1)
  /\ ret = <<"void">> /\ now = 0

Tick == now < MaxNow /\ now' = now + 1 /\ ret' = <<"void">> /\ UNCHANGED <<t, rhs>>

One ==
  \/ \E k \in Key, v \in Value : Unique(k, v) \/ \E timeout \in TimeOuts : Insert(k, v, timeout)
  \/ \E k \in Key : Erase(k)
  \/ ClearTimeout
  \/ \E b \in Filled(t) : CheckTimeout(b) \/ EraseAt(b)
  \/ \E n \in Requests : Becomes(Reserved(t, n), <<"void">>)
  \/ \E lf \in LoadFactors : MaxLoadFactor(lf)
  \/ Becomes(Rehashed(t, t.filled), <<"void">>)   \* shrink_to_fit
  \/ Becomes(Cleaned(t), <<"void">>)
  \/ Tick

\* clone, with the hint only as plain memory.
Cloned(m) == [m EXCEPT !.hint = IF Plain THEN @ ELSE 0]

\* The bound of the model: PairMax elements in both caches together.
Two ==
  /\ t.filled + rhs.filled =< PairMax
  /\ UNCHANGED now
  /\ \/ t' = Cloned(rhs) /\ UNCHANGED rhs
     \/ t' = rhs /\ rhs' = NewCache(1, 1)
     \/ t' = rhs /\ rhs' = Cleaned(t)
     \/ t' = rhs /\ rhs' = t
  /\ ret' = <<"void">>

Next == ~ t.stuck /\ ~ rhs.stuck /\ (One \/ Two)

Spec == Init /\ [][Next]_vars

-----------------------------------------------------------------------------
(* Properties.                                                             *)

\* Through rehashes that leave elements behind, entries taken over by another
\* key, elements kicked out of their buckets and pulled into others, the
\* links of either cache stay sound chains, the counter that decides when to
\* grow counts the elements, expired ones too, and no key is stored twice.
TablesSound == \A m \in {t, rhs} : SoundChains(m) /\ SoundCount(m)

\* No probe for an empty bucket starts in a full table, where it would never
\* end: a rehash that is capped at twice max leaves enough elements behind.
ProbeHasRoom == ~ t.stuck /\ ~ rhs.stuck

\* An insertion loses no entry before its deadline while the cache holds no
\* more than max elements.
KeepsFresh ==
  [][ \A k \in Keys(t) \ Keys(t') :
        StampOf(t, k) > now /\ t.filled =< t.max =>
          ~ \E i \in Key, v \in Value, x \in TimeOuts : Insert(i, v, x) ]_vars

\* What a search finds in a cache: an entry past its deadline is not found.
Contents(m) ==
  [k \in Key |-> IF FindLive(m, k) = m.size THEN NoValue ELSE ValueOf(m, k)]

\* The abstract caches, and that this one implements them: what a search
\* finds is what was stored last, and insert and erase return what they did.
Abstract == INSTANCE CacheSpec WITH map <- Contents(t), other <- Contents(rhs)
ImplementsCaches == Abstract!Spec
=============================================================================
