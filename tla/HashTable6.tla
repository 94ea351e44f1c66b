----------------------------- MODULE HashTable6 -----------------------------
(***************************************************************************)
(* emhash6::HashMap (include/emhash/hash_table6.hpp), two maps at once as  *)
(* in HashTable5.  The link field holds twice the next bucket, plus one in *)
(* a bucket whose element is not at its main bucket: odd is the set of the *)
(* buckets with that flag.  The map trusts the flag where the other tables *)
(* hash the key again, so every step has to keep it true.  The bit of a    *)
(* bucket and its link are always written together.                        *)
(***************************************************************************)
EXTENDS WordIterator

CONSTANTS
  Value, NoValue,
  DefaultValue,   \* ValueT(), what operator[] stores
  LoadFactors,    \* the arguments of max_load_factor, in 1/1000
  DefaultLoad,    \* EMH_DEFAULT_LOAD_FACTOR, in 1/1000
  MinLoad,        \* EMH_MIN_LOAD_FACTOR, in 1/1000
  Batches,        \* the ranges a call may insert: sequences of keys
  Requests,       \* the arguments of reserve and rehash
  LruSet,         \* EMH_LRU_SET
  PlainKey        \* integral keys, and entries that memcpy may copy

VARIABLES t, rhs, ret

vars == <<t, rhs, ret>>

-----------------------------------------------------------------------------
(* Searching, and the probe for an empty bucket.                           *)

FindFilledHash(m, k) == IF Main(m, k) \in m.odd THEN m.size ELSE Find(m, k)

FindEmptyBucket(m, from) == MirroredProbe(m, from)

FromMain(main, tail) == main
FromTail(main, tail) == tail

\* Mutant: kickout_bucket lets the guest keep its flag but not the new bucket.
FlaggedLate(before, after, k) ==
  [after EXCEPT !.odd = before.odd \ {Main(after, k)}]

\* The flags a placement leaves: what it fills is odd, but for the main bucket.
Flagged(before, after, k) ==
  [after EXCEPT !.odd =
     (before.odd \cup (Filled(after) \ Filled(before))) \ {Main(after, k)}]

\* By the flag of the main bucket, not by the hash of what it holds.
Put(m, k, v, From(_, _)) ==
  LET b == Main(m, k)
      tail == FindLastBucket(m, b)
      free == Kickout(m, HashMain(m, b), b, FindEmptyBucket)
      done == IF b \in Empty(m) THEN New(m, b, k, v, b)
              ELSE IF b \notin m.odd THEN LinkNew(m, k, v, From(b, tail), tail, FindEmptyBucket)
              ELSE IF free.stuck THEN free ELSE New(free, b, k, v, b)
  IN  Flagged(m, done, k)

\* find_unique_bucket probes from the tail, a miss of find_or_allocate from
\* the main bucket.
FindUniqueBucket(m, k, v) == Put(m, k, v, FromTail)
FindNewBucket(m, k, v) == Put(m, k, v, FromMain)

-----------------------------------------------------------------------------
(* Growing.                                                                *)

EmptyTable(size, mlf) ==
  [size |-> size, filled |-> 0, mlf |-> mlf, hint |-> 0, odd |-> {},
   pairs |-> Fresh(size), stuck |-> FALSE]

Rehashed(m, n) ==
  IF n < m.filled THEN m
  ELSE Down(EmptyTable(BucketsFor(n), m.mlf), m, FindUniqueBucket)

Reserved(m, n) ==
  LET required == RequiredBuckets(m, n) + 1
  IN  IF required =< m.size - 1 THEN m ELSE Rehashed(m, required + 1)

-----------------------------------------------------------------------------
(* Inserting.                                                              *)

\* With EMH_LRU_SET the element that is met changes places with the head.
Met(m, k) == IF LruSet THEN Exchange(m, Main(m, k), Find(m, k)) ELSE m

DoInsert(m, k, v) ==
  IF m.stuck THEN m
  ELSE IF FindFilledHash(m, k) # m.size THEN Met(m, k) ELSE FindNewBucket(m, k, v)

DoAssign(m, k, v) ==
  LET done == DoInsert(m, k, v)
  IN  IF done.stuck THEN done ELSE [done EXCEPT !.pairs[Find(done, k)].second = v]

Expanded(m) == Reserved(m, m.filled)
CheckedInsert(m, k, v) == DoInsert(Expanded(m), k, v)

InsertUnique(m, k, v) ==
  LET g == Expanded(m) IN IF g.stuck THEN g ELSE FindUniqueBucket(g, k, v)

\* insert of a list or a range: one reserve, no check for the elements.
InsertRange(m, batch, v) ==
  InsertEach(Reserved(m, Len(batch) + m.filled), batch, v, DoInsert)

-----------------------------------------------------------------------------
(* Removing, and iterating.                                                *)

\* Bucket freed is given up; its predecessor is odd unless it is the head.
UnlinkFlagged(m, main, b) ==
  LET e == Unlink(m, main, b)
      prev == FindPrevBucket(m, main, b)
  IN  [e EXCEPT !.t.odd = IF prev = main THEN @ \ {prev} ELSE @ \cup {prev}]

ClearBucket(e) == [Cleared(e.t, e.freed) EXCEPT !.odd = @ \ {e.freed}]

\* erase_key of a stored key, when keys are integral.
EraseKeyPlain(m, k) ==
  LET b == Find(m, k)
  IN  IF b # Main(m, k) THEN UnlinkFlagged(m, Main(m, k), b)
      ELSE IF m.pairs[b].bucket # b THEN PullNext(m, b)
      ELSE [t |-> m, freed |-> b]

\* When they are not, its element changes places with the last of the chain.
EraseKeySwap(m, k) ==
  LET b == Find(m, k)
      tail == FindLastBucket(m, b)
  IN  IF tail = Main(m, k) THEN [t |-> m, freed |-> b]
      ELSE UnlinkFlagged(Exchange(m, b, tail), Main(m, k), tail)

EraseKey(m, k) == IF PlainKey THEN EraseKeyPlain(m, k) ELSE EraseKeySwap(m, k)

\* erase_bucket, by the flag and the link of the bucket.
EraseBucket(m, b) ==
  IF b \in m.odd THEN UnlinkFlagged(m, HashMain(m, b), b)
  ELSE IF m.pairs[b].bucket # b THEN PullNext(m, b)
  ELSE [t |-> m, freed |-> b]

\* clear: a bucket that was given up leaves the copy the iterator walks.
Struck(it, freed) == [it EXCEPT !.bits = @ \ {freed}]

EraseIterator(m, it) ==
  LET e == EraseBucket(m, it.at)
      done == ClearBucket(e)
  IN  [t |-> done, it |-> IF e.freed = it.at THEN Advance(done, it) ELSE Struck(it, e.freed)]

EraseIf(m, gone) == EraseWalk(m, Begin(m), gone, EraseIterator, Advance)

Cleaned(m) == [m EXCEPT !.pairs = Fresh(m.size), !.filled = 0, !.odd = {}]

-----------------------------------------------------------------------------
(* Two maps.                                                               *)

\* clone writes the hint, kept behind the array, only with memcpy.
Clone(m) == IF PlainKey THEN m ELSE [m EXCEPT !.hint = 0]

Poured(into, m) == Up(into, m, InsertUnique)

Copied(m) ==
  IF 1000 * m.filled > MinLoad * m.size THEN Clone(m)
  ELSE Poured(EmptyTable(BucketsFor(m.filled + 2), m.mlf), m)

Assigned(m, from) ==
  IF 1000 * from.filled < MinLoad * from.size
  THEN Poured(EmptyTable(BucketsFor(from.filled + 2), m.mlf), from)
  ELSE Clone(from)

Equal(a, b) == SameElements(a, b)

Merged(a, b) ==
  IF a.filled = 0 THEN [a |-> b, t |-> Cleaned(a)]
  ELSE MergeWalk(a, b, Begin(b), InsertUnique, EraseIterator, Advance)

-----------------------------------------------------------------------------
(* The calls.                                                              *)

Becomes(m, flag) == t' = m /\ ret' = flag /\ UNCHANGED rhs

Absent(k) == FindFilledHash(t, k) = t.size

Insert(k, v) == Becomes(CheckedInsert(t, k, v), Absent(k))
OperatorIndex(k) == Insert(k, DefaultValue)
InsertOrAssign(k, v) == Becomes(DoAssign(Expanded(t), k, v), Absent(k))

\* The caller promises that the key is new.
Unique(k, v) == Absent(k) /\ Becomes(InsertUnique(t, k, v), TRUE)

Erase(k) ==
  IF Absent(k) THEN Becomes(t, FALSE) ELSE Becomes(ClearBucket(EraseKey(t, k)), TRUE)

MaxLoadFactor(lf) ==
  Becomes(IF lf > MinLoad /\ lf =< 999 THEN [t EXCEPT !.mlf = (FixedOne * 1000) \div lf] ELSE t,
          FALSE)

NewMap(n) == EmptyTable(BucketsFor(n), (FixedOne * 1000) \div DefaultLoad)

FromList(batch, v) == InsertEach(NewMap(Len(batch)), batch, v, DoInsert)
FromRange(batch, v) == InsertEach(NewMap(Len(batch) + 4), batch, v, CheckedInsert)

Init == \E n \in Requests : t = NewMap(n) /\ rhs = NewMap(4) /\ ret = FALSE

\* Calls on one map.
One ==
  \/ \E k \in Key, v \in Value : Insert(k, v) \/ InsertOrAssign(k, v) \/ Unique(k, v)
  \/ \E k \in Key : OperatorIndex(k) \/ Erase(k)
  \/ \E batch \in Batches, v \in Value :
       \/ Becomes(InsertRange(t, batch, v), FALSE)
       \/ Becomes(FromList(batch, v), FALSE) \/ Becomes(FromRange(batch, v), FALSE)
  \/ \E n \in Requests : Becomes(Reserved(t, n), FALSE) \/ Becomes(Rehashed(t, n), FALSE)
  \/ \E lf \in LoadFactors : MaxLoadFactor(lf)
  \/ \E gone \in SUBSET Keys(t) : Becomes(EraseIf(t, gone), FALSE)
  \/ \E b \in Filled(t) : Becomes(EraseIterator(t, InitIterator(t, b)).t, FALSE)
  \/ Becomes(Rehashed(t, t.filled + 1), FALSE)   \* shrink_to_fit
  \/ Becomes(Cleaned(t), FALSE)

\* Calls on two: the constructor that moves leaves a new map of four buckets.
Two ==
  \/ Becomes(Copied(rhs), FALSE)
  \/ Becomes(Assigned(t, rhs), FALSE)
  \/ t' = rhs /\ rhs' = NewMap(4) /\ ret' = FALSE
  \/ t' = rhs /\ rhs' = Cleaned(t) /\ ret' = FALSE
  \/ t' = rhs /\ rhs' = t /\ ret' = FALSE
  \/ LET e == Merged(t, rhs) IN t' = e.a /\ rhs' = e.t /\ ret' = FALSE
  \/ Becomes(t, Equal(t, rhs))

Next == ~ t.stuck /\ ~ rhs.stuck /\ (One \/ Two)

Spec == Init /\ [][Next]_vars
=============================================================================
