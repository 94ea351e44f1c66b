--------------------------- MODULE HashTable7Pair ---------------------------
(***************************************************************************)
(* emhash7::HashMap, two maps at once as in HashTable5: the calls of       *)
(* HashTable7 as single steps, as far as they make the tables that meet    *)
(* here, and the calls that take two maps, which HashTable7 leaves out.    *)
(***************************************************************************)
EXTENDS WordIterator

CONSTANTS
  Value, NoValue,
  LoadFactors,    \* the arguments of max_load_factor, in 1/1000
  DefaultLoad,    \* EMH_DEFAULT_LOAD_FACTOR, in 1/1000
  MinLoad,        \* EMH_MIN_LOAD_FACTOR, in 1/1000
  Batches,        \* the ranges a call may insert: sequences of keys
  Requests,       \* the arguments of reserve
  LruSet,         \* EMH_LRU_SET
  Plain           \* elements that memcpy may copy

VARIABLES t, rhs, ret

vars == <<t, rhs, ret>>

-----------------------------------------------------------------------------
(* Growing and inserting.                                                  *)

FromTail(main, tail) == tail

FindUniqueBucket(m, k, v) == Place(m, k, v, FromTail, MirroredProbe)

EmptyTable(size, mlf) ==
  [size |-> size, filled |-> 0, mlf |-> mlf, hint |-> 0, pairs |-> Fresh(size), stuck |-> FALSE]

Rehashed(m, n) ==
  IF n < m.filled THEN m
  ELSE Down(EmptyTable(BucketsFor(n), m.mlf), m, FindUniqueBucket)

Reserved(m, n) ==
  IF RequiredBuckets(m, n) < m.size THEN m ELSE Rehashed(m, RequiredBuckets(m, n) + 2)

Expanded(m) == Reserved(m, m.filled)

\* With EMH_LRU_SET the element that is met moves one place up its chain.
Met(m, k) ==
  LET b == Find(m, k)
      up == IF LruSet /\ b # Main(m, k) THEN FindPrevBucket(m, Main(m, k), b) ELSE b
  IN  Exchange(m, up, b)

DoInsert(m, k, v) ==
  IF m.stuck THEN m ELSE IF k \in Keys(m) THEN Met(m, k) ELSE FindUniqueBucket(m, k, v)

CheckedInsert(m, k, v) == DoInsert(Expanded(m), k, v)

InsertUnique(m, k, v) ==
  LET g == Expanded(m) IN IF g.stuck THEN g ELSE FindUniqueBucket(g, k, v)

InsertRange(m, batch, v) ==
  InsertEach(Reserved(m, Len(batch) + m.filled), batch, v, DoInsert)

-----------------------------------------------------------------------------
(* Removing.                                                               *)

\* erase_key, for a key that is stored.
EraseKey(m, k) ==
  LET b == Find(m, k)
  IN  IF b # Main(m, k) THEN Unlink(m, Main(m, k), b)
      ELSE IF m.pairs[b].bucket # b THEN PullNext(m, b)
      ELSE [t |-> m, freed |-> b]

EraseBucket(m, b) ==
  IF HashMain(m, b) # b THEN Unlink(m, HashMain(m, b), b)
  ELSE IF m.pairs[b].bucket # b THEN PullNext(m, b)
  ELSE [t |-> m, freed |-> b]

\* iterator::clear: only a bucket of the word it walks.
Struck(it, freed) == [it EXCEPT !.bits = @ \ {freed}]

EraseIterator(m, it) ==
  LET e == EraseBucket(m, it.at)
      done == Cleared(e.t, e.freed)
  IN  [t |-> done, it |-> IF e.freed = it.at THEN Advance(done, it) ELSE Struck(it, e.freed)]

\* The hint stays where it is.
Cleaned(m) == [m EXCEPT !.pairs = Fresh(m.size), !.filled = 0]

-----------------------------------------------------------------------------
(* Two maps.                                                               *)

\* clone copies the hint, which is kept behind the array, only with memcpy.
Clone(m) == IF Plain THEN m ELSE [m EXCEPT !.hint = 0]

Poured(into, m) == Up(into, m, InsertUnique)

\* HashMap(const HashMap&): a sparse map is inserted, another is cloned.
Copied(m) ==
  IF 1000 * m.filled > MinLoad * m.size THEN Clone(m)
  ELSE Poured(EmptyTable(BucketsFor(m.filled + 2), m.mlf), m)

\* operator=(const HashMap&), which keeps its own load factor for the former.
Assigned(m, from) ==
  IF 1000 * from.filled < MinLoad * from.size
  THEN Poured(EmptyTable(BucketsFor(from.filled + 2), m.mlf), from)
  ELSE Clone(from)

Equal(a, b) == SameElements(a, b)

\* merge; into an empty map, the move assignment.
Merged(a, b) ==
  IF a.filled = 0 THEN [a |-> b, t |-> Cleaned(a)]
  ELSE MergeWalk(a, b, Begin(b), InsertUnique, EraseIterator, Advance)

-----------------------------------------------------------------------------
(* The calls.                                                              *)

Becomes(m, flag) == t' = m /\ ret' = flag /\ UNCHANGED rhs

Insert(k, v) == Becomes(CheckedInsert(t, k, v), k \notin Keys(t))

Erase(k) ==
  LET e == EraseKey(t, k)
  IN  IF Find(t, k) = t.size THEN Becomes(t, FALSE) ELSE Becomes(Cleared(e.t, e.freed), TRUE)

MaxLoadFactor(lf) ==
  Becomes(IF lf > MinLoad /\ lf =< 999 THEN [t EXCEPT !.mlf = (FixedOne * 1000) \div lf] ELSE t,
          FALSE)

NewMap(n) == EmptyTable(BucketsFor(n), (FixedOne * 1000) \div DefaultLoad)

Init == \E n \in Requests : t = NewMap(n) /\ rhs = NewMap(2) /\ ret = FALSE

\* Calls on one map.
One ==
  \/ \E k \in Key : Erase(k) \/ \E v \in Value : Insert(k, v)
  \/ \E batch \in Batches, v \in Value : Becomes(InsertRange(t, batch, v), FALSE)
  \/ \E n \in Requests : Becomes(Reserved(t, n), FALSE)
  \/ \E lf \in LoadFactors : MaxLoadFactor(lf)
  \/ \E b \in Filled(t) : Becomes(EraseIterator(t, InitIterator(t, b)).t, FALSE)
  \/ Becomes(Rehashed(t, t.filled + 1), FALSE)   \* shrink_to_fit
  \/ Becomes(Cleaned(t), FALSE)

\* Calls on two: the constructor that moves leaves a new map of four buckets.
Two ==
  \/ Becomes(Copied(rhs), FALSE)
  \/ Becomes(Assigned(t, rhs), FALSE)
  \/ t' = rhs /\ rhs' = NewMap(4) /\ ret' = FALSE
  \/ t' = rhs /\ rhs' = Cleaned(t) /\ ret' = FALSE
  \/ t' = rhs /\ rhs' = t /\ ret' = FALSE
  \/ LET e == Merged(t, rhs) IN t' = e.a /\ rhs' = e.t /\ ret' = FALSE
  \/ Becomes(t, Equal(t, rhs))

Next == ~ t.stuck /\ ~ rhs.stuck /\ (One \/ Two)

Spec == Init /\ [][Next]_vars
=============================================================================
