----------------------------- MODULE HashTable5 -----------------------------
(***************************************************************************)
(* emhash5::HashMap (include/emhash/hash_table5.hpp), two maps of the same *)
(* type at once: t is the one calls are made on, rhs the one it is copied, *)
(* moved, swapped and merged with.  A public call is one step.             *)
(*                                                                         *)
(* To the record of LinkedTable this map adds first, the bucket begin()    *)
(* searches from.  The two sentinels behind the array are never empty.     *)
(***************************************************************************)
EXTENDS LinkedTable

CONSTANTS
  Value, NoValue,
  DefaultValue,   \* ValueT(), what operator[] stores
  LoadFactors,    \* the arguments of max_load_factor, in 1/1000
  DefaultLoad,    \* EMH_DEFAULT_LOAD_FACTOR, in 1/1000
  MinLoad,        \* EMH_MIN_LOAD_FACTOR, in 1/1000
  LocalProbes,    \* max_local_probes, 10 in the code
  Batches,        \* the ranges a call may insert: sequences of keys
  Requests,       \* the arguments of reserve and rehash
  LruSet          \* EMH_LRU_SET

VARIABLES t, rhs, ret

vars == <<t, rhs, ret>>

-----------------------------------------------------------------------------
(* The probe for an empty bucket.                                          *)

\* Two buckets forward, which may be the sentinels, then both ways.
Near(m, from) ==
  <<from + 1, from + 2>> \o
  [i \in 1 .. 2 * (LocalProbes - 2) |->
     IF i % 2 = 1 THEN (from + 2 + (i + 1) \div 2) % m.size
                  ELSE (from - i \div 2) % m.size]

\* Then the roaming cursor: after turn j of the loop it is at Turned(m, j).
Turned(m, j) == IF j = 0 THEN m.hint ELSE (m.hint + j) % m.size
Slot(m, j) == Turned(m, j - 1) + 1
Medium(m, j) == (m.size \div 2 + Turned(m, j)) % m.size

FindEmptyBucket(m, from) ==
  LET near == SelectSeq(Near(m, from), LAMBDA b : b \in Empty(m))
      j == Lowest({ i \in 1 .. m.size : {Slot(m, i), Medium(m, i)} \cap Empty(m) # {} })
  IN  IF near # <<>> THEN [at |-> Head(near), hint |-> m.hint]
      ELSE IF Slot(m, j) \in Empty(m) THEN [at |-> Slot(m, j), hint |-> Slot(m, j) + 1]
      ELSE [at |-> Medium(m, j), hint |-> Medium(m, j)]

FromTail(main, tail) == tail

\* Mutant: an element that is built below it does not lower first.
NotedNot(before, after, k) == after

\* EMH_NEW and kickout_bucket keep first at or before what they fill.
Noted(before, after, k) ==
  [after EXCEPT !.first =
     Lowest({@, Find(after, k)} \cup (Filled(after) \ Filled(before)))]

\* find_unique_bucket, and what find_or_allocate does on a miss.
FindUniqueBucket(m, k, v) == Place(m, k, v, FromTail, FindEmptyBucket)

-----------------------------------------------------------------------------
(* Growing.                                                                *)

EmptyTable(size, mlf) ==
  [size |-> size, filled |-> 0, mlf |-> mlf, hint |-> size \div 4, first |-> 0,
   pairs |-> Fresh(size), stuck |-> FALSE]

Rehashed(m, n) ==
  IF n < m.filled THEN m
  ELSE Down(EmptyTable(BucketsFor(n), m.mlf), m, FindUniqueBucket)

Reserved(m, n) ==
  IF RequiredBuckets(m, n) < m.size - 1 THEN m ELSE Rehashed(m, RequiredBuckets(m, n) + 2)

-----------------------------------------------------------------------------
(* Inserting: find_or_allocate, then EMH_NEW on a miss.                    *)

\* With EMH_LRU_SET the element that is met moves one place up its chain.
Met(m, k) ==
  LET b == Find(m, k)
      up == IF LruSet /\ b # Main(m, k) THEN FindPrevBucket(m, Main(m, k), b) ELSE b
  IN  Exchange(m, up, b)

DoInsert(m, k, v) ==
  IF m.stuck THEN m
  ELSE IF k \in Keys(m) THEN Met(m, k) ELSE Noted(m, FindUniqueBucket(m, k, v), k)

DoAssign(m, k, v) ==
  IF m.stuck THEN m
  ELSE LET done == DoInsert(m, k, v)
       IN  IF k \in Keys(m) THEN [done EXCEPT !.pairs[Find(done, k)].second = v] ELSE done

Expanded(m) == Reserved(m, m.filled)

InsertUnique(m, k, v) ==
  LET g == Expanded(m) IN IF g.stuck THEN g ELSE Noted(g, FindUniqueBucket(g, k, v), k)

CheckedInsert(m, k, v) == DoInsert(Expanded(m), k, v)

\* One reserve for the whole range, and a check for every element; for an
\* initializer list only the former.
InsertRange(m, batch, v) ==
  InsertEach(Reserved(m, Len(batch) + m.filled), batch, v, CheckedInsert)
InsertList(m, batch, v) ==
  InsertEach(Reserved(m, Len(batch) + m.filled), batch, v, DoInsert)

-----------------------------------------------------------------------------
(* Removing, and iterating.                                                *)

\* erase_key, for a key that is stored.
EraseKey(m, k) ==
  LET b == Find(m, k)
  IN  IF b # Main(m, k) THEN Unlink(m, Main(m, k), b)
      ELSE IF m.pairs[b].bucket # b THEN PullNext(m, b)
      ELSE [t |-> m, freed |-> b]

\* Mutant: the bucket before the last one of a chain keeps its link.
EraseBucketDangling(m, b) ==
  IF m.pairs[b].bucket # b THEN PullNext(m, b) ELSE [t |-> m, freed |-> b]

\* erase_bucket: unless it is the last of its chain, the next one moves in.
EraseBucket(m, b) ==
  IF m.pairs[b].bucket # b THEN PullNext(m, b)
  ELSE IF HashMain(m, b) # b THEN Unlink(m, HashMain(m, b), b)
  ELSE [t |-> m, freed |-> b]

Iterator(b) == [at |-> b]

GotoNext(m, it) == Iterator(Lowest({ c \in Filled(m) \cup {m.size} : c > it.at }))

\* begin() searches from first, and stores where it ends.
Begin(m) ==
  Iterator(IF m.filled = 0 THEN m.size
           ELSE Lowest({ c \in Filled(m) \cup {m.size} : c >= m.first }))
Begun(m) == IF m.filled = 0 THEN m ELSE [m EXCEPT !.first = Begin(m).at]

\* erase(it): the map, and where the iterator goes.
EraseIterator(m, it) ==
  LET e == EraseBucket(m, it.at)
      done == Cleared(e.t, e.freed)
  IN  [t |-> done, it |-> IF e.freed = it.at THEN GotoNext(done, it) ELSE it]

EraseIf(m, gone) == EraseWalk(Begun(m), Begin(m), gone, EraseIterator, GotoNext)

Cleaned(m) ==
  [m EXCEPT !.pairs = Fresh(m.size), !.filled = 0, !.hint = m.size \div 4, !.first = m.size]

-----------------------------------------------------------------------------
(* Two maps.                                                               *)

\* The elements of m, in the order of its buckets, inserted as new ones.
Poured(into, m) == Up(into, m, InsertUnique)

\* HashMap(const HashMap&).
Copied(m) ==
  IF 1000 * m.filled > MinLoad * m.size THEN m
  ELSE Poured(EmptyTable(BucketsFor(m.filled + 2), m.mlf), m)

\* operator=(const HashMap&): a sparse source is inserted, another is cloned.
Assigned(m, from) ==
  IF 1000 * from.filled < MinLoad * from.size
  THEN Poured(EmptyTable(BucketsFor(from.filled + 2), m.mlf), from)
  ELSE from

Equal(a, b) == SameElements(a, b)

\* merge; into an empty map, the move assignment.
Merged(a, b) ==
  IF a.filled = 0 THEN [a |-> b, t |-> Cleaned(a)]
  ELSE MergeWalk(a, Begun(b), Begin(b), InsertUnique, EraseIterator, GotoNext)

-----------------------------------------------------------------------------
(* The calls.                                                              *)

Becomes(m, flag) == t' = m /\ ret' = flag /\ UNCHANGED rhs

Insert(k, v) == Becomes(CheckedInsert(t, k, v), k \notin Keys(t))
OperatorIndex(k) == Insert(k, DefaultValue)
InsertOrAssign(k, v) == Becomes(DoAssign(Expanded(t), k, v), k \notin Keys(t))
TrySet(k, v) ==
  LET b == Find(t, k)
  IN  Becomes(IF b = t.size THEN t ELSE [t EXCEPT !.pairs[b].second = v], b # t.size)

\* The caller promises that the key is new.
Unique(k, v) == k \notin Keys(t) /\ Becomes(InsertUnique(t, k, v), TRUE)

Erase(k) ==
  LET e == EraseKey(t, k)
  IN  IF Find(t, k) = t.size THEN Becomes(t, FALSE) ELSE Becomes(Cleared(e.t, e.freed), TRUE)

MaxLoadFactor(lf) ==
  Becomes(IF lf > MinLoad /\ lf =< 999 THEN [t EXCEPT !.mlf = (FixedOne * 1000) \div lf] ELSE t,
          FALSE)

ShrinkToFit ==
  Becomes(IF 4 * 1000 * t.filled < DefaultLoad * t.size THEN Rehashed(t, t.filled + 1) ELSE t,
          FALSE)

NewMap(n) == EmptyTable(BucketsFor(n), (FixedOne * 1000) \div DefaultLoad)

\* The constructors from an initializer list and from a range.
FromList(batch, v) == InsertEach(NewMap(Len(batch)), batch, v, DoInsert)
FromRange(batch, v) == InsertEach(NewMap(Len(batch) + 4), batch, v, CheckedInsert)

Init == \E n \in Requests : t = NewMap(n) /\ rhs = NewMap(2) /\ ret = FALSE

\* Calls on one map.
One ==
  \/ \E k \in Key, v \in Value : Insert(k, v) \/ InsertOrAssign(k, v) \/ TrySet(k, v) \/ Unique(k, v)
  \/ \E k \in Key : OperatorIndex(k) \/ Erase(k)
  \/ \E batch \in Batches, v \in Value :
       \/ Becomes(InsertRange(t, batch, v), FALSE) \/ Becomes(InsertList(t, batch, v), FALSE)
       \/ Becomes(FromList(batch, v), FALSE) \/ Becomes(FromRange(batch, v), FALSE)
  \/ \E n \in Requests : Becomes(Reserved(t, n), FALSE) \/ Becomes(Rehashed(t, n), FALSE)
  \/ \E lf \in LoadFactors : MaxLoadFactor(lf)
  \/ \E gone \in SUBSET Keys(t) : Becomes(EraseIf(t, gone), FALSE)
  \/ \E b \in Filled(t) : Becomes(EraseIterator(t, Iterator(b)).t, FALSE)
  \/ ShrinkToFit
  \/ Becomes(Begun(t), FALSE)
  \/ Becomes(Cleaned(t), FALSE)

\* Calls on two.
Two ==
  \/ Becomes(Copied(rhs), FALSE)
  \/ Becomes(Assigned(t, rhs), FALSE)
  \/ t' = rhs /\ rhs' = Cleaned(t) /\ ret' = FALSE
  \/ t' = rhs /\ rhs' = t /\ ret' = FALSE
  \/ LET e == Merged(t, rhs) IN t' = e.a /\ rhs' = e.t /\ ret' = FALSE
  \/ Becomes(t, Equal(t, rhs))

Next == ~ t.stuck /\ ~ rhs.stuck /\ (One \/ Two)

Spec == Init /\ [][Next]_vars
=============================================================================
