------------------------------ MODULE HashSet2 ------------------------------
(***************************************************************************)
(* emhash2::HashSet (include/emhash/hash_set2.hpp), two sets at once as in *)
(* HashTable5.  A set is a map with the one value in Value.  Its hint is   *)
(* _last_colls, and the two sentinels behind the array are never empty.    *)
(***************************************************************************)
EXTENDS LinkedTable

CONSTANTS
  Value, NoValue,
  LoadFactors,       \* the arguments of max_load_factor, in 1/1000
  DefaultLoad,       \* default_load_factor, in 1/1000
  LinearProbeLength, \* what fits two cache lines, 18 for 8-byte entries
  SlotSteps,         \* turns of the last loop without the hint, 4 in the code
  SmallSet,          \* the 16 of reserve
  Batches, Requests, \* the ranges a call may insert, the arguments of reserve
  LruSet             \* EMH_LRU_SET

VARIABLES t, rhs, ret

vars == <<t, rhs, ret>>

-----------------------------------------------------------------------------
(* The probe for an empty bucket.                                          *)

\* Linear probing that wraps after its first bucket.
Linear(m, from) ==
  [i \in 1 .. LinearProbeLength |->
     [at |-> IF i = 1 THEN from + 1 ELSE (from + i) % m.size, hint |-> m.hint]]

\* Turn j of the last loop: two slots, and then two at the hint and two that
\* mirror it from the end.
Places(m, j) ==
  LET slot == (2 * LinearProbeLength + 2 * (j - 1)) % m.size
      i == j - SlotSteps
      c == IF i =< 1 THEN m.hint ELSE (m.hint + i - 1) % m.size
      d == (c + 1) % m.size
  IN  <<[at |-> slot, hint |-> c], [at |-> slot + 1, hint |-> c]>> \o
      IF i < 1 THEN <<>>
      ELSE <<[at |-> c, hint |-> c + 1], [at |-> c + 1, hint |-> c + 2],
             [at |-> m.size - d, hint |-> d], [at |-> m.size - d - 1, hint |-> d]>>

FindEmptyBucket(m, from) ==
  LET j == Lowest({ i \in 1 .. m.size + SlotSteps : SomeEmpty(m, Places(m, i)) })
  IN  FirstEmpty(m, IF SomeEmpty(m, Linear(m, from)) THEN Linear(m, from) ELSE Places(m, j))

FromTail(main, tail) == tail

FindUniqueBucket(m, k, v) == Place(m, k, v, FromTail, FindEmptyBucket)

-----------------------------------------------------------------------------
(* Growing.                                                                *)

EmptyTable(size, mlf) ==
  [size |-> size, filled |-> 0, mlf |-> mlf, hint |-> size - 1,
   pairs |-> Fresh(size), stuck |-> FALSE]

\* A rehash to the same size does nothing.
Rehashed(m, n) ==
  IF n < m.filled \/ BucketsFor(n) = m.size THEN m
  ELSE Up(EmptyTable(BucketsFor(n), m.mlf), m, FindUniqueBucket)

\* A small set fills up before it grows.
Reserved(m, n) ==
  IF RequiredBuckets(m, n) < m.size \/ (m.filled < SmallSet /\ m.filled < m.size)
  THEN m ELSE Rehashed(m, RequiredBuckets(m, n) + 2)

Expanded(m) == Reserved(m, m.filled)

-----------------------------------------------------------------------------
(* Inserting.                                                              *)

\* With EMH_LRU_SET the element that is met changes places with the head.
FindOrAllocate(m, k, v) ==
  IF m.stuck THEN m
  ELSE IF Find(m, k) = m.size THEN FindUniqueBucket(m, k, v)
  ELSE IF LruSet THEN Exchange(m, Main(m, k), Find(m, k)) ELSE m

CheckedInsert(m, k, v) == FindOrAllocate(Expanded(m), k, v)

InsertUnique(m, k, v) ==
  LET g == Expanded(m) IN IF g.stuck THEN g ELSE FindUniqueBucket(g, k, v)

\* insert_unique of a range the set holds nothing of.
InsertNewRange(m, batch, v) ==
  InsertEach(Reserved(m, Len(batch) + m.filled), batch, v, InsertUnique)

-----------------------------------------------------------------------------
(* Removing, and iterating.                                                *)

\* erase_key, for a key that is stored.
EraseKey(m, k) ==
  LET b == Find(m, k)
  IN  IF b # Main(m, k) THEN Unlink(m, Main(m, k), b)
      ELSE IF m.pairs[b].bucket # b THEN PullNext(m, b)
      ELSE [t |-> m, freed |-> b]

\* erase_bucket: the head of a chain takes the next one, another is unlinked.
EraseBucket(m, b) ==
  IF HashMain(m, b) # b THEN Unlink(m, HashMain(m, b), b)
  ELSE IF m.pairs[b].bucket # b THEN PullNext(m, b)
  ELSE [t |-> m, freed |-> b]

Iterator(b) == [at |-> b]

GotoNext(m, it) == Iterator(Lowest({ c \in Filled(m) \cup {m.size} : c > it.at }))

Begin(m) == Iterator(Lowest(Filled(m) \cup {m.size}))

\* erase(it) ends the walk of a set it leaves empty.
EraseIterator(m, it) ==
  LET e == EraseBucket(m, it.at)
      done == Cleared(e.t, e.freed)
  IN  [t |-> done,
       it |-> IF done.filled = 0 THEN Iterator(m.size)
              ELSE IF e.freed = it.at THEN GotoNext(done, it) ELSE it]

EraseIf(m, gone) == EraseWalk(m, Begin(m), gone, EraseIterator, GotoNext)

Cleaned(m) == [m EXCEPT !.pairs = Fresh(m.size), !.filled = 0, !.hint = m.size - 1]

-----------------------------------------------------------------------------
(* Two sets, and the calls.                                                *)

Equal(a, b) == SameElements(a, b)

\* Mutant: the other set is left empty, though both sets held some of it.
MergedAway(a, b) ==
  IF a.filled = 0 THEN [a |-> b, t |-> Cleaned(a)]
  ELSE [a |-> MergeWalk(a, b, Begin(b), InsertUnique, EraseIterator, GotoNext).a, t |-> Cleaned(b)]

Merged(a, b) ==
  IF a.filled = 0 THEN [a |-> b, t |-> Cleaned(a)]
  ELSE MergeWalk(a, b, Begin(b), InsertUnique, EraseIterator, GotoNext)

Becomes(m, flag) == t' = m /\ ret' = flag /\ UNCHANGED rhs

Absent(k) == Find(t, k) = t.size

Insert(k, v) == Becomes(CheckedInsert(t, k, v), Absent(k))

Erase(k) ==
  LET e == EraseKey(t, k)
  IN  IF Absent(k) THEN Becomes(t, FALSE) ELSE Becomes(Cleared(e.t, e.freed), TRUE)

MaxLoadFactor(lf) ==
  Becomes(IF lf > 200 /\ lf < 999 THEN [t EXCEPT !.mlf = (FixedOne * 1000) \div lf] ELSE t, FALSE)

\* init: reserve in a set that has no buckets yet.
NewSet(n) ==
  LET mlf == (FixedOne * 1000) \div DefaultLoad
  IN  EmptyTable(BucketsFor((n * mlf) \div FixedOne + 2), mlf)

FromRange(batch, v) == InsertEach(NewSet(Len(batch) + 4), batch, v, CheckedInsert)

Init == \E n \in Requests : t = NewSet(n) /\ rhs = NewSet(4) /\ ret = FALSE

One ==
  \/ \E k \in Key, v \in Value : Insert(k, v) \/ (Absent(k) /\ Becomes(InsertUnique(t, k, v), TRUE))
  \/ \E k \in Key : Erase(k)
  \/ \E batch \in Batches, v \in Value :
       \/ Becomes(FromRange(batch, v), FALSE)
       \/ /\ \A i \in DOMAIN batch : Absent(batch[i]) /\ (\A j \in 1 .. i - 1 : batch[i] # batch[j])
          /\ Becomes(InsertNewRange(t, batch, v), FALSE)
  \/ \E n \in Requests : Becomes(Reserved(t, n), FALSE)
  \/ \E lf \in LoadFactors : MaxLoadFactor(lf)
  \/ \E gone \in SUBSET Keys(t) : Becomes(EraseIf(t, gone), FALSE)
  \/ \E b \in Filled(t) : Becomes(EraseIterator(t, Iterator(b)).t, FALSE)
  \/ Becomes(Rehashed(t, t.filled), FALSE)   \* shrink_to_fit
  \/ Becomes(Cleaned(t), FALSE)

\* A copy is a clone; the constructor that moves leaves a new set behind.
Two ==
  \/ Becomes(rhs, FALSE)
  \/ t' = rhs /\ rhs' = NewSet(4) /\ ret' = FALSE
  \/ t' = rhs /\ rhs' = Cleaned(t) /\ ret' = FALSE
  \/ t' = rhs /\ rhs' = t /\ ret' = FALSE
  \/ LET e == Merged(t, rhs) IN t' = e.a /\ rhs' = e.t /\ ret' = FALSE
  \/ Becomes(t, Equal(t, rhs))

Next == ~ t.stuck /\ ~ rhs.stuck /\ (One \/ Two)

Spec == Init /\ [][Next]_vars
=============================================================================
