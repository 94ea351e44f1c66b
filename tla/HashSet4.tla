------------------------------ MODULE HashSet4 ------------------------------
(***************************************************************************)
(* emhash4::HashSet (include/emhash/hash_set4.hpp), two sets at once as in *)
(* HashTable5: a bit for every bucket, as hash_table6, but no flags.       *)
(*                                                                         *)
(* Two calls break the set, and Careful keeps callers from them:           *)
(*   - insert_or_assign of a stored key writes the number of its bucket    *)
(*     over its link, which cuts the chain behind it;                      *)
(*   - erase(it) strikes the bucket given up from the word the iterator    *)
(*     holds by its place in a word, though it may lie in another word.    *)
(***************************************************************************)
EXTENDS WordIterator

CONSTANTS
  Value, NoValue,
  LoadFactors,     \* the arguments of max_load_factor, in 1/1000
  DefaultLoad,     \* 0.95, in 1/1000
  Batches, Requests, \* the ranges a call may insert, the arguments of reserve
  LruSet,          \* EMH_LRU_SET
  Careful

VARIABLES t, rhs, ret

vars == <<t, rhs, ret>>

-----------------------------------------------------------------------------
(* The probe for an empty bucket, and growing.                             *)

\* A first read that is not aligned to a word; then, in turns, the words from
\* the hint on and the one the main bucket stands for.
FindEmptyBucket(m, from) ==
  LET word(w) == EmptyBits(m, w)
      step(i) == (from + (i + 2) * SizeBit) % (QMask(m) + 1)
      i == Lowest({ j \in 0 .. QMask(m) : word(Turn(m, j)) \cup word(step(j)) # {} })
      w == IF word(Turn(m, i)) # {} THEN Turn(m, i) ELSE step(i)
  IN  IF Window(m, from) # {} THEN [at |-> Lowest(Window(m, from)), hint |-> m.hint]
                              ELSE [at |-> Lowest(word(w)), hint |-> Turn(m, i)]

FromMain(main, tail) == main
FromTail(main, tail) == tail

FindUniqueBucket(m, k, v) == Place(m, k, v, FromTail, FindEmptyBucket)
FindNewBucket(m, k, v) == Place(m, k, v, FromMain, FindEmptyBucket)

EmptyTable(size, mlf) ==
  [size |-> size, filled |-> 0, mlf |-> mlf, hint |-> 0, pairs |-> Fresh(size), stuck |-> FALSE]

Rehashed(m, n) ==
  IF n < m.filled THEN m
  ELSE Up(EmptyTable(BucketsFor(n), m.mlf), m, FindUniqueBucket)

Reserved(m, n) ==
  IF RequiredBuckets(m, n) < m.size THEN m ELSE Rehashed(m, RequiredBuckets(m, n) + 2)

Expanded(m) == Reserved(m, m.filled)

-----------------------------------------------------------------------------
(* Inserting.                                                              *)

FindOrAllocate(m, k, v) ==
  IF m.stuck THEN m
  ELSE IF Find(m, k) = m.size THEN FindNewBucket(m, k, v)
  ELSE IF LruSet THEN Exchange(m, Main(m, k), Find(m, k)) ELSE m

CheckedInsert(m, k, v) == FindOrAllocate(Expanded(m), k, v)

InsertUnique(m, k, v) ==
  LET g == Expanded(m) IN IF g.stuck THEN g ELSE FindUniqueBucket(g, k, v)

\* Only when the main bucket is empty.
TryInsertMainbucket(m, k, v) ==
  IF Main(m, k) \in Empty(m) THEN New(m, Main(m, k), k, v, Main(m, k)) ELSE m

\* A range: first what finds its main bucket empty or holding the key, then
\* what is left, with no check for each.
InsertRange(m, batch, v) ==
  LET g == Reserved(m, Len(batch) + m.filled)
      first == InsertEach(g, batch, v, TryInsertMainbucket)
  IN  IF g.stuck THEN g ELSE InsertEach(first, batch, v, FindOrAllocate)

\* An initializer list: each element is checked again.
InsertList(m, batch, v) ==
  InsertEach(Reserved(m, Len(batch) + m.filled), batch, v, CheckedInsert)

\* insert_or_assign: a hit cuts the chain.
Assigned(m, k, v) ==
  LET g == CheckedInsert(m, k, v)
  IN  IF k \in Keys(m) /\ ~ g.stuck THEN Linked(g, Find(g, k), Find(g, k)) ELSE g

-----------------------------------------------------------------------------
(* Removing, and iterating.                                                *)

\* erase_key, for a key that is stored.
EraseKey(m, k) ==
  LET b == Find(m, k)
  IN  IF b # Main(m, k) THEN Unlink(m, Main(m, k), b)
      ELSE IF m.pairs[b].bucket # b THEN PullNext(m, b)
      ELSE [t |-> m, freed |-> b]

EraseBucket(m, b) ==
  IF HashMain(m, b) # b THEN Unlink(m, HashMain(m, b), b)
  ELSE IF m.pairs[b].bucket # b THEN PullNext(m, b)
  ELSE [t |-> m, freed |-> b]

\* iterator::erase: of the word it holds, whatever word the bucket is in.
Struck(it, freed) == [it EXCEPT !.bits = { b \in @ : b % SizeBit # freed % SizeBit }]

EraseIterator(m, it) ==
  LET e == EraseBucket(m, it.at)
      done == Cleared(e.t, e.freed)
      struck == Struck(it, e.freed)
  IN  [t |-> done, it |-> IF e.freed = it.at THEN GotoNext(done, struck) ELSE struck]

EraseIf(m, gone) == EraseWalk(m, Begin(m), gone, EraseIterator, Advance)

Cleaned(m) == [m EXCEPT !.pairs = Fresh(m.size), !.filled = 0, !.hint = 0]

Equal(a, b) == SameElements(a, b)

Merged(a, b) ==
  IF a.filled = 0 THEN [a |-> b, t |-> Cleaned(a)]
  ELSE MergeWalk(a, b, Begin(b), InsertUnique, EraseIterator, Advance)

-----------------------------------------------------------------------------
(* The calls.                                                              *)

Becomes(m, flag) == t' = m /\ ret' = flag /\ UNCHANGED rhs

Absent(k) == Find(t, k) = t.size

Insert(k, v) == Becomes(CheckedInsert(t, k, v), Absent(k))

Unique(k, v) == Absent(k) /\ Becomes(InsertUnique(t, k, v), TRUE)

\* A careful caller assigns to no key that another follows in its chain.
NothingBehind(k) ==
  LET g == Expanded(t)
      b == Find(g, k)
  IN  IF b = g.size THEN TRUE ELSE g.pairs[b].bucket = b /\ ~ LruSet

InsertOrAssign(k, v) ==
  /\ IF Careful THEN NothingBehind(k) ELSE TRUE
  /\ Becomes(Assigned(t, k, v), FALSE)

Erase(k) ==
  LET e == EraseKey(t, k)
  IN  IF Absent(k) THEN Becomes(t, FALSE) ELSE Becomes(Cleared(e.t, e.freed), TRUE)

\* A careful caller erases through iterators only where one word is all.
OneWord(m) == IF Careful THEN m.size =< SizeBit ELSE TRUE

EraseAllIf(gone) == OneWord(t) /\ Becomes(EraseIf(t, gone), FALSE)

EraseAt(b) == OneWord(t) /\ Becomes(EraseIterator(t, InitIterator(t, b)).t, FALSE)

MaxLoadFactor(lf) ==
  Becomes(IF lf > 200 /\ lf =< 999 THEN [t EXCEPT !.mlf = (FixedOne * 1000) \div lf] ELSE t, FALSE)

\* init: reserve in a set that has no buckets yet.
NewSet(n) ==
  LET mlf == (FixedOne * 1000) \div DefaultLoad
  IN  EmptyTable(BucketsFor((n * mlf) \div FixedOne + 2), mlf)

FromList(batch, v) == InsertEach(NewSet(Len(batch)), batch, v, CheckedInsert)

Init == \E n \in Requests : t = NewSet(n) /\ rhs = NewSet(4) /\ ret = FALSE

One ==
  \/ \E k \in Key, v \in Value : Insert(k, v) \/ Unique(k, v) \/ InsertOrAssign(k, v)
  \/ \E k \in Key : Erase(k)
  \/ \E batch \in Batches, v \in Value :
       \/ Becomes(InsertRange(t, batch, v), FALSE)
       \/ Becomes(InsertList(t, batch, v), FALSE)
       \/ Becomes(FromList(batch, v), FALSE)
  \/ \E n \in Requests : Becomes(Reserved(t, n), FALSE)
  \/ \E lf \in LoadFactors : MaxLoadFactor(lf)
  \/ \E gone \in SUBSET Keys(t) : EraseAllIf(gone)
  \/ \E b \in Filled(t) : EraseAt(b)
  \/ Becomes(Rehashed(t, t.filled), FALSE)   \* shrink_to_fit
  \/ Becomes(Cleaned(t), FALSE)

\* Those that copy are clones; the constructor that moves leaves a new set.
Two ==
  \/ Becomes(rhs, FALSE)
  \/ t' = rhs /\ rhs' = NewSet(4) /\ ret' = FALSE
  \/ t' = rhs /\ rhs' = Cleaned(t) /\ ret' = FALSE
  \/ t' = rhs /\ rhs' = t /\ ret' = FALSE
  \/ /\ IF t.filled = 0 THEN TRUE ELSE OneWord(rhs)
     /\ LET e == Merged(t, rhs) IN t' = e.a /\ rhs' = e.t /\ ret' = FALSE
  \/ Becomes(t, Equal(t, rhs))

Next == ~ t.stuck /\ ~ rhs.stuck /\ (One \/ Two)

Spec == Init /\ [][Next]_vars
=============================================================================
