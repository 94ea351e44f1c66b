------------------------------ MODULE EmihSet3 ------------------------------
(***************************************************************************)
(* emilib3::HashSet (include/emilib/emihset3.hpp), two sets at once as in  *)
(* EmihMap3, each a map with the one value in Value.  Far turns may leave  *)
(* the groups: a window is then cut off by the end of the array.           *)
(***************************************************************************)
EXTENDS SwissTable

CONSTANTS
  Value, NoValue,
  LoadFactors,       \* the arguments of max_load_factor, in 1/1000
  DefaultLoad,       \* EMH_DEFAULT_LOAD_FACTOR, in 1/1000
  Batches, Requests  \* the ranges a call may insert, the arguments of reserve and rehash

VARIABLES t, rhs, ret

vars == <<t, rhs, ret>>

-----------------------------------------------------------------------------
(* Searching.                                                              *)

\* hash_key2: the first slot of a group.
Main(m, k) == simd_bytes * ((Hash[k] % m.size) \div simd_bytes)

\* Where get_next_bucket is at turn i.
NextBucket(m, main, i) ==
  LET far == IF i < 7 THEN (simd_bytes * i * (i + 1)) \div 2
             ELSE simd_bytes * 21 + (i - 6) * (m.size \div 8 + simd_bytes)
  IN  (main + far) % m.size

At(m, main, i) == Span(m, NextBucket(m, main, i), simd_bytes)

\* The last slot of a group is empty unless the group was full once.
Open(m, window) ==
  \E b \in window : b = Lowest(window) + simd_bytes - 1 /\ m.pairs[b] = NoPair

\* The first group with an empty last slot ends the search.
FindFilledBucket(m, k) ==
  LET main == Main(m, k)
  IN  IF m.size = 0 THEN 0
      ELSE FindIn(m, k, main, At, FirstTurn(0, m.probe, LAMBDA i : Open(m, At(m, main, i))))

FindEmptySlot(m, k, v, hit) ==
  Put(IF hit.turn > m.probe THEN [m EXCEPT !.probe = hit.turn] ELSE m, hit.at, k, v)

-----------------------------------------------------------------------------
(* Growing and inserting.                                                  *)

NewArray(size, mlf) ==
  [size |-> size, filled |-> 0, mlf |-> mlf, pairs |-> AllEmpty(size), probe |-> 0, stuck |-> FALSE]

InsertUnique2(m, k, v) == FindEmptySlot(m, k, v, EmptySlot(m, Main(m, k), At, 0))

\* What rehash asserts of its argument.
Fits(m, n) == n < m.filled \/ SizeFor(simd_bytes, n) > m.filled

Rehashed(m, n) ==
  IF n < m.filled THEN m
  ELSE VisitsDown(m, LAMBDA x, b : IF x.stuck THEN x
                                   ELSE InsertUnique2(x, m.pairs[b].first, m.pairs[b].second),
                  NewArray(SizeFor(simd_bytes, n), m.mlf))

RequiredBuckets(m, n) == (n * m.mlf) \div FixedOne

Reserved(m, n) ==
  IF RequiredBuckets(m, n) < m.size THEN m ELSE Rehashed(m, RequiredBuckets(m, n) + 2)

Expanded(m) == Reserved(m, m.filled)

Pick(m, window) == Lowest(FreeIn(m, window))

\* find_or_allocate, and what the caller does with the slot.
DoInsert(m, k, v) ==
  LET g == Expanded(m)
      hit == FindOrEmpty(g, k, Main(g, k), At, g.probe, Open, Pick)
  IN  IF g.stuck THEN g
      ELSE IF Holds(g, hit.at, k) THEN g ELSE FindEmptySlot(g, k, v, hit)

InsertUnique(m, k, v) ==
  IF Expanded(m).stuck THEN Expanded(m) ELSE InsertUnique2(Expanded(m), k, v)

InsertRange(m, batch, v) ==
  InsertEach(Rehashed(m, Len(batch) + m.filled), batch, v, DoInsert)

-----------------------------------------------------------------------------
(* Removing.                                                               *)

\* The slot is empty again in a group that was never full, the last slot of
\* which is the last to be taken.
Erase(m, b) ==
  LET last == b - (b % simd_bytes) + simd_bytes - 1
  IN  Erased(m, b, IF m.pairs[last] = NoPair THEN NoPair ELSE Tombstone)

\* A set without elements keeps its tombstones, and how long its searches are.
Cleared(m) ==
  IF m.filled = 0 THEN m ELSE [NewArray(m.size, m.mlf) EXCEPT !.stuck = m.stuck]

EraseIf(m, gone) == EraseEach(m, gone, Erase)

-----------------------------------------------------------------------------
(* Two sets, and the calls.                                                *)

NewSet(n) == Rehashed(NewArray(0, (FixedOne * 1000) \div DefaultLoad), n)

\* Without elements in the other one, its size and load factor are not taken.
Clone(m, from) == IF from.filled = 0 THEN Cleared(m) ELSE from

Merged(a, b) ==
  IF a.filled = 0 THEN [a |-> b, b |-> Cleared(a)]
  ELSE MergeEach(a, b, FindFilledBucket, InsertUnique, Erase)

Absent(k) == FindFilledBucket(t, k) = t.size

\* A call that does not return has no flag.
Becomes(m, flag) == t' = m /\ ret' = (IF t'.stuck THEN ret ELSE flag) /\ UNCHANGED rhs

Insert(k, v) == Becomes(DoInsert(t, k, v), Absent(k))

EraseKey(k) ==
  IF Absent(k) THEN Becomes(t, FALSE) ELSE Becomes(Erase(t, FindFilledBucket(t, k)), TRUE)

MaxLoadFactor(lf) ==
  Becomes(IF lf > 250 /\ lf =< 999 THEN [t EXCEPT !.mlf = (FixedOne * 1000) \div lf] ELSE t, FALSE)

Init == \E n \in Requests : t = NewSet(n) /\ rhs = NewSet(4) /\ ret = FALSE

One ==
  \/ \E k \in Key, v \in Value : Insert(k, v)
  \/ \E k \in Key, v \in Value : Absent(k) /\ Becomes(InsertUnique(t, k, v), TRUE)
  \/ \E batch \in Batches, v \in Value :
       \/ Fits(t, Len(batch) + t.filled) /\ Becomes(InsertRange(t, batch, v), FALSE)
       \/ Becomes(InsertEach(NewSet(Len(batch) + 4), batch, v, DoInsert), FALSE)
  \/ \E n \in Requests :
       Becomes(Reserved(t, n), FALSE) \/ (Fits(t, n) /\ Becomes(Rehashed(t, n), FALSE))
  \/ \E lf \in LoadFactors : MaxLoadFactor(lf)
  \/ t.size > 0 /\ ( \/ \E k \in Key : EraseKey(k)
                     \/ \E gone \in SUBSET Keys(t) : Becomes(EraseIf(t, gone), FALSE)
                     \/ \E b \in Filled(t) : Becomes(Erase(t, b), FALSE) )
  \/ Becomes(Rehashed(t, t.filled + 1), FALSE)   \* shrink_to_fit
  \/ Becomes(Cleared(t), FALSE)

\* A copy into an old set and into a new one, which has no array if there is
\* nothing to copy, a move into a new set and into an old one, swap, merge, ==.
Two ==
  \/ Becomes(Clone(t, rhs), FALSE)
  \/ Becomes(Clone(NewArray(0, NewSet(4).mlf), rhs), FALSE)
  \/ t' = rhs /\ rhs' = NewArray(0, NewSet(4).mlf) /\ ret' = FALSE
  \/ t' = rhs /\ rhs' = Cleared(t) /\ ret' = FALSE
  \/ t' = rhs /\ rhs' = t /\ ret' = FALSE
  \/ /\ IF t.filled = 0 THEN TRUE ELSE rhs.size > 0
     /\ LET e == Merged(t, rhs) IN t' = e.a /\ rhs' = e.b /\ ret' = FALSE
  \/ t.size > 0 /\ Becomes(t, SameElements(t, rhs, FindFilledBucket))

Next == ~ t.stuck /\ ~ rhs.stuck /\ (One \/ Two)

Spec == Init /\ [][Next]_vars
=============================================================================
