------------------------------ MODULE EmihMap2 ------------------------------
(***************************************************************************)
(* emilib2::HashMap (include/emilib/emihmap2.hpp), two maps at once.  Each *)
(* call is one step, and ret is the flag it returns.  A window starts at   *)
(* any slot and the array ends it; probe is _offset, one for each step of  *)
(* main slots.  A map that was moved from has no array; the caller that    *)
(* goes on with it stores something in it before it searches it.           *)
(***************************************************************************)
EXTENDS SwissTable

CONSTANTS
  Value, NoValue,
  LoadFactors,       \* the arguments of max_load_factor, in 1/1000
  DefaultLoad,       \* EMH_DEFAULT_LOAD_FACTOR, in 1/1000
  OFFSET_STEP,       \* 8 in the code
  Batches, Requests  \* the ranges a call may insert, the arguments of reserve and rehash

VARIABLES t, rhs, ret

vars == <<t, rhs, ret>>

-----------------------------------------------------------------------------
(* Searching.                                                              *)

\* hash_key2.
Main(m, k) == Hash[k] % m.size

\* Where get_next_bucket is at turn i.
NextBucket(m, main, i) ==
  LET far == IF i < 5 THEN (simd_bytes * i * (i + 1)) \div 2
             ELSE simd_bytes * 10 + (i - 4) * (IF (m.size \div 11) % 2 = 0
                                              THEN (m.size \div 11) + 1 ELSE m.size \div 11)
  IN  (main + far) % m.size

At(m, main, i) == Span(m, NextBucket(m, main, i), simd_bytes)

GetOffset(m, main) == m.probe[main \div OFFSET_STEP]
SetOffset(m, main, i) == [m EXCEPT !.probe[main \div OFFSET_STEP] = i % 256]

\* An empty slot in the first window ends the search, one in another does not.
FindFilledBucket(m, k) ==
  LET main == Main(m, k)
  IN  IF m.size = 0 THEN 0
      ELSE FindIn(m, k, main, At, IF EmptyIn(m, At(m, main, 0)) # {} THEN 0 ELSE GetOffset(m, main))

\* Mutant: the longest search is not kept.
FindEmptySlotShort(m, k, v, main, hit) == Put(m, hit.at, k, v)

\* The slot is taken, and a search for what it holds must get that far.
FindEmptySlot(m, k, v, main, hit) ==
  Put(IF hit.turn > GetOffset(m, main) THEN SetOffset(m, main, hit.turn) ELSE m, hit.at, k, v)

-----------------------------------------------------------------------------
(* Growing and inserting.                                                  *)

NewArray(size, mlf) ==
  [size |-> size, filled |-> 0, mlf |-> mlf, pairs |-> AllEmpty(size),
   probe |-> [g \in 0 .. size \div OFFSET_STEP |-> 0], stuck |-> FALSE]

InsertUnique2(m, k, v) ==
  FindEmptySlot(m, k, v, Main(m, k), EmptySlot(m, Main(m, k), At, 0))

\* What rehash asserts of its argument.
Fits(m, n) == n < m.filled \/ SizeFor(simd_bytes, n) > m.filled

Rehashed(m, n) ==
  IF n < m.filled THEN m
  ELSE VisitsDown(m, LAMBDA x, b : IF x.stuck THEN x
                                   ELSE InsertUnique2(x, m.pairs[b].first, m.pairs[b].second),
                  NewArray(SizeFor(simd_bytes, n), m.mlf))

RequiredBuckets(m, n) == (n * m.mlf) \div FixedOne

\* Mutant: a table that is one bucket short is not grown.
ReservedLate(m, n) ==
  IF RequiredBuckets(m, n) =< m.size THEN m ELSE Rehashed(m, RequiredBuckets(m, n) + 2)

Reserved(m, n) ==
  IF RequiredBuckets(m, n) < m.size THEN m ELSE Rehashed(m, RequiredBuckets(m, n) + 2)

Expanded(m) == Reserved(m, m.filled)

\* An empty slot is taken before one that was erased.
Pick(m, window) ==
  Lowest(IF EmptyIn(m, window) # {} THEN EmptyIn(m, window) ELSE FreeIn(m, window))

Open(m, window) == EmptyIn(m, window) # {}

\* find_or_allocate, and what the caller does with the slot; assign tells
\* insert_or_assign from insert.
FindOrAllocate(m, k, v, assign) ==
  LET g == Expanded(m)
      main == Main(g, k)
      hit == FindOrEmpty(g, k, main, At, GetOffset(g, main), Open, Pick)
  IN  IF g.stuck THEN g
      ELSE IF ~ Holds(g, hit.at, k) THEN FindEmptySlot(g, k, v, main, hit)
      ELSE IF assign THEN [g EXCEPT !.pairs[hit.at].second = v] ELSE g

DoInsert(m, k, v) == FindOrAllocate(m, k, v, FALSE)

InsertUnique(m, k, v) ==
  IF Expanded(m).stuck THEN Expanded(m) ELSE InsertUnique2(Expanded(m), k, v)

\* A range makes room for exactly as many as are in it, and may shrink the map.
InsertRange(m, batch, v) ==
  InsertEach(Rehashed(m, Len(batch) + m.filled), batch, v, DoInsert)

-----------------------------------------------------------------------------
(* Removing.                                                               *)

Erase(m, b) == Erased(m, b, Tombstone)

\* A map without elements keeps its tombstones, and how long its searches are.
Cleared(m) ==
  IF m.filled = 0 THEN m ELSE [NewArray(m.size, m.mlf) EXCEPT !.stuck = m.stuck]

EraseIf(m, gone) == EraseEach(m, gone, Erase)

-----------------------------------------------------------------------------
(* Two maps, and the calls.                                                *)

NewMap(n) == Rehashed(NewArray(0, (FixedOne * 1000) \div DefaultLoad), n)

\* Without elements in the other one, its size and load factor are not taken.
Clone(m, from) == IF from.filled = 0 THEN Cleared(m) ELSE from

Merged(a, b) ==
  IF a.filled = 0 THEN [a |-> b, b |-> Cleared(a)]
  ELSE MergeEach(a, b, FindFilledBucket, InsertUnique, Erase)

Absent(k) == FindFilledBucket(t, k) = t.size

\* A call that does not return has no flag.
Becomes(m, flag) == t' = m /\ ret' = (IF t'.stuck THEN ret ELSE flag) /\ UNCHANGED rhs

Insert(k, v) == Becomes(DoInsert(t, k, v), Absent(k))

InsertOrAssign(k, v) == Becomes(FindOrAllocate(t, k, v, TRUE), Absent(k))

TrySet(k, v) ==
  IF Absent(k) THEN Becomes(t, FALSE)
  ELSE Becomes([t EXCEPT !.pairs[FindFilledBucket(t, k)].second = v], TRUE)

EraseKey(k) ==
  IF Absent(k) THEN Becomes(t, FALSE) ELSE Becomes(Erase(t, FindFilledBucket(t, k)), TRUE)

MaxLoadFactor(lf) ==
  Becomes(IF lf > 250 /\ lf =< 999 THEN [t EXCEPT !.mlf = (FixedOne * 1000) \div lf] ELSE t, FALSE)

Init == \E n \in Requests : t = NewMap(n) /\ rhs = NewMap(4) /\ ret = FALSE

One ==
  \/ \E k \in Key, v \in Value : Insert(k, v) \/ InsertOrAssign(k, v)
  \/ \E k \in Key, v \in Value : Absent(k) /\ Becomes(InsertUnique(t, k, v), TRUE)
  \/ \E batch \in Batches, v \in Value :
       \/ Fits(t, Len(batch) + t.filled) /\ Becomes(InsertRange(t, batch, v), FALSE)
       \/ Becomes(InsertEach(NewMap(Len(batch) + 4), batch, v, DoInsert), FALSE)
  \/ \E n \in Requests :
       Becomes(Reserved(t, n), FALSE) \/ (Fits(t, n) /\ Becomes(Rehashed(t, n), FALSE))
  \/ \E lf \in LoadFactors : MaxLoadFactor(lf)
  \/ t.size > 0 /\ ( \/ \E k \in Key : EraseKey(k) \/ \E v \in Value : TrySet(k, v)
                     \/ \E gone \in SUBSET Keys(t) : Becomes(EraseIf(t, gone), FALSE)
                     \/ \E b \in Filled(t) : Becomes(Erase(t, b), FALSE) )
  \/ Becomes(Rehashed(t, t.filled + 1), FALSE)   \* shrink_to_fit
  \/ Becomes(Cleared(t), FALSE)

\* A copy, a move into a new map and into an old one, swap, merge and ==.
Two ==
  \/ Becomes(Clone(t, rhs), FALSE)
  \/ Becomes(Clone(NewMap(1), rhs), FALSE)
  \/ t' = rhs /\ rhs' = NewArray(0, NewMap(4).mlf) /\ ret' = FALSE
  \/ t' = rhs /\ rhs' = Cleared(t) /\ ret' = FALSE
  \/ t' = rhs /\ rhs' = t /\ ret' = FALSE
  \/ /\ IF t.filled = 0 THEN TRUE ELSE rhs.size > 0
     /\ LET e == Merged(t, rhs) IN t' = e.a /\ rhs' = e.b /\ ret' = FALSE
  \/ t.size > 0 /\ Becomes(t, SameElements(t, rhs, FindFilledBucket))

Next == ~ t.stuck /\ ~ rhs.stuck /\ (One \/ Two)

Spec == Init /\ [][Next]_vars
=============================================================================
