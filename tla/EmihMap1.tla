------------------------------ MODULE EmihMap1 ------------------------------
(***************************************************************************)
(* emilib::HashMap (include/emilib/emihmap1.hpp), two maps at once as in   *)
(* EmihMap2.  A window is one group of aligned slots, the last of which is *)
(* never used: its state is the probe of the group.                        *)
(***************************************************************************)
EXTENDS SwissTable

CONSTANTS
  Value, NoValue,
  MXLOAD_FACTOR,     \* 5 in the code
  Careful,           \* no element goes unsearched to a map with tombstones
  Batches, Requests  \* the ranges a call may insert, the arguments of reserve and rehash

VARIABLES t, rhs, ret

vars == <<t, rhs, ret>>

-----------------------------------------------------------------------------
(* Searching.                                                              *)

\* hash_key2: the first slot of a group.
Main(m, k) == simd_bytes * ((Hash[k] % m.size) \div simd_bytes)

\* Where get_next_bucket is at turn i.
NextBucket(m, main, i) ==
  LET eighth == m.size \div (8 * simd_bytes)
      far == IF i < 7 THEN (i * (i + 1)) \div 2
             ELSE 21 + (i - 6) * (IF eighth % 2 = 0 THEN eighth + 1 ELSE eighth)
  IN  (main + far * simd_bytes) % m.size

At(m, main, i) == Span(m, NextBucket(m, main, i), simd_bytes - 1)

GroupProbe(m, main) == m.probe[main \div simd_bytes]

\* group_has_empty: the last slot of a group is the last to be taken.
Open(m, window) == m.pairs[Lowest(window) + simd_bytes - 2] = NoPair

\* Only the probe of its main group ends a search.
FindFilledBucket(m, k) ==
  FindIn(m, k, Main(m, k), At, GroupProbe(m, Main(m, k)))

\* find_empty_slot: the probe becomes what this search took, a longer one or
\* a shorter one than before.
FindEmptySlot(m, k, v, hit) ==
  Put([m EXCEPT !.probe[Main(m, k) \div simd_bytes] = hit.turn % 256], hit.at, k, v)

-----------------------------------------------------------------------------
(* Growing and inserting.                                                  *)

NewArray(size) ==
  [size |-> size, filled |-> 0, pairs |-> AllEmpty(size),
   probe |-> [g \in 0 .. size \div simd_bytes - 1 |-> 0], stuck |-> FALSE]

InsertUnique2(m, k, v) == FindEmptySlot(m, k, v, EmptySlot(m, Main(m, k), At, 0))

\* What rehash asserts of its argument.
Fits(m, n) == n < m.filled \/ SizeFor(simd_bytes, n) > m.filled

Rehashed(m, n) ==
  IF n < m.filled THEN m
  ELSE VisitsDown(m, LAMBDA x, b : IF x.stuck THEN x
                                   ELSE InsertUnique2(x, m.pairs[b].first, m.pairs[b].second),
                  NewArray(SizeFor(simd_bytes, n)))

RequiredBuckets(n) == n + n \div MXLOAD_FACTOR

Reserved(m, n) ==
  IF RequiredBuckets(n) < m.size THEN m ELSE Rehashed(m, RequiredBuckets(n) + 2)

Expanded(m) == Reserved(m, m.filled)

Pick(m, window) == Lowest(FreeIn(m, window))

\* find_or_allocate, and what the caller does with the slot; assign tells
\* insert_or_assign from insert.
FindOrAllocate(m, k, v, assign) ==
  LET g == Expanded(m)
      probe == GroupProbe(g, Main(g, k))
      hit == FindOrEmpty(g, k, Main(g, k), At, probe, Open, Pick)
  IN  IF g.stuck THEN g
      ELSE IF ~ Holds(g, hit.at, k)
      THEN IF hit.turn > probe THEN FindEmptySlot(g, k, v, hit) ELSE Put(g, hit.at, k, v)
      ELSE IF assign THEN [g EXCEPT !.pairs[hit.at].second = v] ELSE g

DoInsert(m, k, v) == FindOrAllocate(m, k, v, FALSE)

InsertUnique(m, k, v) ==
  IF Expanded(m).stuck THEN Expanded(m) ELSE InsertUnique2(Expanded(m), k, v)

InsertRange(m, batch, v) ==
  InsertEach(Rehashed(m, Len(batch) + m.filled), batch, v, DoInsert)

-----------------------------------------------------------------------------
(* Removing.                                                               *)

\* The slot is empty again in a group that was never full.
Erase(m, b) ==
  LET last == b - (b % simd_bytes) + simd_bytes - 2
  IN  Erased(m, b, IF m.pairs[last] = NoPair THEN NoPair ELSE Tombstone)

\* A map without elements keeps its tombstones, and how long its searches are.
Cleared(m) == IF m.filled = 0 THEN m ELSE [NewArray(m.size) EXCEPT !.stuck = m.stuck]

Tombstones(m) == { b \in Slots(m) : m.pairs[b] = Tombstone }

EraseIf(m, gone) == EraseEach(m, gone, Erase)

-----------------------------------------------------------------------------
(* Two maps, and the calls.                                                *)

NewMap(n) == Rehashed(NewArray(0), n)

\* Without elements in the other one, its size is not taken.
Clone(m, from) == IF from.filled = 0 THEN Cleared(m) ELSE from

Merged(a, b) ==
  IF a.filled = 0 THEN [a |-> b, b |-> Cleared(a)]
  ELSE MergeEach(a, b, FindFilledBucket, InsertUnique, Erase)

Absent(k) == FindFilledBucket(t, k) = t.size

\* A call that does not return has no flag.
Becomes(m, flag) == t' = m /\ ret' = (IF t'.stuck THEN ret ELSE flag) /\ UNCHANGED rhs

Insert(k, v) == Becomes(DoInsert(t, k, v), Absent(k))

InsertOrAssign(k, v) == Becomes(FindOrAllocate(t, k, v, TRUE), Absent(k))

TrySet(k, v) ==
  IF Absent(k) THEN Becomes(t, FALSE)
  ELSE Becomes([t EXCEPT !.pairs[FindFilledBucket(t, k)].second = v], TRUE)

EraseKey(k) ==
  IF Absent(k) THEN Becomes(t, FALSE) ELSE Becomes(Erase(t, FindFilledBucket(t, k)), TRUE)

Init == \E n \in Requests : t = NewMap(n) /\ rhs = NewMap(4) /\ ret = FALSE

One ==
  \/ \E k \in Key, v \in Value : Insert(k, v) \/ InsertOrAssign(k, v)
  \/ \E k \in Key, v \in Value :
       /\ Absent(k) /\ (Careful => Tombstones(Expanded(t)) = {})
       /\ Becomes(InsertUnique(t, k, v), TRUE)
  \/ \E batch \in Batches, v \in Value :
       \/ Fits(t, Len(batch) + t.filled) /\ Becomes(InsertRange(t, batch, v), FALSE)
       \/ Becomes(InsertEach(NewMap(Len(batch) + 4), batch, v, DoInsert), FALSE)
  \/ \E n \in Requests :
       Becomes(Reserved(t, n), FALSE) \/ (Fits(t, n) /\ Becomes(Rehashed(t, n), FALSE))
  \/ \E k \in Key : EraseKey(k) \/ \E v \in Value : TrySet(k, v)
  \/ \E gone \in SUBSET Keys(t) : Becomes(EraseIf(t, gone), FALSE)
  \/ \E b \in Filled(t) : Becomes(Erase(t, b), FALSE)
  \/ Becomes(Rehashed(t, RequiredBuckets(t.filled) + 1), FALSE)   \* shrink_to_fit
  \/ Becomes(Cleared(t), FALSE)

\* A copy, a move into a new map and into an old one, swap, merge and ==.
Two ==
  \/ Becomes(Clone(t, rhs), FALSE)
  \/ Becomes(Clone(NewMap(1), rhs), FALSE)
  \/ t' = rhs /\ rhs' = NewMap(1) /\ ret' = FALSE
  \/ t' = rhs /\ rhs' = Cleared(t) /\ ret' = FALSE
  \/ t' = rhs /\ rhs' = t /\ ret' = FALSE
  \/ /\ Careful => (IF t.filled = 0 THEN TRUE ELSE Tombstones(t) = {})
     /\ LET e == Merged(t, rhs) IN t' = e.a /\ rhs' = e.b /\ ret' = FALSE
  \/ Becomes(t, SameElements(t, rhs, FindFilledBucket))

Next == ~ t.stuck /\ ~ rhs.stuck /\ (One \/ Two)

Spec == Init /\ [][Next]_vars
=============================================================================
