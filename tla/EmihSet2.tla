------------------------------ MODULE EmihSet2 ------------------------------
(***************************************************************************)
(* emilib2::HashSet (include/emilib/emihset2.hpp), two sets at once as in  *)
(* EmihSet3.  Probing is linear and wraps; a window starts at any slot,    *)
(* and probe is _max_probe_length, a number of slots, -1 in a new array.   *)
(***************************************************************************)
EXTENDS SwissTable

CONSTANTS
  Value, NoValue,
  Plain,             \* the keys are trivially destructible
  Batches, Requests  \* the ranges a call may insert, the arguments of reserve and rehash

VARIABLES t, rhs, ret

vars == <<t, rhs, ret>>

-----------------------------------------------------------------------------
(* Searching.                                                              *)

Main(m, k) == Hash[k] % m.size

\* The window at turn i, by the slot it starts at and the slots passed by.
Turn(m, main, i) ==
  LET over == i - (m.size - main + simd_bytes - 1) \div simd_bytes
      laps == (m.size + simd_bytes - 1) \div simd_bytes
      at == simd_bytes * (over % laps)
  IN  IF over < 0 THEN [at |-> main + simd_bytes * i, passed |-> simd_bytes * i]
      ELSE [at |-> at, passed |-> m.size - main + m.size * (over \div laps) + at]

At(m, main, i) == Span(m, Turn(m, main, i).at, simd_bytes)

\* The last turn before more slots are passed by than probe.
Limit(m, main) ==
  FirstTurn(0, m.probe + 1, LAMBDA i : Turn(m, main, i + 1).passed > m.probe)

FirstOpen(m, main, n) == FirstTurn(0, n, LAMBDA i : EmptyIn(m, At(m, main, i)) # {})

\* Mutant: slots that wrap are not counted in, and the search ends too soon.
FindFilledBucketShort(m, k) ==
  IF m.size = 0 THEN 0
  ELSE FindIn(m, k, Main(m, k), At,
              LET n == Limit(m, Main(m, k)) IN IF n > 1 THEN n - 1 ELSE 0)

FindFilledBucket(m, k) ==
  IF m.size = 0 THEN 0
  ELSE FindIn(m, k, Main(m, k), At, FirstOpen(m, Main(m, k), Limit(m, Main(m, k))))

\* find_empty_slot: the next free slot, which the longest search must reach.
FindEmptySlot(m, k, v, from, passed) ==
  LET near == { d \in 0 .. m.size - 1 : IsFree(m, (from + d) % m.size) }
      d == Lowest(near)
  IN  IF near = {} THEN [m EXCEPT !.stuck = TRUE]
      ELSE Put(IF passed + d > m.probe THEN [m EXCEPT !.probe = passed + d] ELSE m,
               (from + d) % m.size, k, v)

-----------------------------------------------------------------------------
(* Growing and inserting.                                                  *)

NewArray(size) ==
  [size |-> size, filled |-> 0, pairs |-> AllEmpty(size), probe |-> -1, stuck |-> FALSE]

Rehashed(m, n) ==
  IF n < m.filled THEN m
  ELSE Visits(m, LAMBDA x, b : LET k == m.pairs[b].first
                               IN  FindEmptySlot(x, k, m.pairs[b].second, Main(x, k), 0),
              NewArray(SizeFor(4, n)))

RequiredBuckets(n) == n + n \div 8

Reserved(m, n) ==
  IF RequiredBuckets(n) < m.size THEN m ELSE Rehashed(m, RequiredBuckets(n) + 2)

Expanded(m) == Reserved(m, m.filled)

\* The end of a search that inserts is the sum of the main slot and probe, an
\* unsigned number: 0 and -1 make the largest.
Endless(m, main) == main = 0 /\ m.probe = -1
LastTurn(m, main) == IF Endless(m, main) THEN Turns(m) ELSE Limit(m, main)

\* The first tombstone in the first n windows, else the size.
TombsIn(m, window) == { b \in window : m.pairs[b] = Tombstone }
Hole(m, main, n) ==
  LET i == FirstTurn(0, n, LAMBDA x : TombsIn(m, At(m, main, x)) # {})
  IN  IF i = n THEN m.size ELSE Lowest(TombsIn(m, At(m, main, i)))

\* probe becomes the distance to b, if that is more.
PutFar(m, k, v, main, b) ==
  LET far == (b - main + m.size) % m.size
  IN  Put(IF far > m.probe THEN [m EXCEPT !.probe = far] ELSE m, b, k, v)

\* Where k goes that is not stored: to the tombstone seen before the first empty
\* slot, to that slot, and if the search ends before it to a tombstone or on.
Placed(m, k, v, main, empty, hole) ==
  IF empty # {} THEN PutFar(m, k, v, main, IF hole # m.size THEN hole ELSE Lowest(empty))
  ELSE IF Endless(m, main) THEN [m EXCEPT !.stuck = TRUE]
  ELSE IF hole # m.size THEN Put(m, hole, k, v)
  ELSE LET next == Turn(m, main, Limit(m, main) + 1)
       IN  FindEmptySlot(m, k, v, next.at, next.passed)

\* find_or_allocate, whose search comes to turn open, and storing the key.
FindOrPlace(m, k, v, main, open) ==
  LET empty == EmptyIn(m, At(m, main, open))
  IN  IF FindIn(m, k, main, At, open) # m.size THEN m
      ELSE Placed(m, k, v, main, empty, Hole(m, main, IF empty # {} THEN open ELSE open + 1))

InsertIn(m, k, v) ==
  FindOrPlace(m, k, v, Main(m, k), FirstOpen(m, Main(m, k), LastTurn(m, Main(m, k))))

Insert(m, k, v) == InsertIn(Expanded(m), k, v)

InsertUnique(m, k, v) ==
  LET g == Expanded(m) IN FindEmptySlot(g, k, v, Main(g, k), 0)

InsertRange(m, batch, v, Put1(_, _, _)) ==
  InsertEach(Reserved(m, Len(batch) + m.filled), batch, v, Put1)

-----------------------------------------------------------------------------
(* Removing.                                                               *)

\* The tombstones on the left become empty if there is an empty slot on the
\* right, so that no search passes there.
Erase(m, b) ==
  LET left == { c \in 0 .. b - 1 : \A d \in c .. b - 1 : m.pairs[d] = Tombstone }
      ends == b + 1 < m.size /\ m.pairs[(b + 1) % m.size] = NoPair
  IN  [m EXCEPT !.pairs = [c \in Slots(m) |-> IF c = b THEN Tombstone
                                              ELSE IF ends /\ c \in left THEN NoPair ELSE m.pairs[c]],
                !.filled = @ - 1]

EraseIf(m, gone) == EraseEach(m, gone, Erase)

\* A set of plain keys without elements keeps its tombstones, but not probe.
Cleared(m) ==
  IF Plain /\ m.filled = 0 THEN [m EXCEPT !.probe = -1]
  ELSE [NewArray(m.size) EXCEPT !.stuck = m.stuck]

-----------------------------------------------------------------------------
(* Two sets, and the calls.                                                *)

NewSet(n) == Rehashed(NewArray(0), n)

Clone(m, from) == IF from.filled = 0 THEN Cleared(m) ELSE from

Merged(a, b) ==
  IF a.filled = 0 THEN [a |-> b, b |-> Cleared(a)]
  ELSE MergeEach(a, b, FindFilledBucket, InsertUnique, Erase)

Absent(k) == FindFilledBucket(t, k) = t.size

\* A call that does not return has no flag.
Becomes(m, flag) == t' = m /\ ret' = (IF t'.stuck THEN ret ELSE flag) /\ UNCHANGED rhs

EraseKey(k) ==
  IF Absent(k) THEN Becomes(t, FALSE) ELSE Becomes(Erase(t, FindFilledBucket(t, k)), TRUE)

Unique(batch) == \A i \in DOMAIN batch : Absent(batch[i]) /\ \A j \in 1 .. i - 1 : batch[i] # batch[j]

Init == \E n \in Requests : t = NewSet(n) /\ rhs = NewArray(0) /\ ret = FALSE

One ==
  \/ \E k \in Key, v \in Value :
       Becomes(Insert(t, k, v), Absent(k)) \/ (Absent(k) /\ Becomes(InsertUnique(t, k, v), TRUE))
  \/ \E batch \in Batches, v \in Value :
       \/ Becomes(InsertRange(t, batch, v, Insert), FALSE)
       \/ Unique(batch) /\ Becomes(InsertRange(t, batch, v, InsertUnique), FALSE)
       \/ Becomes(InsertEach(Reserved(NewArray(0), Len(batch)), batch, v, Insert), FALSE)
  \/ \E n \in Requests : Becomes(Reserved(t, n), FALSE) \/ Becomes(Rehashed(t, n), FALSE)
  \/ t.size > 0 /\ ( \/ \E k \in Key : EraseKey(k)
                     \/ \E gone \in SUBSET Keys(t) : Becomes(EraseIf(t, gone), FALSE)
                     \/ \E b \in Filled(t) : Becomes(Erase(t, b), FALSE) )
  \/ Becomes(Rehashed(t, t.filled), FALSE)   \* shrink_to_fit
  \/ Becomes(Cleared(t), FALSE)

\* A copy into an old set and into a new one, a move into a new set and into
\* an old one, swap, merge, ==.
Two ==
  \/ Becomes(Clone(t, rhs), FALSE)
  \/ Becomes(Clone(NewArray(0), rhs), FALSE)
  \/ t' = rhs /\ rhs' = NewArray(0) /\ ret' = FALSE
  \/ t' = rhs /\ rhs' = Cleared(t) /\ ret' = FALSE
  \/ t' = rhs /\ rhs' = t /\ ret' = FALSE
  \/ LET e == Merged(t, rhs) IN t' = e.a /\ rhs' = e.b /\ ret' = FALSE
  \/ Becomes(t, SameElements(t, rhs, FindFilledBucket))

Next == ~ t.stuck /\ ~ rhs.stuck /\ (One \/ Two)

Spec == Init /\ [][Next]_vars
=============================================================================
