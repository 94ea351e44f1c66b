----------------------------- MODULE SwissTable -----------------------------
(***************************************************************************)
(* The open-addressing tables of emilib as a value: emihmap1, emihmap2,    *)
(* emihmap3, emihset2 and emihset3 keep a byte of state for each slot and  *)
(* look at a window of simd_bytes of them at a time.  A table is a record  *)
(*                                                                         *)
(*   size    the number of slots, 0 while there is no array                *)
(*   filled  the counter of elements                                       *)
(*   mlf     slots for one element, in the fixed point FixedOne            *)
(*   pairs   the slots: an element, or Tombstone where one was erased, or  *)
(*           NoPair where none was since the last time the array was new   *)
(*   probe   how many turns a search may have to take, for each group that *)
(*           the table keeps it for                                        *)
(*   stuck   a search found no free slot, which in the code never ends     *)
(*                                                                         *)
(* The bits of the hash that a state holds only save comparing keys, and   *)
(* are left out.  A table hands its own way to go from one window to the   *)
(* next to these operators as At: from a main slot and a turn to the slots *)
(* of the window.                                                          *)
(***************************************************************************)
EXTENDS Integers, Sequences, FiniteSets

CONSTANTS
  Key, Hash, NoPair, Tombstone,
  simd_bytes,   \* 16 in the code
  FixedOne      \* 1 in the fixed point of _mlf

Lowest(S) == CHOOSE x \in S : \A y \in S : x =< y

Slots(m) == 0 .. m.size - 1
IsFree(m, b) == m.pairs[b] = NoPair \/ m.pairs[b] = Tombstone
Filled(m) == { b \in Slots(m) : ~ IsFree(m, b) }
Used(m) == Cardinality({ b \in Slots(m) : m.pairs[b] # NoPair })
Keys(m) == { m.pairs[b].first : b \in Filled(m) }

EmptyIn(m, window) == { b \in window : m.pairs[b] = NoPair }
FreeIn(m, window) == { b \in window : IsFree(m, b) }

\* The slots at most n from b that exist: behind the last are sentinels.
Span(m, b, n) == b .. (IF b + n < m.size THEN b + n ELSE m.size) - 1

\* The first turn from i to n that Good holds of, else n.
FirstTurn(i, n, Good(_)) ==
  IF \E j \in i .. n : Good(j)
  THEN CHOOSE j \in i .. n : Good(j) /\ \A x \in i .. j - 1 : ~ Good(x)
  ELSE n

\* Where k is in the windows up to turn n, else the size.
FindIn(m, k, main, At(_, _, _), n) ==
  LET hits == { b \in UNION { At(m, main, i) : i \in 0 .. n } : ~ IsFree(m, b) /\ m.pairs[b].first = k }
  IN  IF hits = {} THEN m.size ELSE Lowest(hits)

\* The lowest free slot of the first window from turn i on that has one.  In
\* so many turns a search has met all windows it will ever meet.
Turns(m) == 2 * m.size + 8
EmptySlot(m, main, At(_, _, _), i) ==
  LET j == FirstTurn(i, i + Turns(m), LAMBDA x : FreeIn(m, At(m, main, x)) # {})
      free == FreeIn(m, At(m, main, j))
  IN  [at |-> IF free = {} THEN m.size ELSE Lowest(free), turn |-> j]

\* find_or_allocate: k is looked for up to the turn that its group keeps, or
\* up to the first window with a free slot if one of them is Open; that free
\* slot is taken if k is not there.
FindOrEmpty(m, k, main, At(_, _, _), limit, Open(_, _), Pick(_, _)) ==
  LET hole == FirstTurn(0, limit, LAMBDA x : FreeIn(m, At(m, main, x)) # {})
      window == At(m, main, hole)
      found == FindIn(m, k, main, At, IF Open(m, window) THEN hole ELSE limit)
  IN  IF found # m.size THEN [at |-> found, turn |-> 0]
      ELSE IF FreeIn(m, window) # {} THEN [at |-> Pick(m, window), turn |-> 0]
      ELSE EmptySlot(m, main, At, limit + 1)

Holds(m, b, k) == b # m.size /\ ~ IsFree(m, b) /\ m.pairs[b].first = k

\* A slot that was found for a new element, if one was found.
Put(m, b, k, v) ==
  IF b = m.size THEN [m EXCEPT !.stuck = TRUE]
  ELSE [m EXCEPT !.pairs[b] = [first |-> k, second |-> v], !.filled = @ + 1]

\* What the slot of an erased element becomes.
Erased(m, b, mark) == [m EXCEPT !.pairs[b] = mark, !.filled = @ - 1]

AllEmpty(size) == [b \in 0 .. size - 1 |-> NoPair]

SizeFor(least, n) ==
  least * 2^(CHOOSE i \in 0..10 : least * 2^i >= n /\ (i > 0 => least * 2^(i - 1) < n))

-----------------------------------------------------------------------------
(* The loops.                                                              *)

\* An iterator takes a window of states at a time and visits the filled slots
\* from the lowest up.  What the loops below erase is behind it already.
Visits(m, Do(_, _), x) ==
  LET f[i \in 0 .. m.size] ==
        IF i = 0 THEN x ELSE IF IsFree(m, i - 1) THEN f[i - 1] ELSE Do(f[i - 1], i - 1)
  IN  f[m.size]

\* rehash goes from the highest down.
VisitsDown(m, Do(_, _), x) ==
  LET f[i \in 0 .. m.size] ==
        IF i = 0 THEN x
        ELSE IF IsFree(m, m.size - i) THEN f[i - 1] ELSE Do(f[i - 1], m.size - i)
  IN  f[m.size]

EraseEach(m, gone, Erase(_, _)) ==
  Visits(m, LAMBDA x, b : IF m.pairs[b].first \in gone THEN Erase(x, b) ELSE x, m)

InsertEach(m, batch, v, Insert(_, _, _)) ==
  LET f[i \in 0 .. Len(batch)] ==
        IF i = 0 THEN m ELSE IF f[i - 1].stuck THEN f[i - 1] ELSE Insert(f[i - 1], batch[i], v)
  IN  f[Len(batch)]

\* What a does not hold of b goes over as new.
MergeEach(a, b, Find(_, _), Insert(_, _, _), Erase(_, _)) ==
  Visits(b, LAMBDA x, i :
              IF x.a.stuck \/ Find(x.a, b.pairs[i].first) # x.a.size THEN x
              ELSE [a |-> Insert(x.a, b.pairs[i].first, b.pairs[i].second), b |-> Erase(x.b, i)],
         [a |-> a, b |-> b])

SameElements(a, b, Find(_, _)) ==
  /\ a.filled = b.filled
  /\ \A i \in Filled(a) :
       LET j == Find(b, a.pairs[i].first)
       IN  j # b.size /\ a.pairs[i].second = b.pairs[j].second

-----------------------------------------------------------------------------
(* What is asked of a table after every call.                              *)

\* Every element is where a search for its key ends.
SoundSearch(m, Find(_, _)) == \A b \in Filled(m) : Find(m, m.pairs[b].first) = b

Seen(m, k, b, none) == IF b = m.size THEN none ELSE m.pairs[b].second
=============================================================================
