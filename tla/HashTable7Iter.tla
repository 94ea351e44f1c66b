--------------------------- MODULE HashTable7Iter ---------------------------
(***************************************************************************)
(* The iterators of emhash7::HashMap and the loops that are driven by one: *)
(* erase_if, a traversal (erase_if with nothing wanted), and clearkv, the  *)
(* loop of clear() and of the destructor for elements with a destructor.   *)
(*                                                                         *)
(* An iterator keeps a copy of the rest of its word of the bitmask, and    *)
(* the loops erase while they go: an erasure may empty the bucket it is    *)
(* at, or move an element into it from anywhere in the table.              *)
(***************************************************************************)
EXTENDS HashTable7

Lazy == -1   \* size_type(-1): the copy has not been taken yet

VARIABLES
  loop,        \* "none", or the loop that is running
  it,          \* its iterator: bucket, first bucket of its word, rest of it
  want,        \* the keys the predicate of erase_if holds for
  start,       \* what the table held when the loop began
  seen         \* the keys the loop has met and kept

iterating == <<loop, it, want, start, seen>>
iterVars == <<vars, iterating>>

Iterator(b, from, rest) == [bucket |-> b, from |-> from, bmask |-> rest]

End == num_buckets

\* The bits of word w that are 0 in the bitmask bm.  Those past the last bucket
\* are 0 as well, up to the BIT_PACK bytes behind the bitmask.
FilledBits(bm, w) == { b \in w * SizeBit .. (w + 1) * SizeBit - 1 : b \notin bm }

\* init, for an iterator whose copy has not been taken.
InitIterator(i, bm) ==
  LET w == i.bucket \div SizeBit
  IN  IF i.from # Lazy THEN i
      ELSE Iterator(i.bucket, w * SizeBit,
                    IF i.bucket < num_buckets
                    THEN { b \in FilledBits(bm, w) : b >= i.bucket } ELSE {})

\* goto_next_element: the rest of this word, or the next word with a 0 in it.
GotoNext(i, bm) ==
  LET here == i.from \div SizeBit
      w == Lowest({ x \in here + 1 .. num_buckets \div SizeBit + 1 : FilledBits(bm, x) # {} })
  IN  IF i.bmask # {} THEN [i EXCEPT !.bucket = Lowest(i.bmask)]
      ELSE Iterator(Lowest(FilledBits(bm, w)), w * SizeBit, FilledBits(bm, w))

\* operator++: the lowest bit of the copy is that of the bucket it is at.
Advance(i, bm) ==
  LET j == InitIterator(i, bm)
  IN  GotoNext([j EXCEPT !.bmask = IF @ = {} THEN {} ELSE @ \ {Lowest(@)}], bm)

Begin ==
  IF FilledBits(bitmask, 0) # {} THEN Iterator(Lowest(FilledBits(bitmask, 0)), Lazy, {})
  ELSE GotoNext(InitIterator(Iterator(SizeBit - 1, Lazy, {}), bitmask), bitmask)

\* Mutant: the copy is taken after the bit was set, when ++ needs it.
AfterEraseLate(i, freed) ==
  IF freed = i.bucket THEN Advance(i, bitmask')
  ELSE LET j == InitIterator(i, bitmask')
       IN  [j EXCEPT !.bmask = IF j.bucket \div SizeBit = freed \div SizeBit
                               THEN @ \ {freed} ELSE @]

\* Mutant: clear(bucket) forgotten for an element that was moved.
AfterEraseStale(i, freed) ==
  LET j == InitIterator(i, bitmask)
  IN  IF freed = j.bucket THEN Advance(j, bitmask') ELSE j

\* Where erase(iterator) leaves the iterator, if it gave up the bucket freed:
\* it stays when another element was moved into its bucket.
AfterErase(i, freed) ==
  LET j == InitIterator(i, bitmask)
  IN  IF freed = j.bucket THEN Advance(j, bitmask')
      ELSE [j EXCEPT !.bmask = IF j.bucket \div SizeBit = freed \div SizeBit
                               THEN @ \ {freed} ELSE @]

-----------------------------------------------------------------------------
LoopStart(op, keys) ==
  /\ pc = "ready" /\ loop = "none"
  /\ loop' = op
  /\ it' = Begin
  /\ want' = keys
  /\ start' = TableElements
  /\ seen' = {}
  /\ UNCHANGED vars

EraseIf(keys) == LoopStart("erase_if", keys)

\* The loop begins only if there is an element to clear.
ClearKV == num_filled > 0 /\ LoopStart("clearkv", {})

Here == pairs[it.bucket].first

\* Mutant: only an erasure moves the iterator on.
KeepStays ==
  /\ loop = "erase_if" /\ it.bucket # End /\ Here \notin want
  /\ it' = InitIterator(it, bitmask)
  /\ seen' = seen \cup {Here}
  /\ UNCHANGED <<vars, loop, want, start>>

\* The predicate does not hold for the element the iterator is at.
Keep ==
  /\ loop = "erase_if" /\ it.bucket # End /\ Here \notin want
  /\ it' = Advance(it, bitmask)
  /\ seen' = seen \cup {Here}
  /\ UNCHANGED <<vars, loop, want, start>>

EraseHere ==
  /\ loop = "erase_if" /\ it.bucket # End /\ Here \in want
  /\ EraseBucket(it.bucket)
  /\ it' = AfterErase(it, CHOOSE b \in bitmask' : b \notin bitmask)
  /\ UNCHANGED <<ret, loop, want, start, seen>>

\* clear_bucket, and on: the chains are not looked after any more.
ClearHere ==
  /\ loop = "clearkv" /\ num_filled > 0
  /\ bitmask' = bitmask \cup {it.bucket}
  /\ pairs' = [pairs EXCEPT ![it.bucket] = NoPair]
  /\ num_filled' = num_filled - 1
  /\ it' = Advance(InitIterator(it, bitmask), bitmask')
  /\ UNCHANGED <<last, num_buckets, mlf, moving, todo, ret, pc, loop, want, start, seen>>

LoopDone ==
  /\ \/ loop = "erase_if" /\ it.bucket = End
     \/ loop = "clearkv" /\ num_filled = 0
  /\ loop' = "none"
  /\ it' = Iterator(0, Lazy, {})
  /\ want' = {} /\ start' = {} /\ seen' = {}
  /\ UNCHANGED vars

IterInit ==
  /\ Init
  /\ loop = "none" /\ it = Iterator(0, Lazy, {})
  /\ want = {} /\ start = {} /\ seen = {}

LoopStep == Keep \/ EraseHere \/ ClearHere \/ LoopDone

IterNext ==
  \/ loop = "none" /\ Next /\ UNCHANGED iterating
  \/ \E keys \in SUBSET Key : EraseIf(keys)
  \/ ClearKV
  \/ LoopStep

IterSpec == IterInit /\ [][IterNext]_iterVars

\* The loops belong to calls of a program with one thread.
FairIterSpec == IterSpec /\ WF_iterVars(LoopStep)

-----------------------------------------------------------------------------
(* Properties.                                                             *)

\* A loop only ever reads or destroys an element that is alive: whatever its
\* erasures move, the iterator is at a filled bucket or at the end, and what
\* is left of its copy of the word is what the bitmask says.
IteratorIsLive ==
  /\ loop = "erase_if" => it.bucket = End \/ it.bucket \in Filled
  /\ loop = "clearkv" /\ num_filled > 0 => it.bucket \in Filled
  /\ loop # "none" /\ it.from # Lazy /\ it.bucket # End =>
       it.bmask = { b \in FilledBits(bitmask, it.from \div SizeBit) : b >= it.bucket }

\* Whatever erase_if erases and moves on its way, it never passes an element it
\* has not judged, nor the end, and loses none it was not asked to remove: at the
\* end, what is left is exactly what the predicate does not hold for.
EraseIfExact ==
  loop = "erase_if" =>
    /\ it.bucket =< End
    /\ \A b \in Filled : pairs[b].first \notin seen => b >= it.bucket
    /\ TableElements \subseteq start
    /\ \A e \in start : e[1] \notin want => e \in TableElements
    /\ ChainsSound

\* Every loop ends, erase_if although an erasure may leave its iterator where
\* it is, clearkv although it stops by the counter and not at the end.
LoopsReturn == (loop # "none") ~> (loop = "none")
=============================================================================
