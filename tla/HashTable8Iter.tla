--------------------------- MODULE HashTable8Iter ---------------------------
(***************************************************************************)
(* The loops of emhash8::HashMap that erase while they walk the array of   *)
(* elements: erase_if, and erase(first, last).  An iterator is a slot; an  *)
(* erasure moves the last element into the slot it frees, so the elements  *)
(* still to come change their order under the loop.                        *)
(***************************************************************************)
EXTENDS HashTable8

VARIABLES
  loop,          \* "none", "erase_if", or the first or second loop of a range
  it,            \* the iterator
  esize, tsize,  \* what a range has still to erase, and has behind it
  want,          \* the keys the call is to remove
  start          \* what the table held when it began

iterating == <<loop, it, esize, tsize, want, start>>
iterVars == <<vars, iterating>>

End == num_filled

Here == pairs[it].first

-----------------------------------------------------------------------------
LoopStart(op, keys) ==
  /\ pc = "ready" /\ loop = "none"
  /\ loop' = op
  /\ want' = keys
  /\ start' = Elements
  /\ UNCHANGED vars

\* The keys the predicate holds for, of those that are stored.
EraseIf(keys) ==
  /\ LoopStart("erase_if", keys)
  /\ it' = 0 /\ esize' = 0 /\ tsize' = 0

\* erase(first, last) for 0 =< from =< to =< num_filled.
EraseRange(from, to) ==
  /\ LoopStart("head", { pairs[s].first : s \in from .. to - 1 })
  /\ it' = from
  /\ esize' = to - from
  /\ tsize' = num_filled - to

\* Mutant: only an erasure moves the iterator on.
KeepStays ==
  /\ loop = "erase_if" /\ it # End /\ Here \notin want
  /\ UNCHANGED <<vars, iterating>>

Keep ==
  /\ loop = "erase_if" /\ it # End /\ Here \notin want
  /\ it' = it + 1
  /\ UNCHANGED <<vars, loop, esize, tsize, want, start>>

\* Mutant: the loop goes on behind what it erased.
EraseHereSkips ==
  /\ loop = "erase_if" /\ it # End /\ Here \in want
  /\ EraseAt(it)
  /\ it' = IF it = num_filled' THEN it ELSE it + 1
  /\ UNCHANGED <<ret, loop, esize, tsize, want, start>>

\* The iterator stays, at the element that was moved to it or at the end.
EraseHere ==
  /\ loop = "erase_if" /\ it # End /\ Here \in want
  /\ EraseAt(it)
  /\ UNCHANGED <<ret, iterating>>

\* Mutant: the loop goes upwards through the whole range.
EraseFirstAll ==
  /\ loop = "head" /\ esize > 0
  /\ EraseAt(it)
  /\ it' = it + 1
  /\ esize' = esize - 1 /\ tsize' = tsize - 1
  /\ UNCHANGED <<ret, loop, want, start>>

\* As long as elements behind the range are left to fill its slots, the loop
\* goes upwards.
EraseFirst ==
  /\ loop = "head" /\ tsize > 0 /\ esize > 0
  /\ EraseAt(it)
  /\ it' = it + 1
  /\ esize' = esize - 1 /\ tsize' = tsize - 1
  /\ UNCHANGED <<ret, loop, want, start>>

\* Then what is left of the range lies at the end of the array.
TurnRound ==
  /\ loop = "head" /\ (tsize = 0 \/ esize = 0)
  /\ loop' = "tail"
  /\ it' = num_filled - 1
  /\ UNCHANGED <<vars, esize, tsize, want, start>>

EraseLast ==
  /\ loop = "tail" /\ esize > 0
  /\ EraseAt(it)
  /\ it' = it - 1
  /\ esize' = esize - 1
  /\ UNCHANGED <<ret, loop, tsize, want, start>>

LoopDone ==
  /\ \/ loop = "erase_if" /\ it = End
     \/ loop = "tail" /\ esize = 0
  /\ loop' = "none"
  /\ it' = 0 /\ esize' = 0 /\ tsize' = 0
  /\ want' = {} /\ start' = {}
  /\ UNCHANGED vars

IterInit ==
  /\ Init
  /\ loop = "none" /\ it = 0 /\ esize = 0 /\ tsize = 0
  /\ want = {} /\ start = {}

LoopStep == Keep \/ EraseHere \/ EraseFirst \/ TurnRound \/ EraseLast \/ LoopDone

IterNext ==
  \/ loop = "none" /\ Next /\ UNCHANGED iterating
  \/ \E keys \in SUBSET { e[1] : e \in Elements } : EraseIf(keys)
  \/ \E from, to \in 0 .. num_filled : from =< to /\ EraseRange(from, to)
  \/ LoopStep

IterSpec == IterInit /\ [][IterNext]_iterVars

\* A loop that was begun goes on: the program has one thread.
FairIterSpec == IterSpec /\ WF_iterVars(LoopStep)

-----------------------------------------------------------------------------
(* Properties.                                                             *)

\* A loop erases only elements that are there: its iterator is below the end
\* whenever it still has to erase.
IteratorInRange ==
  /\ loop = "erase_if" => it \in 0 .. End
  /\ loop \in {"head", "tail"} /\ esize > 0 => it \in 0 .. End - 1

\* Whichever elements the erasures move, a loop removes exactly those it was
\* to remove: it loses no other on its way, nothing it wants is left in the
\* slots it has passed, and a range ends with nothing of it left.
LoopsExact ==
  loop # "none" =>
    /\ { e \in start : e[1] \notin want } \subseteq Elements
    /\ Elements \subseteq start
    /\ loop = "erase_if" => \A s \in 0 .. it - 1 : pairs[s].first \notin want
    /\ loop \in {"head", "tail"} =>
         esize = Cardinality({ e \in Elements : e[1] \in want })

\* Every loop ends, although an erasure of erase_if leaves its iterator where
\* it is and the end comes towards it.
LoopsReturn == (loop # "none") ~> (loop = "none")
=============================================================================
