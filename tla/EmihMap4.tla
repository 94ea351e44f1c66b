------------------------------ MODULE EmihMap4 ------------------------------
(***************************************************************************)
(* emilib4::HashMap (include/emilib/emihmap4.hpp), and two of them for the *)
(* calls that take another.  Slots come in groups of N.  An insertion that *)
(* finds a group full leaves a bit there, one of Classes bits chosen by    *)
(* the hash, and only that bit sends a search on to the next group, so no  *)
(* tombstones are needed; but an erasure where the bit is set lowers the   *)
(* number of elements at which the map grows.  A call is one step, but a   *)
(* growth moves one element at a time, and a range and a merge insert one  *)
(* element at a time.                                                      *)
(*                                                                         *)
(* A map is a record: groups (0 while there is no array), slots, over (the *)
(* overflow bits of each group), filled and max (_num_filled, _max_load).  *)
(* The reduced hash a slot shows only saves comparing keys.                *)
(***************************************************************************)
EXTENDS Integers, Sequences, FiniteSets

CONSTANTS
  Key, Value, NoValue, NoPair,
  Hash,          \* hash_for, a number below HashRange for each key
  HashRange,     \* 2^64
  GroupCounts,   \* the numbers of groups of an array: powers of two, from 2
  N,             \* slots of a group (15)
  Classes,       \* bits of the overflow byte (8)
  MaxLoad,       \* mlf, in 1/1000 (875)
  Batches,       \* the ranges a call may insert: sequences of keys
  Requests,      \* the arguments of reserve and rehash
  OtherMax, OtherGroups  \* bounds on the elements and groups that move into rhs

Pair == [first : Key, second : Value]

Position(k, groups) == Hash[k] \div (HashRange \div groups)

\* The group of turn i of quadratic_prober: triangular steps.
Turn(position, i, groups) == (position + (i * (i + 1)) \div 2) % groups

ASSUME PairAssumption == NoPair \notin Pair /\ NoValue \notin Value
ASSUME SizeAssumption ==
  /\ N \in Nat \ {0} /\ Classes \in Nat \ {0} /\ MaxLoad \in 1 .. 1000
  /\ GroupCounts \subseteq Nat \ {0, 1}
  /\ Requests \subseteq Nat /\ Batches \subseteq Seq(Key)
ASSUME HashAssumption ==
  /\ Hash \in [Key -> Nat]
  /\ \A k \in Key, g \in GroupCounts : Position(k, g) \in 0 .. g - 1
\* With a power of two the prober comes to every group.
ASSUME ProberAssumption ==
  \A g \in GroupCounts : \A p \in 0 .. g - 1 :
    { Turn(p, i, g) : i \in 0 .. g - 1 } = 0 .. g - 1

VARIABLES
  t, rhs,    \* the two maps
  old,       \* the slots of the old array of t, as far as they have still to move
  todo,      \* the elements the running call has still to insert
  at,        \* where a merge is in rhs, else NoSlot
  ret,       \* the flag the last call returned
  pc         \* "ready" between calls, else what the call is doing

vars == <<t, rhs, old, todo, at, ret, pc>>

-----------------------------------------------------------------------------
(* Reading a map.                                                          *)

\* The last slot of the last group holds the sentinel that ends an iteration.
Capacity(groups) == IF groups = 0 THEN 0 ELSE groups * N - 1

Slots(m) == 0 .. Capacity(m.groups) - 1
Filled(m) == { s \in Slots(m) : m.slots[s] # NoPair }
Keys(m) == { m.slots[s].first : s \in Filled(m) }
FreeIn(m, g) == { s \in Slots(m) : s \div N = g /\ m.slots[s] = NoPair }

Class(k) == Hash[k] % Classes
Probe(m, k, i) == Turn(Position(k, m.groups), i, m.groups)

\* The turns a search for k comes to: each group before sends it on.
Reached(m, k) ==
  { i \in 0 .. m.groups - 1 : \A j \in 0 .. i - 1 : Class(k) \in m.over[Probe(m, k, j)] }

Hits(m, k) ==
  { s \in Filled(m) : m.slots[s].first = k /\ \E i \in Reached(m, k) : Probe(m, k, i) = s \div N }

NoSlot == -1
Find(m, k) == IF Hits(m, k) = {} THEN NoSlot ELSE CHOOSE s \in Hits(m, k) : TRUE
Has(m, k) == Find(m, k) # NoSlot

Lowest(S) == CHOOSE x \in S : \A y \in S : x =< y

-----------------------------------------------------------------------------
(* Changing a map.                                                         *)

\* Mutant: the sentinel is counted as a slot.
InitialMaxLoadOfAll(groups) ==
  IF groups * N =< 2 * N THEN groups * N ELSE (MaxLoad * groups * N) \div 1000

InitialMaxLoad(groups) ==
  LET capacity == Capacity(groups)
  IN  IF capacity =< 2 * N - 1 THEN capacity ELSE (MaxLoad * capacity) \div 1000

NewArrays(groups) ==
  [groups |-> groups, filled |-> 0, max |-> InitialMaxLoad(groups),
   slots |-> [s \in 0 .. Capacity(groups) - 1 |-> NoPair],
   over |-> [g \in 0 .. groups - 1 |-> {}]]

Null == NewArrays(0)

\* The first turn to a group with a free slot.
FreeTurn(m, k) == Lowest({ i \in 0 .. m.groups - 1 : FreeIn(m, Probe(m, k, i)) # {} })

\* The bits left in the groups before turn i.
Marked(m, k, i) ==
  [g \in DOMAIN m.over |->
    IF \E j \in 0 .. i - 1 : Probe(m, k, j) = g THEN m.over[g] \cup {Class(k)} ELSE m.over[g]]

\* Mutant: only the first group is marked.
PlacedMarkingFirst(m, k, v) ==
  LET i == FreeTurn(m, k)
      s == Lowest(FreeIn(m, Probe(m, k, i)))
  IN  [m EXCEPT !.slots = [m.slots EXCEPT ![s] = [first |-> k, second |-> v]],
                !.over = Marked(m, k, IF i > 1 THEN 1 ELSE i), !.filled = m.filled + 1]

\* find_empty_slot_and_insert.
Placed(m, k, v) ==
  LET i == FreeTurn(m, k)
      s == Lowest(FreeIn(m, Probe(m, k, i)))
  IN  [m EXCEPT !.slots = [m.slots EXCEPT ![s] = [first |-> k, second |-> v]],
                !.over = Marked(m, k, i), !.filled = m.filled + 1]

\* maybe_caused_overflow, of the element in slot s.
CausedOverflow(m, s) == Class(m.slots[s].first) \in m.over[s \div N]

Erased(m, gone) ==
  [m EXCEPT !.slots = [s \in Slots(m) |-> IF s \in gone THEN NoPair ELSE m.slots[s]],
            !.filled = m.filled - Cardinality(gone),
            !.max = m.max - Cardinality({ s \in gone : CausedOverflow(m, s) })]

Cleared(m) == IF m.filled = 0 THEN m ELSE NewArrays(m.groups)

-----------------------------------------------------------------------------
(* How many groups.                                                        *)

\* Elements divided by the load factor, rounded up.
ByLoad(n) == (1000 * n + MaxLoad - 1) \div MaxLoad

Larger(a, b) == IF a > b THEN a ELSE b

Enough(n) == { g \in GroupCounts : g > n \div N }
GroupsFor(n) == Lowest(Enough(n))

\* What rehash_impl(n) makes room for; nothing, for an empty map and n = 0.
Wanted(m, n) == Larger(n, Larger(m.filled, ByLoad(m.filled)))
GroupsOf(m, n) == IF Wanted(m, n) = 0 THEN 0 ELSE GroupsFor(Wanted(m, n))

\* What unchecked_emplace_with_rehash makes room for: more than there is, even
\* if erasures have left it too little to count.
Growing(m) == ByLoad(m.filled + m.filled \div 61 + 1)
Leap(m) == Capacity(m.groups) + 2 * N
Growth(m) == IF GroupsFor(Growing(m)) > m.groups THEN GroupsFor(Growing(m)) ELSE GroupsFor(Leap(m))

\* The bound of the model: a call that may ask for a larger array does not start.
Allocatable(m, n) == Enough(Wanted(m, n)) # {}
MayGrow(m) == Enough(Growing(m)) # {} /\ Enough(Leap(m)) # {}
CanTake(m, n) == m.filled + n =< m.max \/ MayGrow(m)

-----------------------------------------------------------------------------
(* The steps of a call.                                                    *)

\* What a call does when what it is doing is done.
Rest(pairs, slot) == IF pairs # <<>> THEN "insert" ELSE IF slot # NoSlot THEN "erase" ELSE "ready"

\* rehash_impl(n), with the insertions that follow it.
Resize(m, n, pairs) ==
  /\ pc = "ready" /\ Allocatable(m, n)
  /\ IF GroupsOf(m, n) = m.groups
     THEN CanTake(m, Len(pairs)) /\ t' = m /\ old' = <<>> /\ pc' = Rest(pairs, NoSlot)
     ELSE t' = NewArrays(GroupsOf(m, n)) /\ old' = m.slots /\ pc' = "transfer"
  /\ todo' = pairs /\ ret' = FALSE /\ UNCHANGED <<rhs, at>>

\* do_insert for a key that is not there: into the array, or into a new one
\* before what is in the old one.
Store(k, v, pairs, slot) ==
  IF t.filled < t.max
  THEN t' = Placed(t, k, v) /\ old' = <<>> /\ pc' = Rest(pairs, slot)
  ELSE /\ MayGrow(t)
       /\ t' = Placed(NewArrays(Growth(t)), k, v)
       /\ old' = t.slots /\ pc' = "transfer"

\* The elements of the old array that have still to move.
Unmoved == { s \in DOMAIN old : old[s] # NoPair }

\* Mutant: the bit of what has moved is left in the mask.
TransferAgain ==
  /\ pc = "transfer" /\ Unmoved # {}
  /\ LET s == Lowest(Unmoved)
     IN  t' = Placed(t, old[s].first, old[s].second)
  /\ UNCHANGED <<rhs, old, todo, at, ret, pc>>

Transfer ==
  /\ pc = "transfer" /\ Unmoved # {}
  /\ LET s == Lowest(Unmoved)
     IN  t' = Placed(t, old[s].first, old[s].second) /\ old' = [old EXCEPT ![s] = NoPair]
  /\ UNCHANGED <<rhs, todo, at, ret, pc>>

TransferDone ==
  /\ pc = "transfer" /\ Unmoved = {}
  /\ old' = <<>> /\ pc' = Rest(todo, at)
  /\ UNCHANGED <<t, rhs, todo, at, ret>>

InsertNext ==
  /\ pc = "insert"
  /\ todo' = Tail(todo)
  /\ IF Has(t, Head(todo).first)
     THEN UNCHANGED <<t, old>> /\ pc' = Rest(Tail(todo), NoSlot)
     ELSE Store(Head(todo).first, Head(todo).second, Tail(todo), NoSlot)
  /\ UNCHANGED <<rhs, at, ret>>

\* The slot an iterator at s goes to.
Following(m, s) ==
  LET later == { x \in Filled(m) : x > s } IN IF later = {} THEN NoSlot ELSE Lowest(later)

Walk(s) == at' = s /\ pc' = IF s = NoSlot THEN "ready" ELSE "merge"

\* merge: a key that t has stays in rhs, another comes over.
MergeNext ==
  /\ pc = "merge"
  /\ IF Has(t, rhs.slots[at].first)
     THEN Walk(Following(rhs, at)) /\ UNCHANGED <<t, old>>
     ELSE Store(rhs.slots[at].first, rhs.slots[at].second, <<>>, at) /\ UNCHANGED at
  /\ UNCHANGED <<rhs, todo, ret>>

\* Mutant: what has come over stays in rhs as well.
MergeEraseNot ==
  /\ pc = "erase"
  /\ Walk(Following(rhs, at))
  /\ UNCHANGED <<t, rhs, old, todo, ret>>

MergeErase ==
  /\ pc = "erase"
  /\ Walk(Following(rhs, at))
  /\ rhs' = Erased(rhs, {at})
  /\ UNCHANGED <<t, old, todo, ret>>

Internal == Transfer \/ TransferDone \/ InsertNext \/ MergeNext \/ MergeErase

-----------------------------------------------------------------------------
(* The calls.                                                              *)

Becomes(m, other, flag) ==
  /\ pc = "ready"
  /\ t' = m /\ rhs' = other /\ ret' = flag
  /\ UNCHANGED <<old, todo, at, pc>>

\* insert, emplace, try_emplace, operator[] and insert_unique.
Insert(k, v) ==
  IF Has(t, k) THEN Becomes(t, rhs, FALSE)
  ELSE /\ pc = "ready" /\ Store(k, v, <<>>, NoSlot) /\ ret' = TRUE
       /\ UNCHANGED <<rhs, todo, at>>

InsertOrAssign(k, v) ==
  IF Has(t, k)
  THEN Becomes([t EXCEPT !.slots = [t.slots EXCEPT ![Find(t, k)] = [first |-> k, second |-> v]]],
               rhs, FALSE)
  ELSE Insert(k, v)

\* The elements of a range, all with one value.
Elements(batch, v) == [i \in DOMAIN batch |-> [first |-> batch[i], second |-> v]]

InsertRange(batch, v) == Resize(t, t.filled + Len(batch), Elements(batch, v))

\* The constructors from a range.
Build(batch, v) == Resize(Null, Len(batch), Elements(batch, v))

\* reserve, rehash, shrink_to_fit.
Reserve(n) == Resize(t, n, <<>>)

EraseKey(k) ==
  Becomes(IF Has(t, k) THEN Erased(t, {Find(t, k)}) ELSE t, rhs, Has(t, k))

EraseIterator(s) == Becomes(Erased(t, {s}), rhs, FALSE)

EraseIf(gone) == Becomes(Erased(t, { s \in Filled(t) : t.slots[s].first \in gone }), rhs, FALSE)

Clear == Becomes(Cleared(t), rhs, FALSE)

\* clone, into an old map and into a new one.
Clone(m) == IF rhs.filled = 0 THEN Cleared(m) ELSE rhs

\* The bound of the model on what is moved into rhs.
Small(m) == m.filled =< OtherMax /\ m.groups =< OtherGroups /\ m.max >= InitialMaxLoad(m.groups)

MoveAway(left) == Small(left) /\ Becomes(rhs, left, FALSE)

SameElements ==
  /\ t.filled = rhs.filled
  /\ \A s \in Filled(t) :
       LET k == t.slots[s].first
       IN  Has(rhs, k) /\ rhs.slots[Find(rhs, k)].second = t.slots[s].second

Merge ==
  /\ pc = "ready" /\ CanTake(t, rhs.filled) /\ ret' = FALSE
  /\ Walk(Following(rhs, NoSlot))
  /\ UNCHANGED <<t, rhs, old, todo>>

Init ==
  /\ \E n \in Requests \cup {0} : Allocatable(Null, n) /\ t = NewArrays(GroupsOf(Null, n))
  /\ rhs = Null /\ old = <<>> /\ todo = <<>>
  /\ at = NoSlot /\ ret = FALSE /\ pc = "ready"

OneMap ==
  \/ \E k \in Key : EraseKey(k) \/ \E v \in Value : Insert(k, v) \/ InsertOrAssign(k, v)
  \/ \E batch \in Batches, v \in Value : InsertRange(batch, v) \/ Build(batch, v)
  \/ \E n \in Requests \cup {0} : Reserve(n)
  \/ \E s \in Filled(t) : EraseIterator(s)
  \/ \E gone \in SUBSET Keys(t) : EraseIf(gone)
  \/ Clear

TwoMaps ==
  \/ Becomes(Clone(t), rhs, FALSE)
  \/ Becomes(Clone(Null), rhs, FALSE)
  \/ MoveAway(Null)          \* the constructor that moves
  \/ MoveAway(Cleared(t))    \* the assignment that moves
  \/ MoveAway(t)             \* swap
  \/ Becomes(t, rhs, SameElements)
  \/ Merge

Next == Internal \/ OneMap \/ TwoMaps

Spec == Init /\ [][Next]_vars

-----------------------------------------------------------------------------
(* Properties.                                                             *)

\* A search finds exactly the keys that are stored, at every moment: no
\* erasure, growth or merge leaves an element behind a group whose overflow
\* byte stops the search (find, find_locator_at).
LookupExact ==
  \A k \in Key : (Has(t, k) <=> k \in Keys(t)) /\ (Has(rhs, k) <=> k \in Keys(rhs))

\* The search for a free slot ends: there is one whenever the counters let an
\* element in, and whenever one has still to move.  The loop of
\* find_empty_slot_and_insert has no other end, and the limit it relies on is
\* lowered by erasures.
ProbeHasRoom ==
  /\ t.filled < t.max \/ Unmoved # {} => \E g \in 0 .. t.groups - 1 : FreeIn(t, g) # {}
  /\ rhs.filled < rhs.max => \E g \in 0 .. rhs.groups - 1 : FreeIn(rhs, g) # {}

\* Every call returns: each step of it leaves less to insert, less of the other
\* map to walk over, or less to move before it goes on.
Ahead == IF at = NoSlot THEN {} ELSE { s \in Slots(rhs) : s >= at }
Phase == CASE pc = "merge" -> 3 [] pc = "transfer" -> 2 [] pc \in {"erase", "insert"} -> 1 [] OTHER -> 0

LeavesLess ==
  \/ Len(todo') < Len(todo)
  \/ Cardinality(Ahead') < Cardinality(Ahead)
  \/ UNCHANGED <<todo, at>> /\ Phase' < Phase
  \/ UNCHANGED <<todo, at, pc>> /\ Cardinality(Unmoved') < Cardinality(Unmoved)

CallsReturn == [][pc # "ready" => LeavesLess]_vars

Stores(slots, k) == \E s \in DOMAIN slots : slots[s] # NoPair /\ slots[s].first = k
ValueIn(slots, k) ==
  IF Stores(slots, k)
  THEN slots[CHOOSE s \in DOMAIN slots : slots[s] # NoPair /\ slots[s].first = k].second
  ELSE NoValue

\* A growth leaves the elements in two arrays.
Held(k) == Stores(t.slots, k) \/ Stores(old, k)
HeldValue(k) == IF Stores(t.slots, k) THEN ValueIn(t.slots, k) ELSE ValueIn(old, k)

\* The slot of the key that a merge has inserted and not erased yet.
Moving == IF pc \in {"transfer", "erase"} THEN at ELSE NoSlot

\* What the running call will have stored when it returns.
Asked(pairs, k) == { i \in DOMAIN pairs : pairs[i].first = k }
MapOf(k) ==
  IF Held(k) THEN HeldValue(k)
  ELSE IF Asked(todo, k) # {} THEN todo[Lowest(Asked(todo, k))].second
  ELSE IF at # NoSlot THEN ValueIn(rhs.slots, k)
  ELSE NoValue

\* What it will have left in the other map.
OtherOf(k) ==
  IF /\ at # NoSlot => Held(k)
     /\ Moving # NoSlot => rhs.slots[Moving].first # k
  THEN ValueIn(rhs.slots, k) ELSE NoValue

Contents == [k \in Key |-> MapOf(k)]
OtherContents == [k \in Key |-> OtherOf(k)]

Maps == INSTANCE MapPairSpec WITH map <- Contents, other <- OtherContents

\* Two maps are two partial functions: every call, however many steps it
\* takes, does to them what it promises, keeps every other element and returns
\* the right flag.
ImplementsMaps == Maps!Spec
=============================================================================
