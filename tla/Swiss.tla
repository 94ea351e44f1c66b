------------------------------- MODULE Swiss -------------------------------
(***************************************************************************)
(* The open-addressing tables of emilib, each as its own module has it,    *)
(* under the properties that all of them must have.  A behaviour is one of *)
(* one kind.  seen is what a search would find in each of the two tables   *)
(* after every step.                                                       *)
(***************************************************************************)
EXTENDS Integers, Sequences, FiniteSets

CONSTANTS
  Key, Hash, Value, NoValue, NoPair, Tombstone,
  Few,                  \* the keys for all kinds but long
  Kinds,                \* of the kinds below
  Narrow, Wide,         \* simd_bytes for all kinds but map1, and for map1
  FixedOne, LoadFactors, MXLOAD_FACTOR, OFFSET_STEP,
  Plain, Batches, Requests,
  Careful,              \* the caller of emihmap1 is
  OtherMax              \* for each kind the most slots in use of the other table, -1 for no array

VARIABLES kind, t, rhs, ret, seen

vars == <<kind, t, rhs, ret, seen>>

\* emihmap1 and emihset2 are there twice: tight has groups with one slot in
\* use, few enough for the keys to take them all, and long has a key more, enough
\* to leave a tombstone in every slot.
Map1 == INSTANCE EmihMap1 WITH Key <- Few, simd_bytes <- Wide
Tight == INSTANCE EmihMap1 WITH Key <- Few, simd_bytes <- Narrow, MXLOAD_FACTOR <- 1
Map2 == INSTANCE EmihMap2 WITH Key <- Few, simd_bytes <- Narrow, DefaultLoad <- 840
Map3 == INSTANCE EmihMap3 WITH Key <- Few, simd_bytes <- Narrow, DefaultLoad <- 840
Set2 == INSTANCE EmihSet2 WITH Key <- Few, simd_bytes <- Narrow
Long == INSTANCE EmihSet2 WITH simd_bytes <- Narrow
Set3 == INSTANCE EmihSet3 WITH Key <- Few, simd_bytes <- Narrow, DefaultLoad <- 800

Find(m, k) ==
  CASE kind = "map1" -> Map1!FindFilledBucket(m, k)
    [] kind = "tight" -> Tight!FindFilledBucket(m, k)
    [] kind = "map2" -> Map2!FindFilledBucket(m, k)
    [] kind = "map3" -> Map3!FindFilledBucket(m, k)
    [] kind = "set2" -> Set2!FindFilledBucket(m, k)
    [] kind = "long" -> Long!FindFilledBucket(m, k)
    [] kind = "set3" -> Set3!FindFilledBucket(m, k)

Contents(m) == [k \in Key |-> Map1!Seen(m, k, Find(m, k), NoValue)]

Init ==
  /\ kind \in Kinds
  /\ CASE kind = "map1" -> Map1!Init
       [] kind = "tight" -> Tight!Init
       [] kind = "map2" -> Map2!Init
       [] kind = "map3" -> Map3!Init
       [] kind = "set2" -> Set2!Init
       [] kind = "long" -> Long!Init
       [] kind = "set3" -> Set3!Init
  /\ seen = <<Contents(t), Contents(rhs)>>

\* A step of one kind, and what the searches find after it.  A call that does
\* not return shows nothing.
Frame ==
  /\ rhs'.size = 0 \/ Map1!Used(rhs') =< OtherMax[kind]
  /\ \E now \in {<<t', rhs'>>} :
       seen' = IF now[1].stuck \/ now[2].stuck THEN seen
               ELSE <<IF now[1] = t THEN seen[1] ELSE Contents(now[1]),
                      IF now[2] = rhs THEN seen[2] ELSE Contents(now[2])>>
  /\ UNCHANGED kind

\* A probe that goes round for ever does nothing else any more.
Hang == (t.stuck \/ rhs.stuck) /\ UNCHANGED vars

Next ==
  \/ Hang
  \/ kind = "map1" /\ Map1!Next /\ Frame
  \/ kind = "tight" /\ Tight!Next /\ Frame
  \/ kind = "map2" /\ Map2!Next /\ Frame
  \/ kind = "map3" /\ Map3!Next /\ Frame
  \/ kind = "set2" /\ Set2!Next /\ Frame
  \/ kind = "long" /\ Long!Next /\ Frame
  \/ kind = "set3" /\ Set3!Next /\ Frame

Spec == Init /\ [][Next]_vars

-----------------------------------------------------------------------------

\* Every element is found, wherever erasures, reused tombstones, rehashes and
\* clearing have left the lengths that end a search.
LookupExact == Map1!SoundSearch(t, Find) /\ Map1!SoundSearch(rhs, Find)

\* emihmap1 never uses the last slot of a group.
Usable(m) ==
  CASE kind = "map1" -> m.size - m.size \div Wide
    [] kind = "tight" -> m.size - m.size \div Narrow

\* emihmap1, rehashed to an array of which it can use fewer slots than the n
\* elements it had; the assertion of rehash counts all slots.
Cramped(m, n) == kind \in {"map1", "tight"} /\ Usable(m) < n

\* emihset2, cleared without elements when every slot was a tombstone: the end of
\* a search from slot 0 is computed from -1, and it never comes.
Worn(m) == kind \in {"set2", "long"} /\ m.probe = -1 /\ Map1!EmptyIn(m, Map1!Slots(m)) = {}

Stored(contents) == { k \in Key : contents[k] # NoValue }

\* A probe for a free slot goes round for ever only if its table is Cramped or
\* Worn, which calls that every caller may make can bring about.  In all other
\* cases it ends, however full an insertion, a range, rehash or shrink_to_fit has
\* made the array under an accepted load factor, and after any mix of erasures and
\* clearing.  (emihset3 has a third case, arrays of 128 slots: see MCSwiss.)
ProbeHasRoom ==
  \A i \in {1, 2} :
    LET m == <<t, rhs>>[i]
    IN  m.stuck => Cramped(m, Cardinality(Stored(seen[i]))) \/ Worn(m)

\* The windows a search for k looks at before the one that has it.
Before(m, k) ==
  LET b == Find(m, k)
      At(i) == CASE kind = "map1" -> Map1!At(m, Map1!Main(m, k), i)
                 [] kind = "tight" -> Tight!At(m, Tight!Main(m, k), i)
                 [] kind = "map2" -> Map2!At(m, Map2!Main(m, k), i)
                 [] kind = "map3" -> Map3!At(m, Map3!Main(m, k), i)
                 [] kind = "set2" -> Set2!At(m, Set2!Main(m, k), i)
                 [] kind = "long" -> Long!At(m, Long!Main(m, k), i)
                 [] kind = "set3" -> Set3!At(m, Set3!Main(m, k), i)
      n == Map1!FirstTurn(0, Map1!Turns(m), LAMBDA i : b \in At(i))
  IN  UNION { At(i) : i \in 0 .. n - 1 }

\* No element lies behind an empty slot, which would end the search for it:
\* an erasure makes a slot empty only where no search goes past it.
SearchUnbroken ==
  \A m \in {t, rhs} : \A k \in Map1!Keys(m) : Map1!EmptyIn(m, Before(m, k)) = {}

\* Two abstract maps, and that each kind implements them.
Abstract == INSTANCE MapPairSpec WITH map <- seen[1], other <- seen[2]
ImplementsMaps == Abstract!Spec
=============================================================================
