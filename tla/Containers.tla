----------------------------- MODULE Containers -----------------------------
(***************************************************************************)
(* The maps and sets with linked chains that have no refinement of their   *)
(* own: hash_table5, hash_table6 in two builds, the calls on two maps of   *)
(* hash_table7, hash_set2, hash_set4 and hash_set8, each as its own module  *)
(* has it, under the properties that all of them must have.  A behaviour is one of *)
(* one kind, on two tables of one type.  seen is what a search would find  *)
(* in each of them after every step.                                       *)
(***************************************************************************)
EXTENDS LinkedTable

CONSTANTS
  Value, NoValue, DefaultValue,
  Kinds,                    \* of the seven kinds below
  MinLoad, LoadFactors,
  LocalProbes, LinearProbeLength, SlotSteps, SmallSet, SizeBit, MaskBit,
  Batches, Requests, Careful,
  OtherMax, MaxSize         \* the bounds on the elements of the other table and on the
                            \* buckets of both, for each kind

VARIABLES kind, t, rhs, ret, seen

vars == <<kind, t, rhs, ret, seen>>

Map5 == INSTANCE HashTable5 WITH DefaultLoad <- 800, LruSet <- TRUE
Map6 == INSTANCE HashTable6 WITH DefaultLoad <- 800, LruSet <- FALSE, PlainKey <- TRUE
Map6Swap == INSTANCE HashTable6 WITH DefaultLoad <- 800, LruSet <- TRUE, PlainKey <- FALSE
Map7 == INSTANCE HashTable7Pair WITH DefaultLoad <- 800, LruSet <- FALSE, Plain <- FALSE
Set2 == INSTANCE HashSet2 WITH DefaultLoad <- 950, LruSet <- TRUE
Set4 == INSTANCE HashSet4 WITH DefaultLoad <- 950, LruSet <- FALSE
Set8 == INSTANCE HashSet8 WITH
  MinSize <- 4, DefaultLoad <- 800, LoadFactors <- {800, 1000},
  QuadraticProbeLength <- 4, SafeGuard <- 4

\* hash_table6 believes the flag of a main bucket that it starts no chain.
Find1(m, k) ==
  IF kind \in {"map6", "map6swap"} THEN Map6!FindFilledHash(m, k) ELSE Find(m, k)

\* A bucket of hash_set8 holds the number of a slot.
Contents(m) ==
  [k \in Key |-> LET b == Find1(m, k)
                 IN  IF b = m.size THEN NoValue
                     ELSE IF kind = "set8" THEN DefaultValue ELSE m.pairs[b].second]

Init ==
  /\ kind \in Kinds
  /\ CASE kind = "map5" -> Map5!Init
       [] kind = "map6" -> Map6!Init
       [] kind = "map6swap" -> Map6Swap!Init
       [] kind = "map7" -> Map7!Init
       [] kind = "set2" -> Set2!Init
       [] kind = "set4" -> Set4!Init
       [] kind = "set8" -> Set8!Init
  /\ seen = <<Contents(t), Contents(rhs)>>

\* A step of one kind, and what the searches find after it.
Frame ==
  /\ rhs'.filled =< OtherMax[kind]
  /\ t'.size =< MaxSize[kind] /\ rhs'.size =< MaxSize[kind]
  /\ seen' = <<Contents(t'), IF rhs' = rhs THEN seen[2] ELSE Contents(rhs')>>
  /\ UNCHANGED kind

Next ==
  \/ kind = "map5" /\ Map5!Next /\ Frame
  \/ kind = "map6" /\ Map6!Next /\ Frame
  \/ kind = "map6swap" /\ Map6Swap!Next /\ Frame
  \/ kind = "map7" /\ Map7!Next /\ Frame
  \/ kind = "set2" /\ Set2!Next /\ Frame
  \/ kind = "set4" /\ Set4!Next /\ Frame
  \/ kind = "set8" /\ Set8!Next /\ Frame

Spec == Init /\ [][Next]_vars

-----------------------------------------------------------------------------

\* Whatever is kicked out, pulled into the head, unlinked through an iterator,
\* moved up for being met or merged away, the links stay sound chains; the
\* counter that decides when to grow counts the elements, no key is stored
\* twice, and hash_set8 names every slot of its array once, with no gap.
TablesSound ==
  \A m \in {t, rhs} : SoundChains(m) /\ SoundCount(m) /\ (kind = "set8" => Set8!Dense(m))

\* hash_table5: begin() starts its search at first, so no element may lie
\* before it.
FirstIsLow ==
  kind = "map5" =>
    \A m \in {t, rhs} : m.filled > 0 => m.first =< Lowest(Filled(m))

\* hash_table6: exactly the elements away from their main bucket are flagged,
\* which find, kickout and erase(it) take for the hash they do not compute.
ParityExact ==
  kind \in {"map6", "map6swap"} =>
    \A m \in {t, rhs} : m.odd = { b \in Filled(m) : HashMain(m, b) # b }

\* No probe for an empty bucket starts in a full table.
ProbeHasRoom == ~ t.stuck /\ ~ rhs.stuck

\* Two abstract maps, and that each kind implements them.
Abstract == INSTANCE MapPairSpec WITH
  map <- seen[1], other <- seen[2], Value <- Value \cup {DefaultValue}
ImplementsMaps == Abstract!Spec
=============================================================================
