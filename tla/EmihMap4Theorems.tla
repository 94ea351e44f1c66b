-------------------------- MODULE EmihMap4Theorems --------------------------
(***************************************************************************)
(* The inductive invariant of EmihMap4 and what follows from it, for every *)
(* set of keys, hash function, size of a group and number of groups, load  *)
(* factor and order of calls.                                              *)
(***************************************************************************)
EXTENDS EmihMap4, FiniteSetTheorems, WellFoundedInduction, TLAPS

-----------------------------------------------------------------------------
(* Arithmetic of the sizes.                                                *)

LEMMA LowestIsIn ==
  ASSUME NEW S \in SUBSET Nat, S # {}
  PROVE  Lowest(S) \in S /\ \A y \in S : Lowest(S) =< y
<1> DEFINE Below == { pair \in Nat \X Nat : pair[1] < pair[2] }
<1>1. IsWellFoundedOn(Below, Nat)
  BY NatLessThanWellFounded, Zenon DEF OpToRel
<1>2. \A a, b \in Nat : a < b => <<a, b>> \in Below
  OBVIOUS
<1> HIDE DEF Below
<1>3. PICK x \in S : \A y \in S : ~ (<<y, x>> \in Below)
  BY <1>1, WFMin
<1>4. \A y \in S : x =< y
  <2> SUFFICES ASSUME NEW y \in S PROVE ~ (y < x)
    OBVIOUS
  <2> QED BY <1>2, <1>3
<1> QED BY <1>4 DEF Lowest

\* A map has no array or one of at least two groups.
Sizes == GroupCounts \cup {0}

LEMMA CapacityType ==
  ASSUME NEW g \in Sizes
  PROVE  /\ g \in Nat /\ Capacity(g) \in Nat
         /\ g # 0 => g \in GroupCounts /\ g * N \in Nat /\ g * N >= 2 * N /\ Capacity(g) = g * N - 1
         /\ g = 0 => Capacity(g) = 0
<1>1. CASE g = 0
  BY <1>1 DEF Capacity
<1>2. CASE g # 0
  <2>1. g \in GroupCounts /\ g \in Nat /\ g >= 2 /\ N \in Nat /\ N >= 1
    BY <1>2, SizeAssumption DEF Sizes
  <2>2. g * N \in Nat /\ g * N >= 2 * N
    BY <2>1
  <2> QED BY <2>1, <2>2, <1>2 DEF Capacity
<1> QED BY <1>1, <1>2

\* Every slot lies in a group.
LEMMA SlotInGroup ==
  ASSUME NEW g \in Sizes, NEW s \in 0 .. Capacity(g) - 1
  PROVE  g # 0 /\ s \div N \in 0 .. g - 1
<1>1. g \in Nat \ {0} /\ g * N \in Nat /\ s \in Nat /\ s < g * N
  BY CapacityType
<1>2. N \in Nat \ {0}
  BY SizeAssumption
<1> DEFINE q == s \div N
<1>3. q \in Nat /\ N * q =< s
  BY <1>1, <1>2
<1> HIDE DEF q
<1>4. N * q < N * g
  BY <1>1, <1>2, <1>3
<1>5. q < g
  BY <1>1, <1>2, <1>3, <1>4
<1> QED BY <1>1, <1>3, <1>5 DEF q

\* An array chosen for n elements by the load factor lets n elements in.
LEMMA LimitSuffices ==
  ASSUME NEW g \in GroupCounts, NEW n \in Nat, NEW x \in Nat, x >= ByLoad(n), g > x \div N
  PROVE  n =< InitialMaxLoad(g)
<1>1. g \in Nat /\ N \in Nat \ {0} /\ MaxLoad \in 1 .. 1000 /\ g * N \in Nat /\ Capacity(g) = g * N - 1
  BY CapacityType, SizeAssumption DEF Sizes
<1> DEFINE q == x \div N
           c == g * N - 1
           b == ByLoad(n)
<1>2. q \in Nat /\ x < N * (q + 1)
  BY <1>1
<1>3. b \in Nat /\ 1000 * n =< MaxLoad * b
  <2>1. 1000 * n + MaxLoad - 1 \in Nat
    BY <1>1
  <2>2. b \in Nat /\ 1000 * n + MaxLoad - 1 < MaxLoad * (b + 1)
    BY <2>1, <1>1 DEF ByLoad
  <2> HIDE DEF b
  <2>3. MaxLoad * (b + 1) = MaxLoad * b + MaxLoad /\ MaxLoad * b \in Nat
    BY <2>2, <1>1
  <2> QED BY <2>2, <2>3, <1>1
<1>4. g >= q + 1
  BY <1>1, <1>2
<1> HIDE DEF q
<1>5. N * (q + 1) =< N * g
  BY <1>1, <1>2, <1>4
<1>6. c \in Nat /\ c >= x /\ c >= b
  BY <1>1, <1>2, <1>3, <1>5
<1> HIDE DEF b, c
<1>7. MaxLoad * c >= MaxLoad * b /\ MaxLoad * c \in Nat
  BY <1>1, <1>3, <1>6
<1>8. n =< b
  <2> DEFINE p == MaxLoad * b
  <2>1. p \in Nat /\ p =< 1000 * b
    BY <1>1, <1>3
  <2>2. 1000 * n =< p
    BY <1>3
  <2> HIDE DEF p
  <2> QED BY <2>1, <2>2, <1>3
<1>9. (MaxLoad * c) \div 1000 >= n
  <2> DEFINE p == MaxLoad * c
  <2>1. p \in Nat /\ 1000 * n =< p
    BY <1>1, <1>3, <1>6, <1>7
  <2> HIDE DEF p
  <2>2. p \div 1000 >= n
    BY <2>1
  <2> QED BY <2>2 DEF p
<1> QED BY <1>1, <1>6, <1>8, <1>9 DEF InitialMaxLoad, c

LEMMA LimitInCapacity ==
  ASSUME NEW g \in Sizes
  PROVE  InitialMaxLoad(g) \in Nat /\ InitialMaxLoad(g) =< Capacity(g)
<1> DEFINE c == Capacity(g)
<1>1. c \in Nat /\ N \in Nat /\ MaxLoad \in 1 .. 1000
  BY CapacityType, SizeAssumption
<1> HIDE DEF c
<1>2. MaxLoad * c \in Nat /\ MaxLoad * c =< 1000 * c
  BY <1>1
<1>3. (MaxLoad * c) \div 1000 \in Nat /\ (MaxLoad * c) \div 1000 =< c
  BY <1>1, <1>2
<1> QED BY <1>1, <1>3 DEF InitialMaxLoad, c

-----------------------------------------------------------------------------
(* A sound map.                                                            *)

Bits == 0 .. Classes - 1

Shape(m) ==
  /\ m = [groups |-> m.groups, filled |-> m.filled, max |-> m.max, slots |-> m.slots, over |-> m.over]
  /\ m.groups \in Sizes /\ m.max \in Nat
  /\ m.slots \in [Slots(m) -> Pair \cup {NoPair}]
  /\ m.over \in [0 .. m.groups - 1 -> SUBSET Bits]

\* The limit counts every element and no more slots than there are.
Counted(m) ==
  m.filled = Cardinality(Filled(m)) /\ m.filled =< m.max /\ m.max =< Capacity(m.groups)

\* The groups before an element send a search for it on.
Reachable(m) ==
  \A s \in Filled(m) :
    \E i \in Reached(m, m.slots[s].first) : Probe(m, m.slots[s].first, i) = s \div N

Sound(m) == Shape(m) /\ Counted(m) /\ Reachable(m)

LEMMA UpdatedField ==
  ASSUME NEW a, NEW b, NEW c, NEW d, NEW e, NEW x, NEW m, NEW r,
         m = [groups |-> a, filled |-> b, max |-> c, slots |-> d, over |-> e]
  PROVE  /\ r = [m EXCEPT !.slots = x] => r = [groups |-> a, filled |-> b, max |-> c, slots |-> x, over |-> e]
         /\ r = [m EXCEPT !.over = x] => r = [groups |-> a, filled |-> b, max |-> c, slots |-> d, over |-> x]
         /\ r = [m EXCEPT !.filled = x] => r = [groups |-> a, filled |-> x, max |-> c, slots |-> d, over |-> e]
         /\ r = [m EXCEPT !.max = x] => r = [groups |-> a, filled |-> b, max |-> x, slots |-> d, over |-> e]
<1>1. r = [m EXCEPT !.slots = x] => r = [groups |-> a, filled |-> b, max |-> c, slots |-> x, over |-> e]
  OBVIOUS
<1>2. r = [m EXCEPT !.over = x] => r = [groups |-> a, filled |-> b, max |-> c, slots |-> d, over |-> x]
  OBVIOUS
<1>3. r = [m EXCEPT !.filled = x] => r = [groups |-> a, filled |-> x, max |-> c, slots |-> d, over |-> e]
  OBVIOUS
<1>4. r = [m EXCEPT !.max = x] => r = [groups |-> a, filled |-> b, max |-> x, slots |-> d, over |-> e]
  OBVIOUS
<1> QED BY <1>1, <1>2, <1>3, <1>4

LEMMA UpdatedRecord ==
  ASSUME NEW a, NEW b, NEW c, NEW d, NEW e, NEW m, NEW x, NEW y, NEW z,
         m = [groups |-> a, filled |-> b, max |-> c, slots |-> d, over |-> e]
  PROVE  /\ [m EXCEPT !.slots = x, !.over = y, !.filled = z]
             = [groups |-> a, filled |-> z, max |-> c, slots |-> x, over |-> y]
         /\ [m EXCEPT !.slots = x, !.filled = y, !.max = z]
             = [groups |-> a, filled |-> y, max |-> z, slots |-> x, over |-> e]
<1> DEFINE r == [m EXCEPT !.slots = x]
<1>1. /\ [m EXCEPT !.slots = x, !.over = y, !.filled = z] = [[r EXCEPT !.over = y] EXCEPT !.filled = z]
      /\ [m EXCEPT !.slots = x, !.filled = y, !.max = z] = [[r EXCEPT !.filled = y] EXCEPT !.max = z]
  BY Zenon
<1>2. r = [groups |-> a, filled |-> b, max |-> c, slots |-> x, over |-> e]
  BY UpdatedField
<1> HIDE DEF r
<1> DEFINE p == [r EXCEPT !.over = y]
           q == [r EXCEPT !.filled = y]
<1>3. /\ p = [groups |-> a, filled |-> b, max |-> c, slots |-> x, over |-> y]
      /\ q = [groups |-> a, filled |-> y, max |-> c, slots |-> x, over |-> e]
  BY <1>2, UpdatedField
<1> HIDE DEF p, q
<1>4. /\ [p EXCEPT !.filled = z] = [groups |-> a, filled |-> z, max |-> c, slots |-> x, over |-> y]
      /\ [q EXCEPT !.max = z] = [groups |-> a, filled |-> y, max |-> z, slots |-> x, over |-> e]
  BY <1>3, UpdatedField
<1> QED BY <1>1, <1>4 DEF p, q

LEMMA ClassType ==
  ASSUME NEW k \in Key
  PROVE  Class(k) \in Bits
BY SizeAssumption, HashAssumption DEF Class, Bits

LEMMA ProbeType ==
  ASSUME NEW m, m.groups \in GroupCounts, NEW k \in Key
  PROVE  /\ m.groups \in Nat \ {0}
         /\ \A i \in 0 .. m.groups - 1 : Probe(m, k, i) \in 0 .. m.groups - 1
         /\ \A g \in 0 .. m.groups - 1 : \E i \in 0 .. m.groups - 1 : Probe(m, k, i) = g
<1> DEFINE g == m.groups
           p == Position(k, g)
<1>1. g \in GroupCounts /\ g \in Nat \ {0}
  BY SizeAssumption
<1>2. p \in 0 .. g - 1
  BY <1>1, HashAssumption
<1>3. { Turn(p, i, g) : i \in 0 .. g - 1 } = 0 .. g - 1
  BY <1>1, <1>2, ProberAssumption
<1>4. \A i : Probe(m, k, i) = Turn(p, i, g)
  BY DEF Probe
<1> HIDE DEF p, g
<1>5. \A i \in 0 .. g - 1 : Turn(p, i, g) \in 0 .. g - 1
  BY <1>3
<1>6. \A x \in 0 .. g - 1 : \E i \in 0 .. g - 1 : Turn(p, i, g) = x
  BY <1>3
<1> QED BY <1>1, <1>4, <1>5, <1>6 DEF g

LEMMA SlotsFinite ==
  ASSUME NEW m, Shape(m)
  PROVE  /\ IsFiniteSet(Slots(m)) /\ Cardinality(Slots(m)) = Capacity(m.groups)
         /\ Slots(m) \subseteq Nat
         /\ Filled(m) \subseteq Slots(m) /\ IsFiniteSet(Filled(m))
         /\ Cardinality(Filled(m)) \in Nat /\ Cardinality(Filled(m)) =< Capacity(m.groups)
         /\ Capacity(m.groups) \in Nat
<1> DEFINE c == Capacity(m.groups)
<1>1. c \in Nat
  BY CapacityType DEF Shape
<1> HIDE DEF c
<1>2. IsFiniteSet(0 .. c - 1) /\ Cardinality(0 .. c - 1) = c
  <2>1. 0 =< c - 1 => Cardinality(0 .. c - 1) = (c - 1) - 0 + 1
    BY <1>1, FS_Interval
  <2>2. 0 > c - 1 => Cardinality(0 .. c - 1) = 0
    BY <1>1, FS_Interval
  <2> QED BY <1>1, <2>1, <2>2, FS_Interval
<1>3. Slots(m) = 0 .. c - 1
  BY DEF Slots, c
<1>4. Filled(m) \subseteq Slots(m)
  BY DEF Filled
<1>5. IsFiniteSet(Filled(m)) /\ Cardinality(Filled(m)) =< c
  BY <1>2, <1>3, <1>4, FS_Subset
<1>6. Cardinality(Filled(m)) \in Nat
  BY <1>5, FS_CardinalityType
<1>7. Slots(m) \subseteq Nat
  BY <1>1, <1>3
<1> QED BY <1>1, <1>2, <1>3, <1>4, <1>5, <1>6, <1>7 DEF c

\* A map below its limit has a free slot.
LEMMA FreeSlot ==
  ASSUME NEW m, Sound(m), m.filled < m.max
  PROVE  \E s \in Slots(m) : m.slots[s] = NoPair
<1>1. Shape(m) /\ m.filled = Cardinality(Filled(m)) /\ m.max =< Capacity(m.groups) /\ m.max \in Nat
  BY DEF Sound, Counted, Shape
<1>2. Filled(m) # Slots(m)
  BY <1>1, SlotsFinite
<1> QED BY <1>2 DEF Filled

\* The probe comes to it, and the groups it passes are full.
LEMMA FreeTurnFound ==
  ASSUME NEW m, Shape(m), NEW k \in Key, \E s \in Slots(m) : m.slots[s] = NoPair
  PROVE  LET i == FreeTurn(m, k)
             s == Lowest(FreeIn(m, Probe(m, k, i)))
         IN  /\ m.groups \in GroupCounts
             /\ i \in 0 .. m.groups - 1
             /\ s \in Slots(m) /\ m.slots[s] = NoPair /\ s \div N = Probe(m, k, i)
<1> PICK z \in Slots(m) : m.slots[z] = NoPair
  OBVIOUS
<1>1. m.groups \in GroupCounts /\ m.groups \in Nat \ {0} /\ z \div N \in 0 .. m.groups - 1
  BY SlotInGroup, CapacityType DEF Shape, Slots, Sizes
<1>2. PICK j \in 0 .. m.groups - 1 : Probe(m, k, j) = z \div N
  BY <1>1, ProbeType
<1>3. z \in FreeIn(m, Probe(m, k, j))
  BY <1>2 DEF FreeIn
<1> DEFINE F == { x \in 0 .. m.groups - 1 : FreeIn(m, Probe(m, k, x)) # {} }
           i == FreeTurn(m, k)
<1>4. F \in SUBSET Nat /\ F # {} /\ i = Lowest(F)
  BY <1>1, <1>2, <1>3 DEF FreeTurn
<1>5. i \in F
  <2> HIDE DEF F, i
  <2> QED BY <1>4, LowestIsIn
<1> DEFINE E == FreeIn(m, Probe(m, k, i))
           s == Lowest(E)
<1>6. E \in SUBSET Nat /\ E # {}
  BY <1>5, SlotsFinite DEF FreeIn
<1>7. s \in E
  <2> HIDE DEF E
  <2> QED BY <1>6, LowestIsIn
<1> QED BY <1>1, <1>5, <1>7 DEF FreeIn

\* An insertion adds one element in a free slot, and leaves the other elements
\* in reach.
LEMMA PlacedSound ==
  ASSUME NEW m, Sound(m), NEW k \in Key, NEW v \in Value, m.filled < m.max
  PROVE  /\ Sound(Placed(m, k, v))
         /\ Placed(m, k, v).groups = m.groups
         /\ Placed(m, k, v).filled = m.filled + 1
         /\ Placed(m, k, v).max = m.max
<1> DEFINE i == FreeTurn(m, k)
           s == Lowest(FreeIn(m, Probe(m, k, i)))
           pair == [first |-> k, second |-> v]
           r == Placed(m, k, v)
           mark == Marked(m, k, i)
<1>1. Shape(m) /\ Counted(m) /\ Reachable(m)
  BY DEF Sound
<1>2. \E x \in Slots(m) : m.slots[x] = NoPair
  BY FreeSlot
<1>3. /\ m.groups \in GroupCounts /\ m.groups \in Nat /\ i \in 0 .. m.groups - 1
      /\ s \in Slots(m) /\ m.slots[s] = NoPair /\ s \div N = Probe(m, k, i)
  <2>1. m.groups \in GroupCounts /\ i \in 0 .. m.groups - 1
        /\ s \in Slots(m) /\ m.slots[s] = NoPair /\ s \div N = Probe(m, k, i)
    BY <1>1, <1>2, FreeTurnFound
  <2> QED BY <2>1, SizeAssumption
<1> HIDE DEF i, s
<1>4. pair \in Pair /\ pair # NoPair
  BY PairAssumption DEF Pair
<1>5. r = [groups |-> m.groups, filled |-> m.filled + 1, max |-> m.max,
           slots |-> [m.slots EXCEPT ![s] = pair], over |-> mark]
  <2> DEFINE x == [m.slots EXCEPT ![s] = pair]
  <2>1. r = [m EXCEPT !.slots = x, !.over = mark, !.filled = m.filled + 1]
    BY DEF Placed, i, s
  <2>2. m = [groups |-> m.groups, filled |-> m.filled, max |-> m.max, slots |-> m.slots, over |-> m.over]
    BY <1>1 DEF Shape
  <2> HIDE DEF x, mark, r
  <2>3. r = [groups |-> m.groups, filled |-> m.filled + 1, max |-> m.max, slots |-> x, over |-> mark]
    BY <2>1, <2>2, UpdatedRecord
  <2> QED BY <2>3 DEF x
<1> DEFINE slots == [m.slots EXCEPT ![s] = pair]
<1>6. /\ r.groups = m.groups /\ r.filled = m.filled + 1 /\ r.max = m.max
      /\ r.slots = slots /\ r.over = mark
      /\ r = [groups |-> r.groups, filled |-> r.filled, max |-> r.max, slots |-> r.slots, over |-> r.over]
  BY <1>5
<1> HIDE DEF r
<1>7. Slots(r) = Slots(m) /\ \A x, j : Probe(r, x, j) = Probe(m, x, j)
  BY <1>6 DEF Slots, Probe
<1>8. slots \in [Slots(m) -> Pair \cup {NoPair}]
  BY <1>1, <1>3, <1>4 DEF Shape
<1>9. mark \in [0 .. m.groups - 1 -> SUBSET Bits] /\ \A g \in 0 .. m.groups - 1 : m.over[g] \subseteq mark[g]
  <2>1. DOMAIN m.over = 0 .. m.groups - 1 /\ \A g \in 0 .. m.groups - 1 : m.over[g] \in SUBSET Bits
    BY <1>1 DEF Shape
  <2>2. Class(k) \in Bits
    BY ClassType
  <2> QED BY <2>1, <2>2 DEF Marked
<1>10. Shape(r)
  BY <1>1, <1>6, <1>7, <1>8, <1>9 DEF Shape
<1>11. Filled(r) = Filled(m) \cup {s} /\ s \notin Filled(m)
  BY <1>1, <1>3, <1>4, <1>6, <1>7 DEF Filled, Shape
<1>12. Counted(r)
  <2>1. Cardinality(Filled(r)) = Cardinality(Filled(m)) + 1
    BY <1>1, <1>11, SlotsFinite, FS_AddElement
  <2> QED BY <1>1, <1>6, <2>1, SlotsFinite DEF Counted, Shape
<1>13. Reachable(r)
  <2> SUFFICES ASSUME NEW x \in Filled(r)
               PROVE  \E j \in Reached(r, r.slots[x].first) : Probe(r, r.slots[x].first, j) = x \div N
    BY DEF Reachable
  <2>1. CASE x = s
    <3>1. r.slots[x].first = k
      BY <1>1, <1>3, <1>6, <2>1 DEF Shape
    <3>2. i \in Reached(r, k)
      <4> SUFFICES ASSUME NEW j \in 0 .. i - 1 PROVE Class(k) \in mark[Probe(m, k, j)]
        BY <1>3, <1>6, <1>7 DEF Reached
      <4>1. j \in 0 .. m.groups - 1
        BY <1>3
      <4>2. Probe(m, k, j) \in 0 .. m.groups - 1
        BY <1>3, <4>1, ProbeType
      <4>3. Probe(m, k, j) \in DOMAIN m.over
        BY <1>1, <4>2 DEF Shape
      <4> QED BY <4>3 DEF Marked
    <3> QED BY <1>3, <1>7, <2>1, <3>1, <3>2
  <2>2. CASE x # s
    <3>1. x \in Filled(m) /\ r.slots[x] = m.slots[x] /\ m.slots[x].first \in Key
      BY <1>1, <1>6, <1>11, <2>2 DEF Shape, Filled, Pair
    <3> DEFINE l == m.slots[x].first
    <3>2. PICK j \in Reached(m, l) : Probe(m, l, j) = x \div N
      BY <1>1, <3>1 DEF Reachable
    <3>3. j \in Reached(r, l)
      <4>1. \A y \in 0 .. j - 1 : Class(l) \in m.over[Probe(m, l, y)] /\ y \in 0 .. m.groups - 1
        BY <1>3, <3>2 DEF Reached
      <4>2. \A y \in 0 .. j - 1 : Probe(m, l, y) \in 0 .. m.groups - 1
        BY <1>3, <3>1, <4>1, ProbeType
      <4>3. \A y \in 0 .. j - 1 : Class(l) \in mark[Probe(m, l, y)]
        BY <1>9, <4>1, <4>2
      <4> QED BY <1>6, <1>7, <3>2, <4>3 DEF Reached
    <3> QED BY <1>7, <3>1, <3>2, <3>3
  <2> QED BY <2>1, <2>2
<1> QED BY <1>6, <1>10, <1>12, <1>13 DEF Sound, r

\* An erasure leaves the bits, so the elements that stay are in reach, and it
\* lowers the limit by no more than the number of elements.
LEMMA ErasedSound ==
  ASSUME NEW m, Sound(m), NEW gone \in SUBSET Filled(m)
  PROVE  /\ Sound(Erased(m, gone))
         /\ Erased(m, gone).groups = m.groups
         /\ Filled(Erased(m, gone)) = Filled(m) \ gone
         /\ \A s \in Filled(m) \ gone : Erased(m, gone).slots[s] = m.slots[s]
<1> DEFINE r == Erased(m, gone)
           slots == [s \in Slots(m) |-> IF s \in gone THEN NoPair ELSE m.slots[s]]
           caused == { s \in gone : CausedOverflow(m, s) }
           filled == m.filled - Cardinality(gone)
           max == m.max - Cardinality(caused)
<1>1. Shape(m) /\ Counted(m) /\ Reachable(m)
  BY DEF Sound
<1>2. r = [groups |-> m.groups, filled |-> filled, max |-> max, slots |-> slots, over |-> m.over]
  <2>1. r = [m EXCEPT !.slots = slots, !.filled = filled, !.max = max]
    BY DEF Erased
  <2>2. m = [groups |-> m.groups, filled |-> m.filled, max |-> m.max, slots |-> m.slots, over |-> m.over]
    BY <1>1 DEF Shape
  <2> HIDE DEF slots, filled, max, r
  <2> QED BY <2>1, <2>2, UpdatedRecord
<1> HIDE DEF r
<1>3. /\ r.groups = m.groups /\ r.filled = filled /\ r.max = max /\ r.slots = slots /\ r.over = m.over
      /\ r = [groups |-> r.groups, filled |-> r.filled, max |-> r.max, slots |-> r.slots, over |-> r.over]
  BY <1>2
<1>4. /\ Slots(r) = Slots(m) /\ (\A x, j : Probe(r, x, j) = Probe(m, x, j))
      /\ \A x : Reached(r, x) = Reached(m, x)
  BY <1>3 DEF Slots, Probe, Reached
<1>5. Filled(r) = Filled(m) \ gone /\ \A s \in Filled(m) \ gone : r.slots[s] = m.slots[s]
  BY <1>1, <1>3, <1>4 DEF Filled, Shape
<1>6. Cardinality(gone) \in Nat /\ Cardinality(caused) \in Nat /\ Cardinality(caused) =< Cardinality(gone)
      /\ Cardinality(gone) =< Cardinality(Filled(m))
      /\ Cardinality(Filled(m) \ gone) = Cardinality(Filled(m)) - Cardinality(gone)
  <2>1. IsFiniteSet(Filled(m))
    BY <1>1, SlotsFinite
  <2>2. IsFiniteSet(gone) /\ Cardinality(gone) =< Cardinality(Filled(m))
    BY <2>1, FS_Subset
  <2>3. caused \subseteq gone
    OBVIOUS
  <2>4. IsFiniteSet(caused) /\ Cardinality(caused) =< Cardinality(gone)
    BY <2>2, <2>3, FS_Subset
  <2>5. Cardinality(Filled(m) \ gone) = Cardinality(Filled(m)) - Cardinality(Filled(m) \cap gone)
    BY <2>1, FS_Difference
  <2>6. Filled(m) \cap gone = gone
    OBVIOUS
  <2> QED BY <2>2, <2>4, <2>5, <2>6, FS_CardinalityType
<1>7. Counted(r) /\ r.max \in Nat
  <2>1. m.filled = Cardinality(Filled(m)) /\ m.filled =< m.max /\ m.max =< Capacity(m.groups)
        /\ m.max \in Nat /\ Capacity(m.groups) \in Nat /\ Cardinality(Filled(m)) \in Nat
    BY <1>1, SlotsFinite DEF Counted, Shape
  <2>2. r.filled = Cardinality(Filled(r))
    BY <1>3, <1>5, <1>6, <2>1
  <2> HIDE DEF caused
  <2>3. r.filled =< r.max /\ r.max =< Capacity(r.groups) /\ r.max \in Nat
    BY <1>3, <1>6, <2>1
  <2> QED BY <2>2, <2>3 DEF Counted
<1>8. Shape(r)
  <2>1. slots \in [Slots(m) -> Pair \cup {NoPair}]
    BY <1>1 DEF Shape
  <2> QED BY <1>1, <1>3, <1>4, <1>7, <2>1 DEF Shape
<1>9. Reachable(r)
  BY <1>1, <1>4, <1>5 DEF Reachable
<1> QED BY <1>3, <1>5, <1>7, <1>8, <1>9 DEF Sound, r

\* A new value leaves everything else as it is.
LEMMA AssignedSound ==
  ASSUME NEW m, Sound(m), NEW s \in Filled(m), NEW k \in Key, NEW v \in Value, m.slots[s].first = k
  PROVE  LET r == [m EXCEPT !.slots = [m.slots EXCEPT ![s] = [first |-> k, second |-> v]]]
         IN  Sound(r) /\ r.groups = m.groups /\ r.filled = m.filled /\ r.max = m.max
<1> DEFINE pair == [first |-> k, second |-> v]
           slots == [m.slots EXCEPT ![s] = pair]
           r == [m EXCEPT !.slots = slots]
<1>1. Shape(m) /\ Counted(m) /\ Reachable(m) /\ s \in Slots(m)
  BY DEF Sound, Filled
<1>2. r = [groups |-> m.groups, filled |-> m.filled, max |-> m.max, slots |-> slots, over |-> m.over]
  <2>1. m = [groups |-> m.groups, filled |-> m.filled, max |-> m.max, slots |-> m.slots, over |-> m.over]
    BY <1>1 DEF Shape
  <2> HIDE DEF slots
  <2> QED BY <2>1, UpdatedField
<1> HIDE DEF r
<1>3. /\ r.groups = m.groups /\ r.filled = m.filled /\ r.max = m.max /\ r.slots = slots /\ r.over = m.over
      /\ r = [groups |-> r.groups, filled |-> r.filled, max |-> r.max, slots |-> r.slots, over |-> r.over]
  BY <1>2
<1>4. /\ Slots(r) = Slots(m) /\ (\A x, j : Probe(r, x, j) = Probe(m, x, j))
      /\ \A x : Reached(r, x) = Reached(m, x)
  BY <1>3 DEF Slots, Probe, Reached
<1>5. pair \in Pair /\ pair # NoPair /\ pair.first = k
  BY PairAssumption DEF Pair
<1> HIDE DEF pair
<1>6. slots \in [Slots(m) -> Pair \cup {NoPair}]
  BY <1>1, <1>5 DEF Shape
<1>7. DOMAIN m.slots = Slots(m)
  BY <1>1 DEF Shape
<1>8. Filled(r) = Filled(m) /\ \A x \in Filled(m) : r.slots[x].first = m.slots[x].first
  BY <1>1, <1>3, <1>4, <1>5, <1>7 DEF Filled
<1>9. Shape(r)
  BY <1>1, <1>3, <1>4, <1>6 DEF Shape
<1>10. Counted(r)
  BY <1>1, <1>3, <1>8 DEF Counted
<1>11. Reachable(r)
  BY <1>1, <1>4, <1>8 DEF Reachable
<1> QED BY <1>3, <1>9, <1>10, <1>11 DEF Sound, r, slots, pair

LEMMA NewSound ==
  ASSUME NEW g \in Sizes
  PROVE  /\ Sound(NewArrays(g)) /\ Filled(NewArrays(g)) = {}
         /\ NewArrays(g).groups = g /\ NewArrays(g).filled = 0 /\ NewArrays(g).max = InitialMaxLoad(g)
<1> DEFINE m == NewArrays(g)
<1>1. /\ m.groups = g /\ m.filled = 0 /\ m.max = InitialMaxLoad(g)
      /\ m.slots = [s \in Slots(m) |-> NoPair] /\ m.over = [x \in 0 .. g - 1 |-> {}]
      /\ m = [groups |-> m.groups, filled |-> m.filled, max |-> m.max, slots |-> m.slots, over |-> m.over]
  BY DEF NewArrays, Slots
<1> HIDE DEF m
<1>2. m.max \in Nat /\ m.max =< Capacity(g)
  BY <1>1, LimitInCapacity
<1>3. Shape(m)
  BY <1>1, <1>2 DEF Shape
<1>4. Filled(m) = {}
  BY <1>1 DEF Filled
<1>5. Counted(m)
  BY <1>1, <1>2, <1>4, FS_EmptySet DEF Counted
<1> QED BY <1>1, <1>3, <1>4, <1>5 DEF Sound, Reachable, m

LEMMA ClearedSound ==
  ASSUME NEW m, Sound(m)
  PROVE  Sound(Cleared(m))
BY NewSound DEF Cleared, Sound, Shape

LEMMA NullSound == Sound(Null) /\ Filled(Null) = {} /\ Null.groups = 0 /\ Null.filled = 0
BY NewSound DEF Null, Sizes

-----------------------------------------------------------------------------
(* A larger array takes what it is made for.                               *)

LEMMA GroupsForEnough ==
  ASSUME NEW n, Enough(n) # {}
  PROVE  GroupsFor(n) \in GroupCounts /\ GroupsFor(n) > n \div N
<1>1. Enough(n) \in SUBSET Nat
  BY SizeAssumption DEF Enough
<1>2. GroupsFor(n) \in Enough(n)
  BY <1>1, LowestIsIn DEF GroupsFor
<1> QED BY <1>2 DEF Enough

LEMMA ByLoadType ==
  ASSUME NEW n \in Nat
  PROVE  ByLoad(n) \in Nat
<1>1. MaxLoad \in Nat \ {0} /\ 1000 * n + MaxLoad - 1 \in Nat
  BY SizeAssumption
<1> QED BY <1>1 DEF ByLoad

LEMMA GrowthSuffices ==
  ASSUME NEW m, Sound(m), MayGrow(m)
  PROVE  Growth(m) \in GroupCounts /\ m.filled + 1 =< InitialMaxLoad(Growth(m))
<1> DEFINE n == m.filled + m.filled \div 61 + 1
           x == ByLoad(n)
           y == Leap(m)
           g == m.groups
<1>1. m.filled \in Nat /\ g \in Sizes /\ g \in Nat /\ Capacity(g) \in Nat /\ N \in Nat \ {0}
  BY SlotsFinite, CapacityType, SizeAssumption DEF Sound, Counted, Shape
<1>2. n \in Nat /\ m.filled + 1 =< n
  BY <1>1
<1> HIDE DEF n
<1>3. x \in Nat /\ x = Growing(m)
  BY <1>2, ByLoadType DEF Growing, n
<1>4. /\ GroupsFor(x) \in GroupCounts /\ GroupsFor(x) > x \div N
      /\ GroupsFor(y) \in GroupCounts /\ GroupsFor(y) > y \div N
  BY <1>3, GroupsForEnough DEF MayGrow
<1> HIDE DEF x
<1>5. x \div N \in Nat
  BY <1>1, <1>3
<1>6. Growth(m) \in GroupCounts /\ Growth(m) > x \div N
  <2>1. CASE GroupsFor(x) > g
    BY <1>3, <1>4, <2>1 DEF Growth
  <2>2. CASE ~ (GroupsFor(x) > g)
    <3>1. GroupsFor(x) \in Nat \ {0, 1} /\ GroupsFor(y) \in Nat
      BY <1>4, SizeAssumption
    <3>2. g # 0 /\ GroupsFor(x) =< g
      BY <1>1, <2>2, <3>1
    <3>3. y = g * N - 1 + 2 * N /\ g * N \in Nat
      BY <1>1, <3>2, CapacityType DEF Leap
    <3>4. y \in Nat /\ y >= N * g
      BY <1>1, <3>3
    <3>5. y \div N >= g
      <4> HIDE DEF y, g
      <4>1. y \div N \in Nat /\ y < N * (y \div N + 1)
        BY <1>1, <3>4
      <4> DEFINE q == y \div N
      <4>2. N * g < N * (q + 1) /\ q \in Nat
        BY <1>1, <3>4, <4>1
      <4> HIDE DEF q
      <4>3. g < q + 1
        <5> SUFFICES ASSUME q + 1 =< g PROVE FALSE
          BY <1>1, <4>2
        <5>1. N * (q + 1) =< N * g
          BY <1>1, <4>2
        <5> QED BY <1>1, <4>2, <5>1
      <4> QED BY <1>1, <4>2, <4>3 DEF q
    <3>6. Growth(m) = GroupsFor(y)
      BY <1>3, <2>2 DEF Growth
    <3>7. y \div N \in Nat
      BY <1>1, <3>4
    <3> HIDE DEF y
    <3> QED BY <1>1, <1>4, <1>5, <3>1, <3>2, <3>5, <3>6, <3>7
  <2> QED BY <2>1, <2>2
<1>7. n =< InitialMaxLoad(Growth(m))
  BY <1>2, <1>3, <1>6, LimitSuffices DEF x
<1>8. InitialMaxLoad(Growth(m)) \in Nat
  BY <1>6, LimitInCapacity DEF Sizes
<1> QED BY <1>1, <1>2, <1>6, <1>7, <1>8

LEMMA ResizeSuffices ==
  ASSUME NEW m, Sound(m), NEW n \in Nat, Allocatable(m, n)
  PROVE  GroupsOf(m, n) \in Sizes /\ m.filled =< InitialMaxLoad(GroupsOf(m, n))
<1> DEFINE f == m.filled
           w == Wanted(m, n)
<1>1. f \in Nat
  BY SlotsFinite DEF Sound, Counted
<1>2. ByLoad(f) \in Nat
  BY <1>1, ByLoadType
<1>3. w \in Nat /\ w >= f /\ w >= ByLoad(f)
  BY <1>1, <1>2 DEF Wanted, Larger
<1> HIDE DEF w
<1>4. CASE w = 0
  <2>1. GroupsOf(m, n) = 0 /\ f = 0
    BY <1>1, <1>3, <1>4 DEF GroupsOf, w
  <2>2. GroupsOf(m, n) \in Sizes
    BY <2>1 DEF Sizes
  <2> QED BY <2>1, <2>2, LimitInCapacity
<1>5. CASE w # 0
  <2>1. GroupsOf(m, n) = GroupsFor(w)
    BY <1>5 DEF GroupsOf, w
  <2>2. GroupsFor(w) \in GroupCounts /\ GroupsFor(w) > w \div N
    BY GroupsForEnough DEF Allocatable, w
  <2>3. f =< InitialMaxLoad(GroupsFor(w))
    BY <1>1, <1>3, <2>2, LimitSuffices
  <2> QED BY <2>1, <2>2, <2>3 DEF Sizes
<1> QED BY <1>4, <1>5

-----------------------------------------------------------------------------
(* The inductive invariant.                                                *)

Array(a) ==
  /\ a = [s \in DOMAIN a |-> a[s]] /\ DOMAIN a \subseteq Nat /\ IsFiniteSet(DOMAIN a)
  /\ \A s \in DOMAIN a : a[s] \in Pair \cup {NoPair}

\* There is room for what has still to move.
Room == t.filled + Cardinality(Unmoved) =< t.max

\* What the running call is doing, and what it has still to do.
Control ==
  /\ pc \in {"ready", "transfer", "insert", "merge", "erase"}
  /\ todo \in Seq(Pair) /\ at \in {NoSlot} \cup Filled(rhs)
  /\ pc # "transfer" => old = <<>>
  /\ at # NoSlot => todo = <<>>
  /\ pc = "ready" => todo = <<>> /\ at = NoSlot
  /\ pc = "insert" => todo # <<>>
  /\ pc \in {"merge", "erase"} => at # NoSlot

Inv == Sound(t) /\ Sound(rhs) /\ Array(old) /\ Room /\ Control

LEMMA NothingOld ==
  /\ Array(<<>>)
  /\ old = <<>> => Cardinality(Unmoved) = 0 /\ Unmoved = {}
<1>1. DOMAIN <<>> = {}
  OBVIOUS
<1>2. IsFiniteSet({}) /\ Cardinality({}) = 0
  BY FS_EmptySet
<1>3. Array(<<>>)
  BY <1>1, <1>2 DEF Array
<1>4. old = <<>> => Unmoved = {}
  BY <1>1 DEF Unmoved
<1> QED BY <1>2, <1>3, <1>4

LEMMA SlotsAreOld ==
  ASSUME NEW m, Sound(m)
  PROVE  Array(m.slots) /\ { s \in DOMAIN m.slots : m.slots[s] # NoPair } = Filled(m)
<1>1. Shape(m) /\ DOMAIN m.slots = Slots(m)
  BY DEF Sound, Shape
<1>2. Slots(m) \subseteq Nat /\ IsFiniteSet(Slots(m))
  BY <1>1, SlotsFinite
<1>3. m.slots \in [Slots(m) -> Pair \cup {NoPair}]
  BY <1>1 DEF Shape
<1>4. m.slots = [s \in Slots(m) |-> m.slots[s]] /\ \A s \in Slots(m) : m.slots[s] \in Pair \cup {NoPair}
  BY <1>3
<1>5. Array(m.slots)
  BY <1>1, <1>2, <1>4 DEF Array
<1> QED BY <1>1, <1>5 DEF Filled

LEMMA UnmovedFinite ==
  ASSUME Array(old)
  PROVE  /\ IsFiniteSet(Unmoved) /\ Cardinality(Unmoved) \in Nat /\ Unmoved \in SUBSET Nat
         /\ Unmoved \subseteq DOMAIN old
         /\ \A s \in Unmoved : old[s] \in Pair
<1>1. Unmoved \subseteq DOMAIN old
  BY DEF Unmoved
<1>2. IsFiniteSet(Unmoved)
  BY <1>1, FS_Subset DEF Array
<1> QED BY <1>1, <1>2, FS_CardinalityType DEF Array, Unmoved

LEMMA FilledType ==
  ASSUME NEW m, Sound(m)
  PROVE  /\ m.filled \in Nat /\ m.max \in Nat /\ m.filled =< m.max
         /\ Filled(m) \in SUBSET Nat /\ IsFiniteSet(Filled(m)) /\ Cardinality(Filled(m)) = m.filled
         /\ \A s \in Filled(m) : m.slots[s] \in Pair /\ m.slots[s].first \in Key /\ m.slots[s].second \in Value
<1>1. Shape(m) /\ Counted(m)
  BY DEF Sound
<1>2. m.filled \in Nat /\ m.max \in Nat /\ m.filled =< m.max
      /\ Filled(m) \in SUBSET Nat /\ IsFiniteSet(Filled(m)) /\ Cardinality(Filled(m)) = m.filled
  BY <1>1, SlotsFinite DEF Counted, Shape
<1>3. \A s \in Filled(m) : m.slots[s] \in Pair
  BY <1>1 DEF Filled, Shape
<1> QED BY <1>2, <1>3 DEF Pair

\* An insertion, into the array or into a larger one.
LEMMA StoreSound ==
  ASSUME Sound(t), NEW k \in Key, NEW v \in Value, NEW pairs, NEW slot, Store(k, v, pairs, slot)
  PROVE  /\ Sound(t)' /\ Array(old)' /\ Room'
         /\ \/ pc' = Rest(pairs, slot) /\ old' = <<>>
            \/ pc' = "transfer"
<1>1. CASE t.filled < t.max
  <2>1. t' = Placed(t, k, v) /\ old' = <<>> /\ pc' = Rest(pairs, slot)
    BY <1>1 DEF Store
  <2>2. Sound(t') /\ t'.filled =< t'.max /\ t'.filled \in Nat
    BY <1>1, <2>1, PlacedSound, FilledType
  <2>3. Cardinality(Unmoved') = 0
    <3>1. Unmoved' = {}
      BY <2>1 DEF Unmoved
    <3> QED BY <3>1, FS_EmptySet
  <2> QED BY <2>1, <2>2, <2>3, NothingOld DEF Room
<1>2. CASE ~ (t.filled < t.max)
  <2> DEFINE g == Growth(t)
             m == NewArrays(g)
  <2>1. MayGrow(t) /\ t' = Placed(m, k, v) /\ old' = t.slots /\ pc' = "transfer"
    BY <1>2 DEF Store
  <2>2. g \in GroupCounts /\ t.filled + 1 =< InitialMaxLoad(g) /\ t.filled \in Nat
    BY <2>1, GrowthSuffices, FilledType
  <2>3. Sound(m) /\ m.filled = 0 /\ m.max = InitialMaxLoad(g) /\ m.max \in Nat
    BY <2>2, NewSound, FilledType DEF Sizes
  <2> HIDE DEF m, g
  <2>4. m.filled < m.max
    BY <2>2, <2>3
  <2>5. Sound(t') /\ t'.filled = 1 /\ t'.max = m.max
    BY <2>1, <2>3, <2>4, PlacedSound
  <2>6. Array(old)' /\ Unmoved' = Filled(t)
    BY <2>1, SlotsAreOld DEF Unmoved
  <2>7. Cardinality(Unmoved') = t.filled
    BY <2>6, FilledType
  <2> QED BY <2>1, <2>2, <2>3, <2>5, <2>6, <2>7 DEF Room
<1> QED BY <1>1, <1>2

LEMMA InitInv ==
  ASSUME Init
  PROVE  Inv
<1>1. PICK n \in Requests \cup {0} : Allocatable(Null, n) /\ t = NewArrays(GroupsOf(Null, n))
  BY DEF Init
<1>2. GroupsOf(Null, n) \in Sizes
  <2>1. n \in Nat
    BY SizeAssumption
  <2>2. Allocatable(Null, n)
    BY <1>1
  <2> QED BY <2>1, <2>2, NullSound, ResizeSuffices
<1>3. Sound(t) /\ Sound(rhs)
  BY <1>1, <1>2, NewSound, NullSound DEF Init
<1>4. Array(old) /\ Room
  BY <1>3, NothingOld, FilledType DEF Init, Room
<1>5. Control
  BY DEF Init, Control
<1> QED BY <1>3, <1>4, <1>5 DEF Inv

-----------------------------------------------------------------------------
(* Every step keeps it.                                                    *)

LEMMA ResizeInv ==
  ASSUME Inv, NEW m, Sound(m), NEW n \in Nat, NEW pairs \in Seq(Pair), Resize(m, n, pairs)
  PROVE  Inv'
<1> USE DEF Inv
<1>1. /\ pc = "ready" /\ Allocatable(m, n) /\ todo = <<>> /\ at = NoSlot
      /\ todo' = pairs /\ UNCHANGED <<rhs, at>> /\ Sound(rhs)'
  BY DEF Resize, Control
<1>2. CASE GroupsOf(m, n) = m.groups
  <2>1. t' = m /\ old' = <<>> /\ pc' = Rest(pairs, NoSlot)
    BY <1>2 DEF Resize
  <2>2. Unmoved' = {}
    BY <2>1 DEF Unmoved
  <2>3. Room' /\ Array(old)'
    BY <2>1, <2>2, FS_EmptySet, FilledType, NothingOld DEF Room
  <2>4. Control'
    BY <1>1, <2>1 DEF Control, Rest
  <2> QED BY <1>1, <2>1, <2>3, <2>4
<1>3. CASE GroupsOf(m, n) # m.groups
  <2> DEFINE g == GroupsOf(m, n)
             r == NewArrays(g)
  <2>1. t' = r /\ old' = m.slots /\ pc' = "transfer"
    BY <1>3 DEF Resize
  <2>2. g \in Sizes /\ m.filled =< InitialMaxLoad(g)
    BY <1>1, ResizeSuffices
  <2> HIDE DEF g
  <2>3. Sound(r) /\ r.filled = 0 /\ r.max = InitialMaxLoad(g)
    BY <2>2, NewSound
  <2> HIDE DEF r
  <2>4. Array(old)' /\ Unmoved' = Filled(m)
    BY <2>1, SlotsAreOld DEF Unmoved
  <2>5. Room'
    BY <2>1, <2>2, <2>3, <2>4, FilledType DEF Room
  <2>6. Control'
    BY <1>1, <2>1 DEF Control
  <2> QED BY <1>1, <2>1, <2>3, <2>4, <2>5, <2>6
<1> QED BY <1>2, <1>3

LEMMA InsertInv ==
  ASSUME Inv, NEW k \in Key, NEW v \in Value, pc = "ready", Store(k, v, <<>>, NoSlot),
         UNCHANGED <<rhs, todo, at>>
  PROVE  Inv'
<1>1. Sound(t) /\ Sound(rhs) /\ todo = <<>> /\ at = NoSlot
  BY DEF Inv, Control
<1>2. Sound(t)' /\ Array(old)' /\ Room' /\ ((pc' = Rest(<<>>, NoSlot) /\ old' = <<>>) \/ pc' = "transfer")
  BY <1>1, StoreSound, Zenon
<1>3. Rest(<<>>, NoSlot) = "ready"
  BY DEF Rest
<1>4. Control'
  BY <1>1, <1>2, <1>3 DEF Control
<1> QED BY <1>1, <1>2, <1>4 DEF Inv

\* What Placed is given by a growth.
LEMMA TransferInv ==
  ASSUME Inv, Transfer
  PROVE  Inv' /\ Unmoved' = Unmoved \ {Lowest(Unmoved)} /\ Lowest(Unmoved) \in Unmoved
<1> DEFINE s == Lowest(Unmoved)
<1>1. /\ Sound(t) /\ Sound(rhs) /\ Array(old) /\ Room /\ Control
      /\ pc = "transfer" /\ Unmoved # {}
      /\ t' = Placed(t, old[s].first, old[s].second) /\ old' = [old EXCEPT ![s] = NoPair]
      /\ UNCHANGED <<rhs, todo, at, ret, pc>>
  BY DEF Inv, Transfer
<1>2. IsFiniteSet(Unmoved) /\ Cardinality(Unmoved) \in Nat /\ Unmoved \in SUBSET Nat
  BY <1>1, UnmovedFinite
<1>3. s \in Unmoved
  BY <1>1, <1>2, LowestIsIn
<1> HIDE DEF s
<1>4. old[s] \in Pair /\ old[s].first \in Key /\ old[s].second \in Value /\ s \in DOMAIN old
  BY <1>1, <1>3, UnmovedFinite DEF Pair
<1>5. Unmoved' = Unmoved \ {s}
  BY <1>1, <1>4 DEF Unmoved
<1>6. Cardinality(Unmoved') = Cardinality(Unmoved) - 1
  BY <1>2, <1>3, <1>5, FS_RemoveElement
<1>7. Cardinality(Unmoved) >= 1
  BY <1>2, <1>3, FS_EmptySet, FS_RemoveElement, FS_CardinalityType, <1>5, <1>6
<1>8. t.filled < t.max /\ t.filled \in Nat /\ t.max \in Nat
  BY <1>1, <1>2, <1>7, FilledType DEF Room
<1>9. Sound(t') /\ t'.filled = t.filled + 1 /\ t'.max = t.max
  BY <1>1, <1>4, <1>8, PlacedSound
<1>10. Room'
  BY <1>1, <1>2, <1>6, <1>8, <1>9 DEF Room
<1>11. Array(old)'
  <2>1. old' = [x \in DOMAIN old |-> IF x = s THEN NoPair ELSE old[x]]
    BY <1>1
  <2> QED BY <1>1, <2>1 DEF Array
<1>12. Control'
  BY <1>1 DEF Control
<1> QED BY <1>1, <1>3, <1>5, <1>9, <1>10, <1>11, <1>12 DEF Inv, s

LEMMA TransferDoneInv ==
  ASSUME Inv, TransferDone
  PROVE  Inv'
<1>1. /\ Sound(t) /\ Sound(rhs) /\ Room /\ Control /\ pc = "transfer"
      /\ old' = <<>> /\ pc' = Rest(todo, at) /\ UNCHANGED <<t, rhs, todo, at, ret>>
  BY DEF Inv, TransferDone
<1>2. Unmoved' = {}
  BY <1>1 DEF Unmoved
<1>3. Room' /\ Array(old)'
  BY <1>1, <1>2, FS_EmptySet, FilledType, NothingOld DEF Room
<1>4. Control'
  BY <1>1 DEF Control, Rest
<1> QED BY <1>1, <1>3, <1>4 DEF Inv

LEMMA InsertNextInv ==
  ASSUME Inv, InsertNext
  PROVE  Inv' /\ Len(todo') < Len(todo) /\ Len(todo) \in Nat /\ Len(todo') \in Nat
<1> DEFINE e == Head(todo)
<1>1. /\ Inv /\ Control /\ pc = "insert" /\ todo' = Tail(todo) /\ UNCHANGED <<rhs, at, ret>>
      /\ IF Has(t, e.first)
         THEN UNCHANGED <<t, old>> /\ pc' = Rest(Tail(todo), NoSlot)
         ELSE Store(e.first, e.second, Tail(todo), NoSlot)
  BY DEF Inv, InsertNext
<1>2. todo # <<>> /\ todo \in Seq(Pair) /\ at = NoSlot
  BY <1>1 DEF Control
<1>3. e \in Pair /\ Tail(todo) \in Seq(Pair) /\ Len(Tail(todo)) = Len(todo) - 1 /\ Len(todo) \in Nat
  BY <1>2
<1>4. e.first \in Key /\ e.second \in Value
  BY <1>3 DEF Pair
<1> HIDE DEF e
<1>5. CASE Has(t, e.first)
  <2>1. UNCHANGED <<t, old, rhs>> /\ pc' = Rest(Tail(todo), NoSlot)
    BY <1>1, <1>5
  <2>2. Sound(t)' /\ Sound(rhs)' /\ Array(old)' /\ Room'
    BY <1>1, <2>1 DEF Inv, Room, Unmoved
  <2>3. old = <<>>
    BY <1>1 DEF Control
  <2>4. Control'
    BY <1>1, <1>2, <1>3, <2>1, <2>3 DEF Control, Rest
  <2> QED BY <1>1, <1>3, <2>2, <2>4 DEF Inv
<1>6. CASE ~ Has(t, e.first)
  <2>1. Store(e.first, e.second, Tail(todo), NoSlot) /\ Sound(t) /\ Sound(rhs)
    BY <1>1, <1>6 DEF Inv
  <2>2. Sound(t)' /\ Array(old)' /\ Room'
        /\ ((pc' = Rest(Tail(todo), NoSlot) /\ old' = <<>>) \/ pc' = "transfer")
    BY <1>4, <2>1, StoreSound, Zenon
  <2>3. Control'
    BY <1>1, <1>2, <1>3, <2>2 DEF Control, Rest
  <2> QED BY <1>1, <1>3, <2>1, <2>2, <2>3 DEF Inv
<1> QED BY <1>5, <1>6

\* An iterator goes up.
LEMMA FollowingType ==
  ASSUME NEW m, Sound(m), NEW s
  PROVE  Following(m, s) = NoSlot \/ (Following(m, s) \in Filled(m) /\ Following(m, s) > s)
<1> DEFINE above == { x \in Filled(m) : x > s }
<1>1. Following(m, s) = IF above = {} THEN NoSlot ELSE Lowest(above)
  BY DEF Following
<1>2. above \in SUBSET Nat /\ \A x \in above : x \in Filled(m) /\ x > s
  BY FilledType
<1> HIDE DEF above
<1>3. above # {} => Lowest(above) \in above
  BY <1>2, LowestIsIn
<1>4. CASE above = {}
  <2>1. Following(m, s) = NoSlot
    BY <1>1, <1>4
  <2> QED BY <2>1
<1>5. CASE above # {}
  <2>1. Following(m, s) \in above
    BY <1>1, <1>3, <1>5
  <2> QED BY <1>2, <2>1
<1> QED BY <1>4, <1>5

\* What is ahead of the iterator shrinks as it goes up.
LEMMA AheadShrinks ==
  ASSUME Inv, at # NoSlot, at' = Following(rhs, at), rhs'.groups = rhs.groups
  PROVE  Cardinality(Ahead') < Cardinality(Ahead)
<1>1. Sound(rhs) /\ at \in Filled(rhs)
  BY DEF Inv, Control
<1>2. IsFiniteSet(Slots(rhs)) /\ at \in Slots(rhs) /\ Slots(rhs) \subseteq Nat
  BY <1>1, SlotsFinite DEF Sound
<1>3. Ahead = { s \in Slots(rhs) : s >= at } /\ at \in Ahead
  BY <1>2 DEF Ahead
<1>4. IsFiniteSet(Ahead)
  BY <1>2, <1>3, FS_Subset
<1>5. Slots(rhs)' = Slots(rhs)
  BY DEF Slots
<1>6. at' = NoSlot \/ (at' \in Nat /\ at' > at)
  BY <1>1, FollowingType, FilledType
<1>7. Ahead' \subseteq Ahead \ {at}
  <2>1. CASE at' = NoSlot
    BY <2>1 DEF Ahead
  <2>2. CASE at' # NoSlot /\ at' \in Nat /\ at' > at
    <3>1. Ahead' = { s \in Slots(rhs) : s >= at' }
      BY <1>5, <2>2 DEF Ahead
    <3> QED BY <1>2, <1>3, <2>2, <3>1
  <2> QED BY <1>6, <2>1, <2>2
<1>8. IsFiniteSet(Ahead \ {at}) /\ Cardinality(Ahead \ {at}) = Cardinality(Ahead) - 1
  BY <1>3, <1>4, FS_RemoveElement
<1>9. Cardinality(Ahead') =< Cardinality(Ahead \ {at}) /\ Cardinality(Ahead') \in Nat
      /\ Cardinality(Ahead) \in Nat
  BY <1>4, <1>7, <1>8, FS_Subset, FS_CardinalityType
<1> QED BY <1>8, <1>9

LEMMA MergeNextInv ==
  ASSUME Inv, MergeNext
  PROVE  /\ Inv'
         /\ \/ Cardinality(Ahead') < Cardinality(Ahead)
            \/ UNCHANGED <<todo, at>> /\ pc' \in {"erase", "transfer"}
<1> DEFINE e == rhs.slots[at]
<1>1. /\ Sound(t) /\ Sound(rhs) /\ Array(old) /\ Room /\ Control
      /\ pc = "merge" /\ UNCHANGED <<rhs, todo, ret>>
      /\ IF Has(t, e.first) THEN Walk(Following(rhs, at)) /\ UNCHANGED <<t, old>>
         ELSE Store(e.first, e.second, <<>>, at) /\ UNCHANGED at
  BY DEF Inv, MergeNext
<1>2. at \in Filled(rhs) /\ at # NoSlot /\ todo = <<>> /\ old = <<>>
  BY <1>1 DEF Control
<1>3. e.first \in Key /\ e.second \in Value
  BY <1>1, <1>2, FilledType
<1> HIDE DEF e
<1>4. CASE Has(t, e.first)
  <2>1. /\ at' = Following(rhs, at) /\ pc' = IF Following(rhs, at) = NoSlot THEN "ready" ELSE "merge"
        /\ UNCHANGED <<t, old>>
    BY <1>1, <1>4 DEF Walk
  <2>2. Sound(t)' /\ Sound(rhs)' /\ Array(old)' /\ Room'
    BY <1>1, <2>1 DEF Room, Unmoved
  <2>3. at' = NoSlot \/ at' \in Filled(rhs)
    BY <1>1, <2>1, FollowingType
  <2>4. Filled(rhs)' = Filled(rhs)
    BY <1>1
  <2>5. Control'
    BY <1>1, <1>2, <2>1, <2>3, <2>4 DEF Control
  <2>6. Cardinality(Ahead') < Cardinality(Ahead)
    BY <1>1, <1>2, <2>1, AheadShrinks
  <2> QED BY <2>2, <2>5, <2>6 DEF Inv
<1>5. CASE ~ Has(t, e.first)
  <2>1. Store(e.first, e.second, <<>>, at) /\ UNCHANGED at
    BY <1>1, <1>5
  <2>2. Sound(t)' /\ Array(old)' /\ Room'
        /\ ((pc' = Rest(<<>>, at) /\ old' = <<>>) \/ pc' = "transfer")
    BY <1>1, <1>3, <2>1, StoreSound, Zenon
  <2>3. Rest(<<>>, at) = "erase"
    BY <1>2 DEF Rest
  <2>4. Filled(rhs)' = Filled(rhs) /\ Sound(rhs)'
    BY <1>1
  <2>5. Control'
    BY <1>1, <1>2, <2>1, <2>2, <2>3, <2>4 DEF Control
  <2> QED BY <1>1, <2>1, <2>2, <2>3, <2>4, <2>5 DEF Inv
<1> QED BY <1>4, <1>5

LEMMA MergeEraseInv ==
  ASSUME Inv, MergeErase
  PROVE  Inv' /\ Cardinality(Ahead') < Cardinality(Ahead)
<1>1. /\ Sound(t) /\ Sound(rhs) /\ Array(old) /\ Room /\ Control
      /\ pc = "erase" /\ UNCHANGED <<t, old, todo, ret>> /\ rhs' = Erased(rhs, {at})
      /\ at' = Following(rhs, at) /\ pc' = IF Following(rhs, at) = NoSlot THEN "ready" ELSE "merge"
  BY DEF Inv, MergeErase, Walk
<1>2. at \in Filled(rhs) /\ at # NoSlot /\ todo = <<>> /\ old = <<>>
  BY <1>1 DEF Control
<1>3. {at} \in SUBSET Filled(rhs)
  BY <1>2
<1>4. Sound(rhs') /\ rhs'.groups = rhs.groups /\ Filled(rhs') = Filled(rhs) \ {at}
  BY <1>1, <1>3, ErasedSound
<1>5. at' = NoSlot \/ (at' \in Filled(rhs) /\ at' > at)
  BY <1>1, FollowingType
<1>6. at' = NoSlot \/ at' \in Filled(rhs')
  <2>1. at \in Nat /\ (at' \in Filled(rhs) => at' \in Nat)
    BY <1>1, <1>2, FilledType
  <2>2. at' \in Filled(rhs) /\ at' > at => at' # at
    BY <2>1
  <2> QED BY <1>4, <1>5, <2>2
<1>7. Control'
  BY <1>1, <1>2, <1>6 DEF Control
<1>8. Sound(t)' /\ Array(old)' /\ Room'
  BY <1>1 DEF Room, Unmoved
<1>9. Cardinality(Ahead') < Cardinality(Ahead)
  BY <1>1, <1>2, <1>4, AheadShrinks
<1> QED BY <1>1, <1>4, <1>7, <1>8, <1>9 DEF Inv

LEMMA BecomesInv ==
  ASSUME Inv, NEW m, NEW other, NEW flag, Sound(m), Sound(other), Becomes(m, other, flag)
  PROVE  Inv'
<1>1. /\ pc = "ready" /\ todo = <<>> /\ at = NoSlot /\ old = <<>> /\ Array(old)
      /\ t' = m /\ rhs' = other /\ UNCHANGED <<old, todo, at, pc>>
  BY DEF Inv, Control, Becomes
<1>2. Unmoved' = {}
  BY <1>1 DEF Unmoved
<1>3. Room'
  BY <1>1, <1>2, FS_EmptySet, FilledType DEF Room
<1>4. Control'
  BY <1>1 DEF Control
<1> QED BY <1>1, <1>3, <1>4 DEF Inv

LEMMA FindType ==
  ASSUME NEW m, NEW k
  PROVE  Has(m, k) => Find(m, k) \in Filled(m) /\ m.slots[Find(m, k)].first = k
<1>1. CASE Hits(m, k) = {}
  BY <1>1 DEF Has, Find
<1>2. CASE Hits(m, k) # {}
  <2>1. Find(m, k) \in Hits(m, k)
    BY <1>2 DEF Find
  <2> QED BY <2>1 DEF Hits
<1> QED BY <1>1, <1>2

LEMMA HasExact ==
  ASSUME NEW m, Sound(m), NEW k \in Key
  PROVE  Has(m, k) <=> k \in Keys(m)
<1>1. Has(m, k) => k \in Keys(m)
  BY FindType DEF Keys
<1>2. ASSUME NEW s \in Filled(m), m.slots[s].first = k PROVE Has(m, k)
  <2>1. s \in Hits(m, k)
    BY <1>2 DEF Sound, Reachable, Hits
  <2>2. Find(m, k) \in Hits(m, k)
    BY <2>1 DEF Find
  <2>3. Find(m, k) \in Nat
    BY <2>2, FilledType DEF Hits
  <2> QED BY <2>3 DEF Has, NoSlot
<1> QED BY <1>1, <1>2 DEF Keys

LEMMA OneMapInv ==
  ASSUME Inv, OneMap
  PROVE  Inv'
<1>1. Sound(t) /\ Sound(rhs)
  BY DEF Inv
<1>2. ASSUME NEW k \in Key, NEW v \in Value, Insert(k, v) PROVE Inv'
  <2>1. CASE Has(t, k)
    BY <1>1, <1>2, <2>1, BecomesInv DEF Insert
  <2>2. CASE ~ Has(t, k)
    <3>1. pc = "ready" /\ Store(k, v, <<>>, NoSlot) /\ UNCHANGED <<rhs, todo, at>>
      BY <1>2, <2>2 DEF Insert
    <3> QED BY <3>1, InsertInv
  <2> QED BY <2>1, <2>2
<1>3. ASSUME NEW k \in Key, NEW v \in Value, InsertOrAssign(k, v) PROVE Inv'
  <2>1. CASE Has(t, k)
    <3> DEFINE m == [t EXCEPT !.slots = [t.slots EXCEPT ![Find(t, k)] = [first |-> k, second |-> v]]]
    <3>1. Sound(m)
      BY <1>1, <2>1, FindType, AssignedSound
    <3>2. Becomes(m, rhs, FALSE)
      BY <1>3, <2>1 DEF InsertOrAssign
    <3> HIDE DEF m
    <3> QED BY <1>1, <3>1, <3>2, BecomesInv
  <2>2. CASE ~ Has(t, k)
    BY <1>2, <1>3, <2>2 DEF InsertOrAssign
  <2> QED BY <2>1, <2>2
<1>4. ASSUME NEW k \in Key, EraseKey(k) PROVE Inv'
  <2>1. CASE Has(t, k)
    <3>1. Becomes(Erased(t, {Find(t, k)}), rhs, Has(t, k))
      BY <1>4, <2>1 DEF EraseKey
    <3>2. {Find(t, k)} \in SUBSET Filled(t)
      BY <2>1, FindType
    <3> QED BY <1>1, <3>1, <3>2, ErasedSound, BecomesInv
  <2>2. CASE ~ Has(t, k)
    BY <1>1, <1>4, <2>2, BecomesInv DEF EraseKey
  <2> QED BY <2>1, <2>2
<1>5. ASSUME NEW batch \in Batches, NEW v \in Value
      PROVE  /\ Elements(batch, v) \in Seq(Pair) /\ Len(batch) \in Nat
  <2>1. batch \in Seq(Key)
    BY SizeAssumption
  <2>2. Len(batch) \in Nat /\ DOMAIN batch = 1 .. Len(batch) /\ \A i \in 1 .. Len(batch) : batch[i] \in Key
    BY <2>1
  <2>3. Elements(batch, v) \in [1 .. Len(batch) -> Pair]
    BY <2>2 DEF Elements, Pair
  <2> QED BY <2>2, <2>3
<1>6. ASSUME NEW batch \in Batches, NEW v \in Value, InsertRange(batch, v) PROVE Inv'
  <2>1. t.filled + Len(batch) \in Nat
    BY <1>1, <1>5, FilledType
  <2> QED BY <1>1, <1>5, <1>6, <2>1, ResizeInv DEF InsertRange
<1>7. ASSUME NEW batch \in Batches, NEW v \in Value, Build(batch, v) PROVE Inv'
  BY <1>5, <1>7, NullSound, ResizeInv DEF Build
<1>8. ASSUME NEW n \in Requests \cup {0}, Reserve(n) PROVE Inv'
  <2>1. n \in Nat /\ <<>> \in Seq(Pair)
    BY SizeAssumption
  <2> QED BY <1>1, <1>8, <2>1, ResizeInv DEF Reserve
<1>9. ASSUME NEW s \in Filled(t), EraseIterator(s) PROVE Inv'
  <2>1. {s} \in SUBSET Filled(t)
    OBVIOUS
  <2> QED BY <1>1, <1>9, <2>1, ErasedSound, BecomesInv DEF EraseIterator
<1>10. ASSUME NEW gone \in SUBSET Keys(t), EraseIf(gone) PROVE Inv'
  <2> DEFINE G == { s \in Filled(t) : t.slots[s].first \in gone }
  <2>1. G \in SUBSET Filled(t) /\ Becomes(Erased(t, G), rhs, FALSE)
    BY <1>10 DEF EraseIf
  <2> HIDE DEF G
  <2> QED BY <1>1, <2>1, ErasedSound, BecomesInv
<1>11. ASSUME Clear PROVE Inv'
  BY <1>1, <1>11, ClearedSound, BecomesInv DEF Clear
<1> QED BY <1>2, <1>3, <1>4, <1>6, <1>7, <1>8, <1>9, <1>10, <1>11 DEF OneMap

LEMMA TwoMapsInv ==
  ASSUME Inv, TwoMaps
  PROVE  Inv'
<1>1. Sound(t) /\ Sound(rhs) /\ Sound(Null)
  BY NullSound DEF Inv
<1>2. \A m : Sound(m) => Sound(Clone(m))
  BY <1>1, ClearedSound DEF Clone
<1>3. ASSUME NEW left, Sound(left), MoveAway(left) PROVE Inv'
  BY <1>1, <1>3, BecomesInv DEF MoveAway
<1>4. ASSUME NEW m, Sound(m), Becomes(Clone(m), rhs, FALSE) PROVE Inv'
  BY <1>1, <1>2, <1>4, BecomesInv
<1>5. ASSUME Becomes(t, rhs, SameElements) PROVE Inv'
  BY <1>1, <1>5, BecomesInv
<1>6. ASSUME Merge PROVE Inv'
  <2>1. /\ Array(old) /\ Room /\ Control /\ pc = "ready" /\ UNCHANGED <<t, rhs, old, todo>>
        /\ at' = Following(rhs, NoSlot)
        /\ pc' = IF Following(rhs, NoSlot) = NoSlot THEN "ready" ELSE "merge"
    BY <1>6 DEF Inv, Merge, Walk
  <2>2. Sound(t)' /\ Sound(rhs)' /\ Array(old)' /\ Room' /\ Filled(rhs)' = Filled(rhs)
    BY <1>1, <2>1 DEF Room, Unmoved
  <2>3. at' \in {NoSlot} \cup Filled(rhs)
    BY <1>1, <2>1, FollowingType
  <2>4. Control'
    BY <2>1, <2>2, <2>3 DEF Control
  <2> QED BY <2>2, <2>4 DEF Inv
<1> QED BY <1>1, <1>3, <1>4, <1>5, <1>6, ClearedSound DEF TwoMaps

LEMMA NextInv ==
  ASSUME Inv, [Next]_vars
  PROVE  Inv'
<1>1. CASE UNCHANGED vars
  BY <1>1 DEF vars, Inv, Room, Control, Unmoved
<1>2. CASE Internal
  BY <1>2, TransferInv, TransferDoneInv, InsertNextInv, MergeNextInv, MergeEraseInv DEF Internal
<1>3. CASE OneMap
  BY <1>3, OneMapInv
<1>4. CASE TwoMaps
  BY <1>4, TwoMapsInv
<1> QED BY <1>1, <1>2, <1>3, <1>4 DEF Next

LEMMA UnmovedFits ==
  ASSUME Inv, Unmoved # {}
  PROVE  t.filled < t.max
<1>1. Sound(t) /\ Array(old) /\ Room
  BY DEF Inv
<1>2. Cardinality(Unmoved) # 0
  BY <1>1, UnmovedFinite, FS_EmptySet
<1> QED BY <1>1, <1>2, UnmovedFinite, FilledType DEF Room

-----------------------------------------------------------------------------
(* The theorems.                                                           *)

\* The invariant holds in every reachable state.
THEOREM InvHolds == Spec => []Inv
<1>1. Init => Inv
  BY InitInv
<1>2. Inv /\ [Next]_vars => Inv'
  BY NextInv
<1> QED BY <1>1, <1>2, PTL DEF Spec

\* A search finds exactly what is stored, in both maps and half way through
\* every call: an overflow bit is never missing on the way to an element.
THEOREM LookupAlwaysExact == Spec => []LookupExact
<1>1. Inv => LookupExact
  BY HasExact DEF Inv, LookupExact
<1> QED BY <1>1, InvHolds, PTL

\* The loop of find_empty_slot_and_insert never runs on a full array: erasures
\* lower the limit, but a growth makes room for everything that moves.
THEOREM ProbeAlwaysHasRoom == Spec => []ProbeHasRoom
<1>1. ASSUME NEW m, Sound(m), m.filled < m.max PROVE \E g \in 0 .. m.groups - 1 : FreeIn(m, g) # {}
  <2>1. PICK s \in Slots(m) : m.slots[s] = NoPair
    BY <1>1, FreeSlot
  <2>2. s \div N \in 0 .. m.groups - 1
    BY <1>1, SlotInGroup DEF Sound, Shape, Slots
  <2>3. s \in FreeIn(m, s \div N)
    BY <2>1 DEF FreeIn
  <2> QED BY <2>2, <2>3
<1>2. Inv => ProbeHasRoom
  <2> SUFFICES ASSUME Inv PROVE ProbeHasRoom
    OBVIOUS
  <2>1. Sound(t) /\ Sound(rhs)
    BY DEF Inv
  <2>2. Unmoved # {} => t.filled < t.max
    BY UnmovedFits
  <2> QED BY <1>1, <2>1, <2>2 DEF ProbeHasRoom
<1> QED BY <1>2, InvHolds, PTL

\* Every step of a call leaves less to do, in a measure that cannot go down for
\* ever: every call returns.
THEOREM CallsAlwaysReturn == Spec => CallsReturn
<1>1. Inv /\ [Next]_vars => [pc # "ready" => LeavesLess]_vars
  <2> SUFFICES ASSUME Inv, Next, pc # "ready" PROVE LeavesLess
    BY DEF vars
  <2>1. CASE Transfer
    <3>1. UNCHANGED <<todo, at, pc>> /\ Array(old)
      BY <2>1 DEF Transfer, Inv
    <3>2. Cardinality(Unmoved') < Cardinality(Unmoved)
      <4> DEFINE s == Lowest(Unmoved)
      <4>1. Unmoved' = Unmoved \ {s} /\ s \in Unmoved
        BY <2>1, TransferInv
      <4> HIDE DEF s
      <4>2. IsFiniteSet(Unmoved) /\ Cardinality(Unmoved) \in Nat
        BY <3>1, UnmovedFinite
      <4>3. Cardinality(Unmoved \ {s}) = Cardinality(Unmoved) - 1
        BY <4>1, <4>2, FS_RemoveElement
      <4> QED BY <4>1, <4>2, <4>3
    <3> QED BY <3>1, <3>2 DEF LeavesLess
  <2>2. CASE TransferDone
    BY <2>2 DEF TransferDone, Rest, LeavesLess, Phase
  <2>3. CASE InsertNext
    BY <2>3, InsertNextInv DEF LeavesLess
  <2>4. CASE MergeNext
    <3>1. pc = "merge"
      BY <2>4 DEF MergeNext
    <3> QED BY <2>4, <3>1, MergeNextInv DEF LeavesLess, Phase
  <2>5. CASE MergeErase
    BY <2>5, MergeEraseInv DEF LeavesLess
  <2>6. OneMap => pc = "ready"
    BY DEF OneMap, EraseKey, Insert, InsertOrAssign, InsertRange, Build, Reserve, EraseIterator,
           EraseIf, Clear, Becomes, Resize
  <2>7. TwoMaps => pc = "ready"
    BY DEF TwoMaps, MoveAway, Merge, Becomes
  <2> QED BY <2>1, <2>2, <2>3, <2>4, <2>5, <2>6, <2>7 DEF Next, Internal
<1> QED BY <1>1, InvHolds, PTL DEF Spec, CallsReturn
-----------------------------------------------------------------------------
(* What an array of slots holds.                                           *)

\* No key is in two slots.
OneSlotEach(slots) ==
  \A x, y \in DOMAIN slots :
    slots[x] # NoPair /\ slots[y] # NoPair /\ slots[x].first = slots[y].first => x = y

LEMMA ValueAt ==
  ASSUME NEW slots, OneSlotEach(slots), NEW x \in DOMAIN slots, slots[x] # NoPair
  PROVE  Stores(slots, slots[x].first) /\ ValueIn(slots, slots[x].first) = slots[x].second
<1> DEFINE k == slots[x].first
           y == CHOOSE s \in DOMAIN slots : slots[s] # NoPair /\ slots[s].first = k
<1>1. Stores(slots, k)
  BY DEF Stores
<1>2. y \in DOMAIN slots /\ slots[y] # NoPair /\ slots[y].first = k
  OBVIOUS
<1>3. y = x
  BY <1>2 DEF OneSlotEach
<1>4. ValueIn(slots, k) = slots[y].second
  BY <1>1 DEF ValueIn
<1> QED BY <1>1, <1>3, <1>4

LEMMA StoredAt ==
  ASSUME NEW slots, OneSlotEach(slots), NEW k, Stores(slots, k)
  PROVE  \E x \in DOMAIN slots :
           slots[x] # NoPair /\ slots[x].first = k /\ ValueIn(slots, k) = slots[x].second
<1>1. PICK x \in DOMAIN slots : slots[x] # NoPair /\ slots[x].first = k
  BY DEF Stores
<1> QED BY <1>1, ValueAt

\* A free slot takes a new key.
LEMMA SlotTaken ==
  ASSUME NEW slots, OneSlotEach(slots), NEW x \in DOMAIN slots, slots[x] = NoPair,
         NEW pair, pair # NoPair, ~ Stores(slots, pair.first),
         NEW more, more = [slots EXCEPT ![x] = pair]
  PROVE  /\ OneSlotEach(more)
         /\ \A k : Stores(more, k) <=> (k = pair.first \/ Stores(slots, k))
         /\ ValueIn(more, pair.first) = pair.second
         /\ \A k : k # pair.first => ValueIn(more, k) = ValueIn(slots, k)
<1>1. /\ DOMAIN more = DOMAIN slots /\ more[x] = pair
      /\ \A y \in DOMAIN slots : y # x => more[y] = slots[y]
  OBVIOUS
<1>2. \A y \in DOMAIN slots : slots[y] # NoPair => slots[y].first # pair.first
  BY DEF Stores
<1>3. OneSlotEach(more)
  <2> SUFFICES ASSUME NEW y \in DOMAIN slots, NEW z \in DOMAIN slots,
                      more[y] # NoPair, more[z] # NoPair, more[y].first = more[z].first
               PROVE  y = z
    BY <1>1 DEF OneSlotEach
  <2>1. CASE y = x
    BY <2>1, <1>1, <1>2
  <2>2. CASE z = x
    BY <2>2, <1>1, <1>2
  <2>3. CASE y # x /\ z # x
    BY <2>3, <1>1 DEF OneSlotEach
  <2> QED BY <2>1, <2>2, <2>3
<1>4. \A k : Stores(more, k) <=> (k = pair.first \/ Stores(slots, k))
  <2> TAKE k
  <2>1. ASSUME Stores(more, k) PROVE k = pair.first \/ Stores(slots, k)
    <3>1. PICK y \in DOMAIN slots : more[y] # NoPair /\ more[y].first = k
      BY <1>1, <2>1 DEF Stores
    <3>2. CASE y = x
      BY <3>1, <3>2, <1>1
    <3>3. CASE y # x
      BY <3>1, <3>3, <1>1 DEF Stores
    <3> QED BY <3>2, <3>3
  <2>2. ASSUME Stores(slots, k) PROVE Stores(more, k)
    <3>1. PICK y \in DOMAIN slots : slots[y] # NoPair /\ slots[y].first = k
      BY <2>2 DEF Stores
    <3> QED BY <3>1, <1>1 DEF Stores
  <2>3. Stores(more, pair.first)
    BY <1>1 DEF Stores
  <2> QED BY <2>1, <2>2, <2>3
<1>5. ValueIn(more, pair.first) = pair.second
  BY <1>1, <1>3, ValueAt
<1>6. ASSUME NEW k, k # pair.first PROVE ValueIn(more, k) = ValueIn(slots, k)
  <2>1. CASE Stores(slots, k)
    <3>1. PICK y \in DOMAIN slots :
            slots[y] # NoPair /\ slots[y].first = k /\ ValueIn(slots, k) = slots[y].second
      BY <2>1, StoredAt
    <3>2. y # x /\ more[y] = slots[y] /\ y \in DOMAIN more
      BY <3>1, <1>1
    <3> QED BY <3>1, <3>2, <1>3, ValueAt
  <2>2. CASE ~ Stores(slots, k)
    BY <1>4, <1>6, <2>2 DEF ValueIn
  <2> QED BY <2>1, <2>2
<1> QED BY <1>3, <1>4, <1>5, <1>6

\* Some slots are emptied.
LEMMA SlotsEmptied ==
  ASSUME NEW slots, OneSlotEach(slots), NEW gone,
         NEW less, less = [s \in DOMAIN slots |-> IF s \in gone THEN NoPair ELSE slots[s]]
  PROVE  /\ OneSlotEach(less)
         /\ \A k : Stores(less, k) <=>
              \E s \in DOMAIN slots : s \notin gone /\ slots[s] # NoPair /\ slots[s].first = k
         /\ \A k : Stores(less, k) => Stores(slots, k) /\ ValueIn(less, k) = ValueIn(slots, k)
<1>1. /\ DOMAIN less = DOMAIN slots
      /\ \A s \in DOMAIN slots : s \notin gone => less[s] = slots[s]
      /\ \A s \in DOMAIN slots : s \in gone => less[s] = NoPair
  OBVIOUS
<1>2. OneSlotEach(less)
  BY <1>1 DEF OneSlotEach
<1>3. \A k : Stores(less, k) <=>
        \E s \in DOMAIN slots : s \notin gone /\ slots[s] # NoPair /\ slots[s].first = k
  BY <1>1 DEF Stores
<1>4. ASSUME NEW k, Stores(less, k)
      PROVE  Stores(slots, k) /\ ValueIn(less, k) = ValueIn(slots, k)
  <2>1. PICK s \in DOMAIN slots : s \notin gone /\ slots[s] # NoPair /\ slots[s].first = k
    BY <1>3, <1>4
  <2>2. less[s] = slots[s] /\ s \in DOMAIN less
    BY <2>1, <1>1
  <2>3. Stores(slots, k) /\ ValueIn(slots, k) = slots[s].second
    BY <2>1, ValueAt
  <2>4. ValueIn(less, k) = less[s].second
    BY <2>1, <2>2, <1>2, ValueAt
  <2> QED BY <2>2, <2>3, <2>4
<1> QED BY <1>2, <1>3, <1>4

\* A key gets another value.
LEMMA SlotAssigned ==
  ASSUME NEW slots, OneSlotEach(slots), NEW x \in DOMAIN slots, slots[x] # NoPair,
         NEW pair, pair # NoPair, pair.first = slots[x].first,
         NEW other, other = [slots EXCEPT ![x] = pair]
  PROVE  /\ OneSlotEach(other)
         /\ ValueIn(other, pair.first) = pair.second
         /\ \A k : k # pair.first => ValueIn(other, k) = ValueIn(slots, k)
<1>1. /\ DOMAIN other = DOMAIN slots /\ other[x] = pair
      /\ \A y \in DOMAIN slots : y # x => other[y] = slots[y]
      /\ \A y \in DOMAIN slots : slots[y] = NoPair <=> other[y] = NoPair
      /\ \A y \in DOMAIN slots : slots[y].first = other[y].first
  OBVIOUS
<1>2. OneSlotEach(other)
  BY <1>1 DEF OneSlotEach
<1>3. ValueIn(other, pair.first) = pair.second
  BY <1>1, <1>2, ValueAt
<1>4. ASSUME NEW k, k # pair.first PROVE ValueIn(other, k) = ValueIn(slots, k)
  <2>1. CASE Stores(slots, k)
    <3>1. PICK y \in DOMAIN slots :
            slots[y] # NoPair /\ slots[y].first = k /\ ValueIn(slots, k) = slots[y].second
      BY <2>1, StoredAt
    <3>2. y # x /\ other[y] = slots[y] /\ y \in DOMAIN other
      BY <3>1, <1>1, <1>4
    <3> QED BY <3>1, <3>2, <1>2, ValueAt
  <2>2. CASE ~ Stores(slots, k)
    <3>1. ~ Stores(other, k)
      BY <1>1, <2>2 DEF Stores
    <3> QED BY <2>2, <3>1 DEF ValueIn
  <2> QED BY <2>1, <2>2
<1> QED BY <1>2, <1>3, <1>4

-----------------------------------------------------------------------------
(* What a map holds.                                                       *)

LEMMA MapSlots ==
  ASSUME NEW m, Sound(m)
  PROVE  /\ DOMAIN m.slots = Slots(m)
         /\ Filled(m) = { s \in DOMAIN m.slots : m.slots[s] # NoPair }
         /\ \A k : k \in Keys(m) <=> Stores(m.slots, k)
         /\ \A k : Stores(m.slots, k) => k \in Key
         /\ \A k \in Key : Has(m, k) <=> Stores(m.slots, k)
<1>1. DOMAIN m.slots = Slots(m)
  BY DEF Sound, Shape
<1>2. Filled(m) = { s \in DOMAIN m.slots : m.slots[s] # NoPair }
  BY <1>1 DEF Filled
<1>3. \A k : k \in Keys(m) <=> Stores(m.slots, k)
  BY <1>2 DEF Keys, Stores
<1>4. \A k : Stores(m.slots, k) => k \in Key
  BY <1>2, FilledType DEF Stores
<1>5. \A k \in Key : Has(m, k) <=> Stores(m.slots, k)
  BY <1>3, HasExact
<1> QED BY <1>1, <1>2, <1>3, <1>4, <1>5

\* NoValue says that a key is not stored, and nothing else.
LEMMA ValueType ==
  ASSUME NEW m, Sound(m), OneSlotEach(m.slots), NEW k
  PROVE  /\ ValueIn(m.slots, k) \in Value \cup {NoValue}
         /\ Stores(m.slots, k) <=> ValueIn(m.slots, k) # NoValue
<1>1. CASE Stores(m.slots, k)
  <2>1. PICK x \in DOMAIN m.slots :
          m.slots[x] # NoPair /\ m.slots[x].first = k /\ ValueIn(m.slots, k) = m.slots[x].second
    BY <1>1, StoredAt
  <2>2. ValueIn(m.slots, k) \in Value
    BY <2>1, MapSlots, FilledType
  <2> QED BY <1>1, <2>2, PairAssumption
<1>2. CASE ~ Stores(m.slots, k)
  BY <1>2 DEF ValueIn
<1> QED BY <1>1, <1>2

LEMMA EmptyMap ==
  ASSUME NEW m, Sound(m), Filled(m) = {}
  PROVE  OneSlotEach(m.slots) /\ \A k : ~ Stores(m.slots, k) /\ ValueIn(m.slots, k) = NoValue
<1>1. \A s \in DOMAIN m.slots : m.slots[s] = NoPair
  BY MapSlots
<1> QED BY <1>1 DEF OneSlotEach, Stores, ValueIn

LEMMA NoArray ==
  OneSlotEach(<<>>) /\ \A k : ~ Stores(<<>>, k) /\ ValueIn(<<>>, k) = NoValue
<1>1. DOMAIN <<>> = {}
  OBVIOUS
<1> QED BY <1>1 DEF OneSlotEach, Stores, ValueIn

LEMMA ClearedMap ==
  ASSUME NEW m, Sound(m)
  PROVE  Filled(Cleared(m)) = {}
<1>1. CASE m.filled = 0
  <2>1. Filled(m) = {}
    BY <1>1, FilledType, FS_EmptySet
  <2> QED BY <1>1, <2>1 DEF Cleared
<1>2. CASE m.filled # 0
  BY <1>2, NewSound DEF Cleared, Sound, Shape
<1> QED BY <1>1, <1>2

LEMMA PlacedMap ==
  ASSUME NEW m, Sound(m), OneSlotEach(m.slots), NEW k \in Key, NEW v \in Value,
         m.filled < m.max, ~ Stores(m.slots, k), NEW slots, slots = Placed(m, k, v).slots
  PROVE  /\ OneSlotEach(slots)
         /\ \A x : Stores(slots, x) <=> (x = k \/ Stores(m.slots, x))
         /\ ValueIn(slots, k) = v
         /\ \A x : x # k => ValueIn(slots, x) = ValueIn(m.slots, x)
<1> DEFINE s == Lowest(FreeIn(m, Probe(m, k, FreeTurn(m, k))))
           pair == [first |-> k, second |-> v]
           more == [m.slots EXCEPT ![s] = pair]
<1>1. s \in DOMAIN m.slots /\ m.slots[s] = NoPair
  <2>1. \E x \in Slots(m) : m.slots[x] = NoPair
    BY FreeSlot
  <2>2. s \in Slots(m) /\ m.slots[s] = NoPair
    BY <2>1, FreeTurnFound DEF Sound
  <2> QED BY <2>2, MapSlots
<1>2. slots = more
  <2> DEFINE r == Placed(m, k, v)
             mark == Marked(m, k, FreeTurn(m, k))
  <2>1. r = [m EXCEPT !.slots = more, !.over = mark, !.filled = m.filled + 1]
    BY DEF Placed
  <2>2. m = [groups |-> m.groups, filled |-> m.filled, max |-> m.max, slots |-> m.slots, over |-> m.over]
    BY DEF Sound, Shape
  <2>3. slots = r.slots
    OBVIOUS
  <2> HIDE DEF more, mark, r
  <2>4. r = [groups |-> m.groups, filled |-> m.filled + 1, max |-> m.max, slots |-> more, over |-> mark]
    BY <2>1, <2>2, UpdatedRecord
  <2> QED BY <2>3, <2>4
<1>3. pair # NoPair /\ pair.first = k /\ pair.second = v
  BY PairAssumption DEF Pair
<1> HIDE DEF s, pair
<1>4. ~ Stores(m.slots, pair.first)
  BY <1>3
<1>5. /\ OneSlotEach(more)
      /\ \A x : Stores(more, x) <=> (x = pair.first \/ Stores(m.slots, x))
      /\ ValueIn(more, pair.first) = pair.second
      /\ \A x : x # pair.first => ValueIn(more, x) = ValueIn(m.slots, x)
  BY <1>1, <1>3, <1>4, SlotTaken
<1> HIDE DEF more
<1> QED BY <1>2, <1>3, <1>5

LEMMA ErasedMap ==
  ASSUME NEW m, Sound(m), OneSlotEach(m.slots), NEW gone \in SUBSET Filled(m),
         NEW slots, slots = Erased(m, gone).slots
  PROVE  /\ OneSlotEach(slots)
         /\ \A k : (\E s \in gone : m.slots[s].first = k) => ~ Stores(slots, k)
         /\ \A k : (\A s \in gone : m.slots[s].first # k) =>
              /\ Stores(slots, k) <=> Stores(m.slots, k)
              /\ ValueIn(slots, k) = ValueIn(m.slots, k)
<1>1. slots = [s \in DOMAIN m.slots |-> IF s \in gone THEN NoPair ELSE m.slots[s]]
  <2> DEFINE less == [s \in Slots(m) |-> IF s \in gone THEN NoPair ELSE m.slots[s]]
             f == m.filled - Cardinality(gone)
             x == m.max - Cardinality({ s \in gone : CausedOverflow(m, s) })
             r == Erased(m, gone)
  <2>1. r = [m EXCEPT !.slots = less, !.filled = f, !.max = x]
    BY DEF Erased
  <2>2. m = [groups |-> m.groups, filled |-> m.filled, max |-> m.max, slots |-> m.slots, over |-> m.over]
    BY DEF Sound, Shape
  <2>3. less = [s \in DOMAIN m.slots |-> IF s \in gone THEN NoPair ELSE m.slots[s]] /\ slots = r.slots
    BY MapSlots
  <2> HIDE DEF less, f, x, r
  <2>4. r = [groups |-> m.groups, filled |-> f, max |-> x, slots |-> less, over |-> m.over]
    BY <2>1, <2>2, UpdatedRecord
  <2>5. slots = less
    BY <2>3, <2>4
  <2> QED BY <2>3, <2>5
<1>2. /\ OneSlotEach(slots)
      /\ \A k : Stores(slots, k) <=>
           \E s \in DOMAIN m.slots : s \notin gone /\ m.slots[s] # NoPair /\ m.slots[s].first = k
      /\ \A k : Stores(slots, k) => Stores(m.slots, k) /\ ValueIn(slots, k) = ValueIn(m.slots, k)
  BY <1>1, SlotsEmptied
<1>3. \A s \in gone : s \in DOMAIN m.slots /\ m.slots[s] # NoPair
  BY MapSlots
<1>4. ASSUME NEW k, NEW s \in gone, m.slots[s].first = k PROVE ~ Stores(slots, k)
  BY <1>2, <1>3, <1>4 DEF OneSlotEach
<1>5. ASSUME NEW k, \A s \in gone : m.slots[s].first # k
      PROVE  Stores(slots, k) <=> Stores(m.slots, k)
  BY <1>2, <1>5 DEF Stores
<1>6. ASSUME NEW k, \A s \in gone : m.slots[s].first # k
      PROVE  ValueIn(slots, k) = ValueIn(m.slots, k)
  BY <1>2, <1>5, <1>6 DEF ValueIn
<1> QED BY <1>2, <1>4, <1>5, <1>6

LEMMA AssignedMap ==
  ASSUME NEW m, Sound(m), OneSlotEach(m.slots), NEW s \in Filled(m), NEW k \in Key, NEW v \in Value,
         m.slots[s].first = k, NEW slots, slots = [m.slots EXCEPT ![s] = [first |-> k, second |-> v]]
  PROVE  /\ OneSlotEach(slots)
         /\ ValueIn(slots, k) = v
         /\ \A x : x # k => ValueIn(slots, x) = ValueIn(m.slots, x)
<1> DEFINE pair == [first |-> k, second |-> v]
<1>1. pair # NoPair /\ pair.first = k /\ pair.second = v
  BY PairAssumption DEF Pair
<1>2. s \in DOMAIN m.slots /\ m.slots[s] # NoPair
  BY MapSlots
<1>3. slots = [m.slots EXCEPT ![s] = pair]
  OBVIOUS
<1> HIDE DEF pair
<1>4. /\ OneSlotEach(slots) /\ ValueIn(slots, pair.first) = pair.second
      /\ \A x : x # pair.first => ValueIn(slots, x) = ValueIn(m.slots, x)
  BY <1>1, <1>2, <1>3, SlotAssigned
<1> QED BY <1>1, <1>4

-----------------------------------------------------------------------------
(* The refinement.  What the invariant says of the keys, and of the part of *)
(* the other map that a merge has behind it: all that stayed there t has.   *)

Distinct ==
  /\ OneSlotEach(t.slots) /\ OneSlotEach(old) /\ OneSlotEach(rhs.slots)
  /\ \A k \in Key : ~ (Stores(t.slots, k) /\ Stores(old, k))

Merging ==
  at # NoSlot =>
    /\ \A s \in Filled(rhs) : s < at => Held(rhs.slots[s].first)
    /\ pc # "merge" => Held(rhs.slots[at].first)

KeyInv == Distinct /\ Merging

\* What the two arrays of t hold when a call has stored another key.
LEMMA StoreMap ==
  ASSUME Sound(t), Distinct, old = <<>>, NEW k \in Key, NEW v \in Value,
         ~ Has(t, k), NEW pairs, NEW slot, Store(k, v, pairs, slot)
  PROVE  /\ OneSlotEach(t.slots)' /\ OneSlotEach(old)'
         /\ \A x \in Key : ~ (Stores(t.slots, x) /\ Stores(old, x))'
         /\ ~ Held(k)
         /\ \A x \in Key : Held(x)' <=> (x = k \/ Held(x))
         /\ HeldValue(k)' = v
         /\ \A x \in Key : x # k => HeldValue(x)' = HeldValue(x)
<1>1. ~ Stores(t.slots, k) /\ OneSlotEach(t.slots)
  BY MapSlots DEF Distinct
<1>2. \A x : Held(x) <=> Stores(t.slots, x)
  BY NoArray DEF Held
<1>3. \A x : HeldValue(x) = ValueIn(t.slots, x)
  <2> TAKE x
  <2>1. CASE Stores(t.slots, x)
    BY <2>1 DEF HeldValue
  <2>2. CASE ~ Stores(t.slots, x)
    BY <2>2, NoArray DEF HeldValue, ValueIn
  <2> QED BY <2>1, <2>2
<1>4. CASE t.filled < t.max
  <2>1. t' = Placed(t, k, v) /\ old' = <<>>
    BY <1>4 DEF Store
  <2>2. /\ OneSlotEach(t'.slots)
        /\ \A x : Stores(t'.slots, x) <=> (x = k \/ Stores(t.slots, x))
        /\ ValueIn(t'.slots, k) = v
        /\ \A x : x # k => ValueIn(t'.slots, x) = ValueIn(t.slots, x)
    BY <1>1, <1>4, <2>1, PlacedMap
  <2>3. OneSlotEach(old') /\ \A x : ~ Stores(old', x) /\ ValueIn(old', x) = NoValue
    BY <2>1, NoArray
  <2>4. \A x \in Key : Held(x)' <=> (x = k \/ Held(x))
    BY <1>2, <2>2, <2>3 DEF Held
  <2>5. HeldValue(k)' = v
    BY <2>2 DEF HeldValue
  <2>6. ASSUME NEW x \in Key, x # k PROVE HeldValue(x)' = HeldValue(x)
    <3>1. CASE Stores(t.slots, x)
      BY <1>3, <2>2, <2>6, <3>1 DEF HeldValue
    <3>2. CASE ~ Stores(t.slots, x)
      <4>1. HeldValue(x)' = NoValue
        BY <2>2, <2>3, <2>6, <3>2 DEF HeldValue
      <4> QED BY <1>3, <3>2, <4>1 DEF ValueIn
    <3> QED BY <3>1, <3>2
  <2> QED BY <1>1, <1>2, <2>2, <2>3, <2>4, <2>5, <2>6
<1>5. CASE ~ (t.filled < t.max)
  <2> DEFINE g == Growth(t)
             m == NewArrays(g)
  <2>1. MayGrow(t) /\ t' = Placed(m, k, v) /\ old' = t.slots
    BY <1>5 DEF Store
  <2>2. g \in GroupCounts /\ t.filled + 1 =< InitialMaxLoad(g) /\ t.filled \in Nat
    BY <2>1, GrowthSuffices, FilledType
  <2>3. Sound(m) /\ m.filled = 0 /\ m.max = InitialMaxLoad(g) /\ m.max \in Nat /\ Filled(m) = {}
    BY <2>2, NewSound, FilledType DEF Sizes
  <2> HIDE DEF m, g
  <2>4. m.filled < m.max
    BY <2>2, <2>3
  <2>5. OneSlotEach(m.slots) /\ \A x : ~ Stores(m.slots, x) /\ ValueIn(m.slots, x) = NoValue
    BY <2>3, EmptyMap
  <2>6. /\ OneSlotEach(t'.slots)
        /\ \A x : Stores(t'.slots, x) <=> x = k
        /\ ValueIn(t'.slots, k) = v
    BY <2>1, <2>3, <2>4, <2>5, PlacedMap
  <2>7. OneSlotEach(old)' /\ \A x : Stores(old', x) <=> Stores(t.slots, x)
    BY <1>1, <2>1
  <2>8. \A x \in Key : Held(x)' <=> (x = k \/ Held(x))
    BY <1>2, <2>6, <2>7 DEF Held
  <2>9. HeldValue(k)' = v
    BY <2>6 DEF HeldValue
  <2>10. \A x \in Key : x # k => HeldValue(x)' = HeldValue(x)
    BY <1>3, <2>1, <2>6 DEF HeldValue
  <2> QED BY <1>1, <1>2, <2>6, <2>7, <2>8, <2>9, <2>10
<1> QED BY <1>4, <1>5

\* Between calls a map is what its array holds.
IdleMaps ==
  /\ at = NoSlot /\ todo = <<>> /\ old = <<>> /\ Moving = NoSlot
  /\ \A k \in Key : Held(k) <=> Stores(t.slots, k)
  /\ \A k \in Key : MapOf(k) = ValueIn(t.slots, k) /\ OtherOf(k) = ValueIn(rhs.slots, k)

LEMMA Idle == Inv /\ pc = "ready" => IdleMaps
<1> SUFFICES ASSUME Inv, pc = "ready" PROVE IdleMaps
  OBVIOUS
<1>1. at = NoSlot /\ todo = <<>> /\ old = <<>> /\ Moving = NoSlot
  BY DEF Inv, Control, Moving
<1>2. \A k : Held(k) <=> Stores(t.slots, k)
  BY <1>1, NoArray DEF Held
<1>3. \A k : Asked(todo, k) = {}
  BY <1>1 DEF Asked
<1>4. ASSUME NEW k PROVE MapOf(k) = ValueIn(t.slots, k)
  <2>1. CASE Stores(t.slots, k)
    BY <1>2, <2>1 DEF MapOf, HeldValue
  <2>2. CASE ~ Stores(t.slots, k)
    BY <1>1, <1>2, <1>3, <2>2 DEF MapOf, ValueIn
  <2> QED BY <2>1, <2>2
<1>5. \A k : OtherOf(k) = ValueIn(rhs.slots, k)
  BY <1>1 DEF OtherOf
<1> QED BY <1>1, <1>2, <1>4, <1>5 DEF IdleMaps

\* What a call leaves that takes one step.
LEMMA BecomesMaps ==
  ASSUME Inv, Inv', NEW m, NEW other, NEW flag, OneSlotEach(m.slots), OneSlotEach(other.slots),
         Becomes(m, other, flag)
  PROVE  /\ KeyInv' /\ ret' = flag
         /\ Contents' = [k \in Key |-> ValueIn(m.slots, k)]
         /\ OtherContents' = [k \in Key |-> ValueIn(other.slots, k)]
<1>1. pc' = "ready" /\ t' = m /\ rhs' = other /\ ret' = flag
  BY DEF Becomes
<1>2. /\ at' = NoSlot /\ old' = <<>>
      /\ \A k \in Key : MapOf(k)' = ValueIn(t'.slots, k) /\ OtherOf(k)' = ValueIn(rhs'.slots, k)
  <2>1. IdleMaps'
    <3>1. Inv' /\ (pc = "ready")'
      BY <1>1
    <3> QED BY <3>1, Idle, PTL
  <2> QED BY <2>1 DEF IdleMaps
<1>3. Distinct'
  BY <1>1, <1>2, NoArray DEF Distinct
<1>4. Merging'
  BY <1>2 DEF Merging
<1> QED BY <1>1, <1>2, <1>3, <1>4 DEF KeyInv, Contents, OtherContents

\* What is asked for first stays when the head of a sequence is taken off.
LEMMA HeadAsked ==
  ASSUME NEW pairs \in Seq(Pair), pairs # <<>>, NEW k
  PROVE  /\ Head(pairs).first = k =>
              Asked(pairs, k) # {} /\ pairs[Lowest(Asked(pairs, k))] = Head(pairs)
         /\ Head(pairs).first # k =>
              /\ Asked(pairs, k) = {} <=> Asked(Tail(pairs), k) = {}
              /\ Asked(pairs, k) # {} =>
                   pairs[Lowest(Asked(pairs, k))] = Tail(pairs)[Lowest(Asked(Tail(pairs), k))]
<1> DEFINE n == Len(pairs)
           rest == Tail(pairs)
           A == Asked(pairs, k)
           B == Asked(rest, k)
<1>1. /\ n \in Nat \ {0} /\ DOMAIN pairs = 1 .. n /\ DOMAIN rest = 1 .. n - 1
      /\ Head(pairs) = pairs[1] /\ \A i \in 1 .. n - 1 : rest[i] = pairs[i + 1]
  OBVIOUS
<1> HIDE DEF n, rest
<1>2. /\ A \in SUBSET Nat /\ B \in SUBSET Nat
      /\ \A i : i \in A <=> (i \in 1 .. n /\ pairs[i].first = k)
      /\ \A i : i \in B <=> (i \in 1 .. n - 1 /\ pairs[i + 1].first = k)
  BY <1>1 DEF Asked
<1> HIDE DEF A, B
<1>3. /\ A # {} => Lowest(A) \in A /\ \A y \in A : Lowest(A) =< y
      /\ B # {} => Lowest(B) \in B /\ \A y \in B : Lowest(B) =< y
  BY <1>2, LowestIsIn
<1>4. ASSUME pairs[1].first = k PROVE A # {} /\ pairs[Lowest(A)] = pairs[1]
  <2>1. 1 \in A
    BY <1>1, <1>2, <1>4
  <2>2. Lowest(A) \in 1 .. n /\ Lowest(A) =< 1
    BY <1>2, <1>3, <2>1
  <2>3. Lowest(A) = 1
    BY <1>1, <2>2
  <2> QED BY <2>1, <2>3
<1>5. ASSUME pairs[1].first # k
      PROVE  (A = {} <=> B = {}) /\ (A # {} => pairs[Lowest(A)] = rest[Lowest(B)])
  <2>1. \A i \in B : i + 1 \in A
    BY <1>1, <1>2
  <2>2. \A i \in A : i - 1 \in B
    <3> SUFFICES ASSUME NEW i \in A PROVE i - 1 \in B
      OBVIOUS
    <3>1. i \in 1 .. n /\ i # 1 /\ (i - 1) + 1 = i
      BY <1>1, <1>2, <1>5
    <3>2. i - 1 \in 1 .. n - 1
      BY <1>1, <3>1
    <3>3. pairs[(i - 1) + 1].first = k
      BY <1>2, <3>1
    <3> QED BY <1>2, <3>2, <3>3
  <2>3. A = {} <=> B = {}
    BY <2>1, <2>2
  <2>4. ASSUME A # {} PROVE pairs[Lowest(A)] = rest[Lowest(B)]
    <3>1. Lowest(A) \in A /\ Lowest(B) \in B /\ Lowest(A) \in Nat /\ Lowest(B) \in Nat
      BY <1>2, <1>3, <2>3, <2>4
    <3>2. Lowest(A) =< Lowest(B) + 1 /\ Lowest(B) =< Lowest(A) - 1
      BY <1>3, <2>1, <2>2, <3>1
    <3>3. Lowest(A) = Lowest(B) + 1
      BY <3>1, <3>2
    <3> QED BY <1>1, <1>2, <3>1, <3>3
  <2> QED BY <2>3, <2>4
<1> QED BY <1>1, <1>4, <1>5 DEF A, B, rest

\* The elements of a range all have one value.
LEMMA AskedOfRange ==
  ASSUME NEW batch \in Batches, NEW v \in Value, NEW k
  PROVE  LET pairs == Elements(batch, v)
         IN  /\ Asked(pairs, k) = {} <=> ~ \E i \in DOMAIN batch : batch[i] = k
             /\ Asked(pairs, k) # {} => pairs[Lowest(Asked(pairs, k))].second = v
<1> DEFINE pairs == Elements(batch, v)
           A == Asked(pairs, k)
<1>1. /\ DOMAIN pairs = DOMAIN batch
      /\ \A i \in DOMAIN batch : pairs[i].first = batch[i] /\ pairs[i].second = v
  BY DEF Elements
<1>2. DOMAIN batch \subseteq Nat
  <2>1. batch \in Seq(Key)
    BY SizeAssumption
  <2> QED BY <2>1
<1> HIDE DEF pairs
<1>3. A = { i \in DOMAIN batch : batch[i] = k }
  BY <1>1 DEF Asked
<1>4. A \in SUBSET Nat
  BY <1>2, <1>3
<1>5. A # {} => Lowest(A) \in A
  <2> HIDE DEF A
  <2> QED BY <1>4, LowestIsIn
<1>6. A = {} <=> ~ \E i \in DOMAIN batch : batch[i] = k
  BY <1>3
<1>7. A # {} => pairs[Lowest(A)].second = v
  <2>1. A \subseteq DOMAIN batch
    BY <1>3
  <2> HIDE DEF A
  <2> QED BY <1>1, <1>5, <2>1
<1> QED BY <1>6, <1>7 DEF pairs

\* What a map holds once the elements that it lacks are inserted in order.
With(m, pairs) ==
  [k \in Key |-> IF Stores(m.slots, k) THEN ValueIn(m.slots, k)
                 ELSE IF Asked(pairs, k) # {} THEN pairs[Lowest(Asked(pairs, k))].second
                 ELSE NoValue]

\* A call that makes the array of what it starts from larger, or leaves it.
LEMMA ResizeMaps ==
  ASSUME Inv, Distinct, NEW m, Sound(m), OneSlotEach(m.slots), NEW n \in Nat, NEW pairs,
         Resize(m, n, pairs)
  PROVE  /\ KeyInv' /\ ret' = FALSE /\ OtherContents' = OtherContents
         /\ Contents' = With(m, pairs)
<1>1. /\ pc = "ready" /\ Allocatable(m, n) /\ todo' = pairs /\ ret' = FALSE
      /\ rhs' = rhs /\ at' = at
  BY DEF Resize
<1>2. at = NoSlot /\ IdleMaps
  BY <1>1, Idle DEF Inv, Control
<1>3. Merging' /\ Moving' = NoSlot
  BY <1>1, <1>2 DEF Merging, Moving
<1>4. OtherContents' = OtherContents
  <2>1. \A k \in Key : OtherOf(k)' = ValueIn(rhs.slots, k)
    BY <1>1, <1>2, <1>3 DEF OtherOf
  <2> QED BY <1>2, <2>1 DEF OtherContents, IdleMaps
<1>5. /\ Distinct'
      /\ \A k : Held(k)' <=> Stores(m.slots, k)
      /\ \A k : Stores(m.slots, k) => HeldValue(k)' = ValueIn(m.slots, k)
  <2>1. CASE t' = m /\ old' = <<>>
    <3>1. OneSlotEach(old') /\ \A k : ~ Stores(old', k)
      BY <2>1, NoArray
    <3>2. \A k : Held(k)' <=> Stores(m.slots, k)
      BY <2>1, <3>1 DEF Held
    <3>3. \A k : Stores(m.slots, k) => HeldValue(k)' = ValueIn(m.slots, k)
      BY <2>1 DEF HeldValue
    <3> QED BY <1>1, <2>1, <3>1, <3>2, <3>3 DEF Distinct
  <2>2. CASE t' = NewArrays(GroupsOf(m, n)) /\ old' = m.slots
    <3> DEFINE r == NewArrays(GroupsOf(m, n))
    <3>1. GroupsOf(m, n) \in Sizes
      BY <1>1, ResizeSuffices
    <3>2. Sound(r) /\ Filled(r) = {} /\ t' = r
      BY <2>2, <3>1, NewSound
    <3> HIDE DEF r
    <3>3. OneSlotEach(t'.slots) /\ \A k : ~ Stores(t'.slots, k)
      BY <3>2, EmptyMap
    <3>4. \A k : Held(k)' <=> Stores(m.slots, k)
      BY <2>2, <3>3 DEF Held
    <3>5. \A k : Stores(m.slots, k) => HeldValue(k)' = ValueIn(m.slots, k)
      BY <2>2, <3>3 DEF HeldValue
    <3>6. Distinct'
      BY <1>1, <2>2, <3>3 DEF Distinct
    <3> QED BY <3>4, <3>5, <3>6
  <2> QED BY <2>1, <2>2 DEF Resize
<1>6. \A k \in Key : MapOf(k)' = IF Stores(m.slots, k) THEN ValueIn(m.slots, k)
                          ELSE IF Asked(pairs, k) # {} THEN pairs[Lowest(Asked(pairs, k))].second
                          ELSE NoValue
  BY <1>1, <1>2, <1>5 DEF MapOf
<1> QED BY <1>1, <1>3, <1>4, <1>5, <1>6 DEF KeyInv, Contents, With

LEMMA InsertMaps ==
  ASSUME Inv, Distinct, NEW k \in Key, NEW v \in Value, pc = "ready", ~ Has(t, k),
         Store(k, v, <<>>, NoSlot), UNCHANGED <<rhs, todo, at>>
  PROVE  /\ KeyInv' /\ OtherContents' = OtherContents
         /\ Contents[k] = NoValue /\ Contents' = [Contents EXCEPT ![k] = v]
<1>1. Sound(t) /\ at = NoSlot /\ todo = <<>> /\ old = <<>> /\ IdleMaps
  BY Idle DEF Inv, Control
<1>2. /\ OneSlotEach(t.slots)' /\ OneSlotEach(old)'
      /\ \A x \in Key : ~ (Stores(t.slots, x) /\ Stores(old, x))'
      /\ ~ Held(k)
      /\ \A x \in Key : Held(x)' <=> (x = k \/ Held(x))
      /\ HeldValue(k)' = v
      /\ \A x \in Key : x # k => HeldValue(x)' = HeldValue(x)
  BY <1>1, StoreMap
<1>3. Merging' /\ Moving' = NoSlot /\ at' = NoSlot
  BY <1>1 DEF Merging, Moving
<1>4. Distinct'
  BY <1>2 DEF Distinct
<1>5. OtherContents' = OtherContents
  <2>1. \A x \in Key : OtherOf(x)' = ValueIn(rhs.slots, x)
    BY <1>3 DEF OtherOf
  <2> QED BY <1>1, <2>1 DEF OtherContents, IdleMaps
<1>6. \A x : Asked(todo, x) = {} /\ Asked(todo', x) = {}
  BY <1>1 DEF Asked
<1>7. Contents[k] = NoValue
  <2>1. MapOf(k) = NoValue
    BY <1>1, <1>2, <1>6 DEF MapOf
  <2> QED BY <2>1 DEF Contents
<1>8. MapOf(k)' = v
  BY <1>2 DEF MapOf
<1>9. ASSUME NEW x \in Key, x # k PROVE MapOf(x)' = MapOf(x)
  BY <1>1, <1>2, <1>3, <1>6, <1>9 DEF MapOf
<1>10. Contents' = [Contents EXCEPT ![k] = v]
  BY <1>8, <1>9 DEF Contents
<1> QED BY <1>3, <1>4, <1>5, <1>7, <1>10 DEF KeyInv

\* A step that leaves what t holds and what the call has still to do.
LEMMA SameMaps ==
  ASSUME UNCHANGED <<rhs, todo, at>>, Moving' = Moving,
         \A k \in Key : Held(k)' <=> Held(k),
         \A k \in Key : Held(k) => HeldValue(k)' = HeldValue(k)
  PROVE  Contents' = Contents /\ OtherContents' = OtherContents
<1>1. \A k \in Key : MapOf(k)' = MapOf(k)
  BY DEF MapOf
<1>2. \A k \in Key : OtherOf(k)' = OtherOf(k)
  BY DEF OtherOf
<1> QED BY <1>1, <1>2 DEF Contents, OtherContents

LEMMA TransferMaps ==
  ASSUME Inv, KeyInv, Transfer
  PROVE  KeyInv' /\ Contents' = Contents /\ OtherContents' = OtherContents /\ ret' = ret
<1> DEFINE s == Lowest(Unmoved)
           k == old[s].first
           v == old[s].second
<1>1. /\ Sound(t) /\ Sound(rhs) /\ Array(old) /\ Distinct /\ Merging
      /\ pc = "transfer" /\ Unmoved # {}
      /\ t' = Placed(t, k, v) /\ old' = [old EXCEPT ![s] = NoPair]
      /\ UNCHANGED <<rhs, todo, at, ret, pc>>
  BY DEF Inv, KeyInv, Transfer
<1>2. s \in Unmoved
  BY TransferInv
<1> HIDE DEF s
<1>3. /\ s \in DOMAIN old /\ old[s] # NoPair /\ k \in Key /\ v \in Value
      /\ t.filled < t.max
  BY <1>1, <1>2, UnmovedFinite, UnmovedFits DEF Unmoved, Pair
<1>4. OneSlotEach(t.slots) /\ OneSlotEach(old) /\ Stores(old, k) /\ ValueIn(old, k) = v /\ ~ Stores(t.slots, k)
  BY <1>1, <1>3, ValueAt DEF Distinct
<1> HIDE DEF k, v
<1>5. /\ OneSlotEach(t'.slots)
      /\ \A x : Stores(t'.slots, x) <=> (x = k \/ Stores(t.slots, x))
      /\ ValueIn(t'.slots, k) = v
      /\ \A x : x # k => ValueIn(t'.slots, x) = ValueIn(t.slots, x)
  BY <1>1, <1>3, <1>4, PlacedMap
<1>6. /\ OneSlotEach(old')
      /\ \A x : Stores(old', x) => Stores(old, x) /\ ValueIn(old', x) = ValueIn(old, x)
      /\ ~ Stores(old', k)
      /\ \A x : x # k /\ Stores(old, x) => Stores(old', x)
  <2> DEFINE gone == {s}
  <2>1. old' = [x \in DOMAIN old |-> IF x \in gone THEN NoPair ELSE old[x]]
    BY <1>1 DEF Array
  <2> HIDE DEF gone
  <2>2. /\ OneSlotEach(old')
        /\ \A x : Stores(old', x) <=>
             \E y \in DOMAIN old : y \notin gone /\ old[y] # NoPair /\ old[y].first = x
        /\ \A x : Stores(old', x) => Stores(old, x) /\ ValueIn(old', x) = ValueIn(old, x)
    BY <1>4, <2>1, SlotsEmptied
  <2>3. ~ Stores(old', k)
    BY <1>3, <1>4, <2>2 DEF OneSlotEach, k, gone
  <2>4. ASSUME NEW x, x # k, Stores(old, x) PROVE Stores(old', x)
    BY <2>2, <2>4 DEF Stores, k, gone
  <2> QED BY <2>2, <2>3, <2>4
<1>7. \A x \in Key : Held(x)' <=> Held(x)
  BY <1>4, <1>5, <1>6 DEF Held
<1>8. ASSUME NEW x \in Key, Held(x) PROVE HeldValue(x)' = HeldValue(x)
  <2>1. CASE x = k
    BY <2>1, <1>4, <1>5 DEF HeldValue
  <2>2. CASE x # k
    BY <2>2, <1>5, <1>6, <1>7, <1>8 DEF HeldValue, Held
  <2> QED BY <2>1, <2>2
<1>9. Distinct'
  BY <1>1, <1>5, <1>6 DEF Distinct
<1>10. Merging'
  <2>1. \A x \in Filled(rhs) : rhs.slots[x].first \in Key
    BY <1>1, FilledType
  <2>2. at # NoSlot => at \in Filled(rhs)
    BY DEF Inv, Control
  <2> QED BY <1>1, <1>7, <2>1, <2>2 DEF Merging
<1>11. Contents' = Contents /\ OtherContents' = OtherContents
  BY <1>1, <1>7, <1>8, SameMaps DEF Moving
<1> QED BY <1>1, <1>9, <1>10, <1>11 DEF KeyInv

LEMMA TransferDoneMaps ==
  ASSUME Inv, KeyInv, TransferDone
  PROVE  KeyInv' /\ Contents' = Contents /\ OtherContents' = OtherContents /\ ret' = ret
<1>1. /\ Distinct /\ Merging /\ Control /\ pc = "transfer" /\ Unmoved = {} /\ old' = <<>>
      /\ pc' = Rest(todo, at) /\ UNCHANGED <<t, rhs, todo, at, ret>> /\ Sound(rhs)
  BY DEF Inv, KeyInv, TransferDone
<1>2. \A k : ~ Stores(old, k) /\ ~ Stores(old', k)
  BY <1>1, NoArray DEF Unmoved, Stores
<1>3. \A k \in Key : Held(k)' <=> Held(k)
  BY <1>1, <1>2 DEF Held
<1>4. \A k \in Key : Held(k) => HeldValue(k)' = HeldValue(k)
  BY <1>1, <1>2 DEF Held, HeldValue
<1>5. Moving' = Moving /\ (at # NoSlot => at \in Filled(rhs) /\ pc' = "erase")
  <2>1. at # NoSlot => todo = <<>> /\ at \in Filled(rhs)
    BY <1>1 DEF Control
  <2> QED BY <1>1, <2>1 DEF Rest, Moving
<1>6. Distinct'
  BY <1>1, <1>2, NoArray DEF Distinct
<1>7. Merging'
  <2>1. \A x \in Filled(rhs) : rhs.slots[x].first \in Key
    BY <1>1, FilledType
  <2> QED BY <1>1, <1>3, <1>5, <2>1 DEF Merging
<1> QED BY <1>1, <1>3, <1>4, <1>5, <1>6, <1>7, SameMaps DEF KeyInv

LEMMA InsertNextMaps ==
  ASSUME Inv, KeyInv, InsertNext
  PROVE  KeyInv' /\ Contents' = Contents /\ OtherContents' = OtherContents /\ ret' = ret
<1> DEFINE e == Head(todo)
<1>1. /\ Sound(t) /\ Distinct /\ Control /\ pc = "insert" /\ todo' = Tail(todo)
      /\ UNCHANGED <<rhs, at, ret>>
      /\ IF Has(t, e.first)
         THEN UNCHANGED <<t, old>> /\ pc' = Rest(Tail(todo), NoSlot)
         ELSE Store(e.first, e.second, Tail(todo), NoSlot)
  BY DEF Inv, KeyInv, InsertNext
<1>2. todo # <<>> /\ todo \in Seq(Pair) /\ at = NoSlot /\ old = <<>>
  BY <1>1 DEF Control
<1>3. PICK key \in Key, v \in Value : e.first = key /\ e.second = v
  <2>1. e \in Pair
    BY <1>2
  <2> QED BY <2>1 DEF Pair
<1>4. \A k : /\ e.first = k => Asked(todo, k) # {} /\ todo[Lowest(Asked(todo, k))] = e
             /\ e.first # k =>
                  /\ Asked(todo, k) = {} <=> Asked(todo', k) = {}
                  /\ Asked(todo, k) # {} =>
                       todo[Lowest(Asked(todo, k))] = todo'[Lowest(Asked(todo', k))]
  BY <1>1, <1>2, HeadAsked
<1> HIDE DEF e
<1>5. Merging' /\ Moving = NoSlot /\ Moving' = NoSlot /\ at' = NoSlot
  BY <1>1, <1>2 DEF Merging, Moving
<1>6. OtherContents' = OtherContents
  <2>1. \A k \in Key : OtherOf(k)' = OtherOf(k)
    BY <1>1, <1>2, <1>5 DEF OtherOf
  <2> QED BY <2>1 DEF OtherContents
<1>7. /\ Distinct'
      /\ \A k \in Key : Held(k)' <=> (Held(k) \/ k = key)
      /\ \A k \in Key : Held(k) => HeldValue(k)' = HeldValue(k)
      /\ ~ Held(key) => HeldValue(key)' = v
  <2>1. CASE Has(t, key)
    <3>1. t' = t /\ old' = old /\ Held(key)
      BY <1>1, <1>3, <2>1, MapSlots DEF Held
    <3>2. Distinct' /\ \A k : (Held(k)' <=> Held(k)) /\ HeldValue(k)' = HeldValue(k)
      BY <1>1, <3>1 DEF Distinct, Held, HeldValue
    <3> QED BY <3>1, <3>2
  <2>2. CASE ~ Has(t, key)
    <3>1. Store(key, v, Tail(todo), NoSlot)
      BY <1>1, <1>3, <2>2
    <3>2. /\ OneSlotEach(t.slots)' /\ OneSlotEach(old)'
          /\ \A x \in Key : ~ (Stores(t.slots, x) /\ Stores(old, x))'
          /\ ~ Held(key)
          /\ \A x \in Key : Held(x)' <=> (x = key \/ Held(x))
          /\ HeldValue(key)' = v
          /\ \A x \in Key : x # key => HeldValue(x)' = HeldValue(x)
      BY <1>1, <1>2, <1>3, <2>2, <3>1, StoreMap
    <3>3. Distinct'
      BY <1>1, <3>2 DEF Distinct
    <3>4. \A k \in Key : Held(k) => HeldValue(k)' = HeldValue(k)
      BY <3>2
    <3> QED BY <3>2, <3>3, <3>4
  <2> QED BY <2>1, <2>2
<1>8. ASSUME NEW k \in Key PROVE MapOf(k)' = MapOf(k)
  <2>1. CASE Held(k)
    BY <1>7, <2>1 DEF MapOf
  <2>2. CASE ~ Held(k) /\ k = key
    <3>1. MapOf(k) = v
      BY <1>3, <1>4, <2>2 DEF MapOf
    <3>2. MapOf(k)' = v
      BY <1>7, <2>2 DEF MapOf
    <3> QED BY <3>1, <3>2
  <2>3. CASE ~ Held(k) /\ k # key
    <3>1. ~ Held(k)'
      BY <1>7, <2>3
    <3>2. MapOf(k) = IF Asked(todo, k) # {} THEN todo[Lowest(Asked(todo, k))].second ELSE NoValue
      BY <1>2, <2>3 DEF MapOf
    <3>3. MapOf(k)' = IF Asked(todo', k) # {} THEN todo'[Lowest(Asked(todo', k))].second ELSE NoValue
      BY <1>5, <3>1 DEF MapOf
    <3> QED BY <1>3, <1>4, <2>3, <3>2, <3>3
  <2> QED BY <2>1, <2>2, <2>3
<1>9. Contents' = Contents
  BY <1>8 DEF Contents
<1> QED BY <1>1, <1>5, <1>6, <1>7, <1>9 DEF KeyInv

\* An iterator passes over no element.
LEMMA FollowingNext ==
  ASSUME NEW m, Sound(m), NEW s, NEW x \in Filled(m), x > s
  PROVE  Following(m, s) # NoSlot /\ Following(m, s) =< x
<1> DEFINE above == { y \in Filled(m) : y > s }
<1>1. Following(m, s) = IF above = {} THEN NoSlot ELSE Lowest(above)
  BY DEF Following
<1>2. above \in SUBSET Nat /\ x \in above
  BY FilledType
<1> HIDE DEF above
<1>3. Lowest(above) \in above /\ \A y \in above : Lowest(above) =< y
  BY <1>2, LowestIsIn
<1>4. Following(m, s) = Lowest(above) /\ Following(m, s) \in Nat
  BY <1>1, <1>2, <1>3
<1> QED BY <1>2, <1>3, <1>4 DEF NoSlot

\* What a merge leaves behind it, when it goes on and when it has done.
LEMMA LeftBehind ==
  ASSUME Inv, at # NoSlot, \A x \in Filled(rhs) : x < at => Held(rhs.slots[x].first)
  PROVE  /\ \A x \in Filled(rhs) : x # at /\ Following(rhs, at) # NoSlot /\ x < Following(rhs, at)
                                     => Held(rhs.slots[x].first)
         /\ Following(rhs, at) = NoSlot =>
              \A k : Stores(rhs.slots, k) => Held(k) \/ k = rhs.slots[at].first
<1>1. Sound(rhs) /\ at \in Nat /\ Filled(rhs) \in SUBSET Nat
  BY FilledType DEF Inv, Control
<1>2. ASSUME NEW x \in Filled(rhs), x # at,
             Following(rhs, at) # NoSlot => x < Following(rhs, at)
      PROVE  Held(rhs.slots[x].first)
  <2>1. x \in Nat /\ (x < at \/ x > at)
    BY <1>1, <1>2
  <2>2. CASE x < at
    BY <2>2
  <2>3. CASE x > at
    <3>1. Following(rhs, at) # NoSlot /\ Following(rhs, at) =< x
      BY <1>1, <2>3, FollowingNext
    <3>2. Following(rhs, at) \in Nat
      BY <1>1, <3>1, FollowingType
    <3> QED BY <1>2, <2>1, <3>1, <3>2
  <2> QED BY <2>1, <2>2, <2>3
<1>3. ASSUME Following(rhs, at) = NoSlot, NEW k, Stores(rhs.slots, k)
      PROVE  Held(k) \/ k = rhs.slots[at].first
  <2>1. PICK x \in Filled(rhs) : rhs.slots[x].first = k
    BY <1>1, <1>3, MapSlots DEF Stores
  <2> QED BY <1>2, <1>3, <2>1
<1> QED BY <1>2, <1>3

LEMMA MergeNextMaps ==
  ASSUME Inv, KeyInv, MergeNext
  PROVE  KeyInv' /\ Contents' = Contents /\ OtherContents' = OtherContents /\ ret' = ret
<1> DEFINE e == rhs.slots[at]
<1>1. /\ Sound(t) /\ Sound(rhs) /\ Distinct /\ Merging /\ Control
      /\ pc = "merge" /\ rhs' = rhs /\ todo' = todo /\ ret' = ret
      /\ IF Has(t, e.first) THEN Walk(Following(rhs, at)) /\ UNCHANGED <<t, old>>
         ELSE Store(e.first, e.second, <<>>, at) /\ UNCHANGED at
  BY DEF Inv, KeyInv, MergeNext
<1>2. at \in Filled(rhs) /\ at # NoSlot /\ todo = <<>> /\ old = <<>> /\ Moving = NoSlot
  BY <1>1 DEF Control, Moving
<1>3. PICK k \in Key, v \in Value : e.first = k /\ e.second = v
  BY <1>1, <1>2, FilledType
<1>4. /\ \A x \in Filled(rhs) : x < at => Held(rhs.slots[x].first)
      /\ \A x \in Filled(rhs) : rhs.slots[x].first \in Key
      /\ \A x : Asked(todo, x) = {}
      /\ Stores(rhs.slots, k) /\ ValueIn(rhs.slots, k) = v
  <2>1. at \in DOMAIN rhs.slots /\ rhs.slots[at] # NoPair /\ OneSlotEach(rhs.slots)
    BY <1>1, <1>2, MapSlots DEF Distinct
  <2>2. Stores(rhs.slots, k) /\ ValueIn(rhs.slots, k) = v
    BY <1>3, <2>1, ValueAt
  <2>3. \A x : Asked(todo, x) = {}
    BY <1>2 DEF Asked
  <2> QED BY <1>1, <1>2, <2>2, <2>3, FilledType DEF Merging
<1>5. CASE Has(t, e.first)
  <2> DEFINE next == Following(rhs, at)
  <2>1. t' = t /\ old' = old /\ at' = next /\ pc' = IF next = NoSlot THEN "ready" ELSE "merge"
    BY <1>1, <1>5 DEF Walk
  <2>2. Held(k) /\ \A x : (Held(x)' <=> Held(x)) /\ HeldValue(x)' = HeldValue(x)
    <3>1. Stores(t.slots, k)
      BY <1>1, <1>3, <1>5, MapSlots
    <3> QED BY <2>1, <3>1 DEF Held, HeldValue
  <2>3. /\ \A x \in Filled(rhs) : x # at /\ next # NoSlot /\ x < next => Held(rhs.slots[x].first)
        /\ next = NoSlot => \A x : Stores(rhs.slots, x) => Held(x)
    BY <1>2, <1>3, <1>4, <2>2, LeftBehind
  <2>4. Moving' = NoSlot
    BY <2>1 DEF Moving
  <2> HIDE DEF next
  <2>5. ASSUME NEW x \in Key PROVE MapOf(x)' = MapOf(x) /\ OtherOf(x)' = OtherOf(x)
    <3>1. CASE Held(x)
      <4>1. MapOf(x)' = MapOf(x)
        BY <2>2, <3>1 DEF MapOf
      <4>2. OtherOf(x)' = OtherOf(x)
        BY <1>1, <1>2, <2>2, <2>4, <3>1 DEF OtherOf
      <4> QED BY <4>1, <4>2
    <3>2. CASE ~ Held(x)
      <4>1. MapOf(x) = ValueIn(rhs.slots, x) /\ OtherOf(x) = NoValue
        BY <1>2, <1>4, <3>2 DEF MapOf, OtherOf
      <4>2. MapOf(x)' = IF at' # NoSlot THEN ValueIn(rhs.slots, x) ELSE NoValue
        BY <1>1, <1>4, <2>2, <3>2 DEF MapOf
      <4>3. OtherOf(x)' = IF at' # NoSlot THEN NoValue ELSE ValueIn(rhs.slots, x)
        BY <1>1, <2>2, <2>4, <3>2 DEF OtherOf
      <4>4. at' = NoSlot => ValueIn(rhs.slots, x) = NoValue
        BY <2>1, <2>3, <3>2 DEF ValueIn
      <4> QED BY <4>1, <4>2, <4>3, <4>4
    <3> QED BY <3>1, <3>2
  <2>6. Distinct'
    BY <1>1, <2>1 DEF Distinct
  <2>7. Merging'
    <3> SUFFICES ASSUME at' # NoSlot
                 PROVE  /\ \A x \in Filled(rhs) : x < at' => Held(rhs.slots[x].first)
                        /\ pc' = "merge"
      BY <1>1, <2>2 DEF Merging
    <3>1. Held(rhs.slots[at].first)
      BY <1>3, <2>2
    <3> QED BY <2>1, <2>3, <3>1
  <2> QED BY <1>1, <2>5, <2>6, <2>7 DEF KeyInv, Contents, OtherContents
<1>6. CASE ~ Has(t, e.first)
  <2>1. Store(k, v, <<>>, at) /\ at' = at /\ ~ Has(t, k)
    BY <1>1, <1>3, <1>6
  <2>2. /\ OneSlotEach(t.slots)' /\ OneSlotEach(old)'
        /\ \A x \in Key : ~ (Stores(t.slots, x) /\ Stores(old, x))'
        /\ ~ Held(k)
        /\ \A x \in Key : Held(x)' <=> (x = k \/ Held(x))
        /\ HeldValue(k)' = v
        /\ \A x \in Key : x # k => HeldValue(x)' = HeldValue(x)
    BY <1>1, <1>2, <2>1, StoreMap
  <2>3. pc' \in {"erase", "transfer"} /\ Moving' = at
    <3>1. pc' = Rest(<<>>, at) \/ pc' = "transfer"
      BY <2>1 DEF Store
    <3> QED BY <1>2, <2>1, <3>1 DEF Rest, Moving
  <2>4. ASSUME NEW x \in Key PROVE MapOf(x)' = MapOf(x) /\ OtherOf(x)' = OtherOf(x)
    <3>1. CASE x = k
      <4>1. MapOf(x) = v /\ OtherOf(x) = NoValue
        BY <1>2, <1>4, <2>2, <3>1 DEF MapOf, OtherOf
      <4>2. MapOf(x)' = v
        BY <2>2, <3>1 DEF MapOf
      <4>3. OtherOf(x)' = NoValue
        BY <1>1, <1>2, <1>3, <2>3, <3>1 DEF OtherOf
      <4> QED BY <4>1, <4>2, <4>3
    <3>2. CASE x # k
      <4>1. MapOf(x)' = MapOf(x)
        BY <1>1, <2>1, <2>2, <3>2 DEF MapOf
      <4>2. OtherOf(x)' = OtherOf(x)
        BY <1>1, <1>2, <1>3, <2>1, <2>2, <2>3, <3>2 DEF OtherOf
      <4> QED BY <4>1, <4>2
    <3> QED BY <3>1, <3>2
  <2>5. Distinct'
    BY <1>1, <2>2 DEF Distinct
  <2>6. Merging'
    <3>1. \A x \in Filled(rhs) : x < at => Held(rhs.slots[x].first)'
      BY <1>1, <1>4, <2>2
    <3>2. Held(rhs.slots[at].first)'
      <4>1. Held(k)' /\ rhs'.slots[at'].first = k
        BY <1>1, <1>3, <2>1, <2>2
      <4> QED BY <4>1, <2>1
    <3> QED BY <1>1, <2>1, <3>1, <3>2 DEF Merging
  <2> QED BY <1>1, <2>4, <2>5, <2>6 DEF KeyInv, Contents, OtherContents
<1> QED BY <1>5, <1>6

LEMMA MergeEraseMaps ==
  ASSUME Inv, KeyInv, MergeErase
  PROVE  KeyInv' /\ Contents' = Contents /\ OtherContents' = OtherContents /\ ret' = ret
<1> DEFINE next == Following(rhs, at)
<1>1. /\ Sound(t) /\ Sound(rhs) /\ Distinct /\ Merging /\ Control
      /\ pc = "erase" /\ t' = t /\ old' = old /\ todo' = todo /\ ret' = ret
      /\ rhs' = Erased(rhs, {at})
      /\ at' = next /\ pc' = IF next = NoSlot THEN "ready" ELSE "merge"
  BY DEF Inv, KeyInv, MergeErase, Walk
<1>2. at \in Filled(rhs) /\ at # NoSlot /\ todo = <<>> /\ Moving = at /\ Moving' = NoSlot
  BY <1>1 DEF Control, Moving
<1>3. PICK k \in Key : rhs.slots[at].first = k
  BY <1>1, <1>2, FilledType
<1>4. Held(k) /\ \A x : (Held(x)' <=> Held(x)) /\ HeldValue(x)' = HeldValue(x) /\ Asked(todo, x) = {}
  <2>1. Held(k)
    BY <1>1, <1>2, <1>3 DEF Merging
  <2>2. \A x : Asked(todo, x) = {}
    BY <1>2 DEF Asked
  <2> QED BY <1>1, <2>1, <2>2 DEF Held, HeldValue
<1>5. /\ \A x \in Filled(rhs) : x # at /\ next # NoSlot /\ x < next => Held(rhs.slots[x].first)
      /\ next = NoSlot => \A x : Stores(rhs.slots, x) => Held(x)
  <2>1. \A x \in Filled(rhs) : x < at => Held(rhs.slots[x].first)
    BY <1>1, <1>2 DEF Merging
  <2> QED BY <1>2, <1>3, <1>4, <2>1, LeftBehind
<1> HIDE DEF next
<1>6. /\ OneSlotEach(rhs'.slots) /\ ~ Stores(rhs'.slots, k)
      /\ \A x : x # k => ValueIn(rhs'.slots, x) = ValueIn(rhs.slots, x)
  <2> DEFINE gone == {at}
  <2>1. gone \in SUBSET Filled(rhs) /\ rhs' = Erased(rhs, gone) /\ OneSlotEach(rhs.slots)
    BY <1>1, <1>2 DEF Distinct
  <2>2. (\E s \in gone : rhs.slots[s].first = k) /\ \A s \in gone : rhs.slots[s].first = k
    BY <1>3
  <2> HIDE DEF gone
  <2> DEFINE slots == rhs'.slots
  <2>3. slots = Erased(rhs, gone).slots
    BY <2>1
  <2> HIDE DEF slots
  <2>4. /\ OneSlotEach(slots)
        /\ \A x : (\E s \in gone : rhs.slots[s].first = x) => ~ Stores(slots, x)
        /\ \A x : (\A s \in gone : rhs.slots[s].first # x) =>
             /\ Stores(slots, x) <=> Stores(rhs.slots, x)
             /\ ValueIn(slots, x) = ValueIn(rhs.slots, x)
    BY <1>1, <2>1, <2>3, ErasedMap
  <2> QED BY <2>2, <2>4 DEF slots
<1>7. Filled(rhs') = Filled(rhs) \ {at} /\ \A x \in Filled(rhs) \ {at} : rhs'.slots[x] = rhs.slots[x]
  <2>1. {at} \in SUBSET Filled(rhs)
    BY <1>2
  <2> QED BY <1>1, <2>1, ErasedSound
<1>8. ASSUME NEW x \in Key PROVE MapOf(x)' = MapOf(x) /\ OtherOf(x)' = OtherOf(x)
  <2>1. CASE x = k
    <3>1. MapOf(x)' = MapOf(x)
      BY <1>4, <2>1 DEF MapOf
    <3>2. OtherOf(x) = NoValue
      BY <1>2, <1>3, <2>1 DEF OtherOf
    <3>3. OtherOf(x)' = NoValue
      BY <1>6, <2>1 DEF OtherOf, ValueIn
    <3> QED BY <3>1, <3>2, <3>3
  <2>2. CASE x # k /\ Held(x)
    <3>1. MapOf(x)' = MapOf(x)
      BY <1>4, <2>2 DEF MapOf
    <3>2. OtherOf(x) = ValueIn(rhs.slots, x)
      BY <1>2, <1>3, <2>2 DEF OtherOf
    <3>3. OtherOf(x)' = ValueIn(rhs'.slots, x)
      BY <1>2, <1>4, <2>2 DEF OtherOf
    <3> QED BY <1>6, <2>2, <3>1, <3>2, <3>3
  <2>3. CASE x # k /\ ~ Held(x)
    <3>1. MapOf(x) = ValueIn(rhs.slots, x) /\ OtherOf(x) = NoValue
      BY <1>2, <1>4, <2>3 DEF MapOf, OtherOf
    <3>2. MapOf(x)' = IF at' # NoSlot THEN ValueIn(rhs'.slots, x) ELSE NoValue
      BY <1>1, <1>4, <2>3 DEF MapOf
    <3>3. OtherOf(x)' = IF at' # NoSlot THEN NoValue ELSE ValueIn(rhs'.slots, x)
      BY <1>2, <1>4, <2>3 DEF OtherOf
    <3>4. at' = NoSlot => ValueIn(rhs.slots, x) = NoValue
      BY <1>1, <1>5, <2>3 DEF ValueIn
    <3> QED BY <1>6, <2>3, <3>1, <3>2, <3>3, <3>4
  <2> QED BY <2>1, <2>2, <2>3
<1>9. Distinct'
  BY <1>1, <1>6 DEF Distinct
<1>10. Merging'
  <2> SUFFICES ASSUME at' # NoSlot
               PROVE  /\ \A x \in Filled(rhs') : x < at' => Held(rhs.slots[x].first)'
                      /\ pc' = "merge"
    BY DEF Merging
  <2>1. pc' = "merge"
    BY <1>1
  <2>2. ASSUME NEW x \in Filled(rhs'), x < at' PROVE Held(rhs.slots[x].first)'
    <3>1. x \in Filled(rhs) /\ x # at /\ rhs'.slots[x] = rhs.slots[x]
      BY <1>7
    <3>2. Held(rhs.slots[x].first)
      BY <1>1, <1>5, <2>2, <3>1
    <3>3. PICK j \in Key : rhs.slots[x].first = j
      BY <1>1, <3>1, FilledType
    <3>4. Held(j)'
      BY <1>4, <3>2, <3>3
    <3> QED BY <3>1, <3>3, <3>4
  <2> QED BY <2>1, <2>2
<1> QED BY <1>1, <1>8, <1>9, <1>10 DEF KeyInv, Contents, OtherContents

LEMMA MergeMaps ==
  ASSUME Inv, KeyInv, Merge
  PROVE  KeyInv' /\ Maps!Merge
<1>1. /\ Sound(t) /\ Sound(rhs) /\ Distinct /\ pc = "ready" /\ ret' = FALSE
      /\ t' = t /\ rhs' = rhs /\ old' = old /\ todo' = todo
      /\ at' = Following(rhs, NoSlot)
      /\ pc' = IF Following(rhs, NoSlot) = NoSlot THEN "ready" ELSE "merge"
  BY DEF Inv, KeyInv, Merge, Walk
<1>2. /\ IdleMaps /\ Moving' = NoSlot
      /\ \A x : (Held(x)' <=> Held(x)) /\ HeldValue(x)' = HeldValue(x) /\ Asked(todo, x) = {}
  <2>1. IdleMaps
    BY <1>1, Idle
  <2>2. \A x : Asked(todo, x) = {}
    BY <2>1 DEF IdleMaps, Asked
  <2> QED BY <1>1, <2>1, <2>2 DEF Held, HeldValue, Moving
<1>3. /\ \A x \in Filled(rhs) : at' # NoSlot /\ ~ (x < at')
      /\ at' = NoSlot => \A x : ValueIn(rhs.slots, x) = NoValue
  <2>1. \A x \in Filled(rhs) : x \in Nat
    BY <1>1, FilledType
  <2>2. \A x \in Filled(rhs) : at' # NoSlot /\ at' =< x /\ at' \in Nat
    <3> TAKE x \in Filled(rhs)
    <3>1. x > NoSlot
      BY <2>1 DEF NoSlot
    <3>2. at' # NoSlot /\ at' =< x
      BY <1>1, <3>1, FollowingNext
    <3> QED BY <1>1, <2>1, <3>2, FollowingType
  <2>3. at' = NoSlot => Filled(rhs) = {}
    BY <2>2
  <2> QED BY <1>1, <2>1, <2>2, <2>3, EmptyMap
<1>4. ASSUME NEW k \in Key
      PROVE  /\ MapOf(k)' = IF Contents[k] # NoValue THEN Contents[k] ELSE OtherContents[k]
             /\ OtherOf(k)' = IF Contents[k] # NoValue THEN OtherContents[k] ELSE NoValue
  <2>1. /\ Contents[k] = ValueIn(t.slots, k) /\ OtherContents[k] = ValueIn(rhs.slots, k)
        /\ Held(k) <=> Stores(t.slots, k)
        /\ Stores(t.slots, k) <=> ValueIn(t.slots, k) # NoValue
    BY <1>1, <1>2, ValueType DEF Contents, OtherContents, IdleMaps, Distinct
  <2>2. CASE Held(k)
    <3>1. MapOf(k)' = ValueIn(t.slots, k)
      BY <1>1, <1>2, <2>1, <2>2 DEF MapOf, HeldValue
    <3>2. OtherOf(k)' = ValueIn(rhs.slots, k)
      BY <1>1, <1>2, <2>2 DEF OtherOf
    <3> QED BY <2>1, <2>2, <3>1, <3>2
  <2>3. CASE ~ Held(k)
    <3>1. MapOf(k)' = IF at' # NoSlot THEN ValueIn(rhs.slots, k) ELSE NoValue
      BY <1>1, <1>2, <2>3 DEF MapOf
    <3>2. OtherOf(k)' = IF at' # NoSlot THEN NoValue ELSE ValueIn(rhs.slots, k)
      BY <1>1, <1>2, <2>3 DEF OtherOf
    <3> QED BY <1>3, <2>1, <2>3, <3>1, <3>2
  <2> QED BY <2>2, <2>3
<1>5. Maps!Merge
  BY <1>1, <1>4 DEF Maps!Merge, Maps!Stored, Contents, OtherContents
<1>6. Distinct'
  BY <1>1 DEF Distinct
<1>7. Merging'
  <2> SUFFICES ASSUME at' # NoSlot PROVE pc' = "merge"
    BY <1>1, <1>3 DEF Merging
  <2> QED BY <1>1
<1> QED BY <1>5, <1>6, <1>7 DEF KeyInv

\* What a caller sees of the two arrays between calls.
LEMMA IdleContents ==
  ASSUME Inv, Distinct, pc = "ready"
  PROVE  /\ Contents = [k \in Key |-> ValueIn(t.slots, k)]
         /\ OtherContents = [k \in Key |-> ValueIn(rhs.slots, k)]
         /\ \A k \in Key : Maps!Stored(k) <=> Has(t, k)
         /\ \A k \in Key : Has(t, k) <=> Stores(t.slots, k)
<1>1. IdleMaps
  BY Idle
<1>2. /\ Contents = [k \in Key |-> ValueIn(t.slots, k)]
      /\ OtherContents = [k \in Key |-> ValueIn(rhs.slots, k)]
  BY <1>1 DEF IdleMaps, Contents, OtherContents
<1>3. Sound(t) /\ OneSlotEach(t.slots)
  BY DEF Inv, Distinct
<1>4. \A k \in Key : Has(t, k) <=> Stores(t.slots, k)
  BY <1>3, MapSlots
<1>5. \A k \in Key : Maps!Stored(k) <=> Has(t, k)
  <2>1. \A k \in Key : Stores(t.slots, k) <=> ValueIn(t.slots, k) # NoValue
    BY <1>3, ValueType
  <2> QED BY <1>2, <1>4, <2>1 DEF Maps!Stored
<1> QED BY <1>2, <1>4, <1>5

LEMMA EraseMaps ==
  ASSUME Inv, Distinct, Inv', NEW gone \in SUBSET Filled(t), NEW flag,
         Becomes(Erased(t, gone), rhs, flag)
  PROVE  /\ KeyInv' /\ ret' = flag /\ OtherContents' = OtherContents
         /\ Contents' = [k \in Key |-> IF \E s \in gone : t.slots[s].first = k
                                       THEN NoValue ELSE Contents[k]]
<1> DEFINE r == Erased(t, gone)
<1>1. /\ OneSlotEach(r.slots)
      /\ \A k : (\E s \in gone : t.slots[s].first = k) => ~ Stores(r.slots, k)
      /\ \A k : (\A s \in gone : t.slots[s].first # k) => ValueIn(r.slots, k) = ValueIn(t.slots, k)
  BY ErasedMap DEF Inv, Distinct
<1> HIDE DEF r
<1>2. OneSlotEach(rhs.slots) /\ Becomes(r, rhs, flag) /\ pc = "ready"
  BY DEF Distinct, r, Becomes
<1>3. /\ KeyInv' /\ ret' = flag
      /\ Contents' = [k \in Key |-> ValueIn(r.slots, k)]
      /\ OtherContents' = [k \in Key |-> ValueIn(rhs.slots, k)]
  BY <1>1, <1>2, BecomesMaps
<1>4. /\ Contents = [k \in Key |-> ValueIn(t.slots, k)]
      /\ OtherContents = [k \in Key |-> ValueIn(rhs.slots, k)]
  BY <1>2, IdleContents
<1>5. \A k \in Key : ValueIn(r.slots, k) = IF \E s \in gone : t.slots[s].first = k
                                           THEN NoValue ELSE Contents[k]
  <2>1. \A k : ~ Stores(r.slots, k) => ValueIn(r.slots, k) = NoValue
    BY DEF ValueIn
  <2> QED BY <1>1, <1>4, <2>1
<1> QED BY <1>3, <1>4, <1>5

\* The comparison of two maps: as many elements, and each of one is in the other.
LEMMA KeysCounted ==
  ASSUME NEW m, Sound(m), OneSlotEach(m.slots)
  PROVE  IsFiniteSet(Keys(m)) /\ Cardinality(Keys(m)) = m.filled
<1> DEFINE S == Filled(m)
           f == [s \in S |-> m.slots[s].first]
<1>1. f \in Surjection(S, Keys(m))
  BY DEF Surjection, Keys
<1>2. f \in Injection(S, Keys(m))
  <2>1. \A x, y \in S : f[x] = f[y] => x = y
    BY MapSlots DEF OneSlotEach
  <2>2. f \in [S -> Keys(m)]
    BY DEF Keys
  <2> QED BY <2>1, <2>2 DEF Injection, IsInjective
<1>3. IsFiniteSet(S) /\ Cardinality(S) = m.filled
  BY FilledType
<1> HIDE DEF f, S
<1> QED BY <1>1, <1>2, <1>3, FS_Surjection

LEMMA CompareMaps ==
  ASSUME Inv, Distinct, pc = "ready"
  PROVE  SameElements <=> Contents = OtherContents
<1> DEFINE u == t.slots
           w == rhs.slots
<1>1. /\ Sound(t) /\ Sound(rhs) /\ OneSlotEach(u) /\ OneSlotEach(w)
      /\ Contents = [k \in Key |-> ValueIn(u, k)]
      /\ OtherContents = [k \in Key |-> ValueIn(w, k)]
  BY IdleContents DEF Inv, Distinct
<1>2. /\ \A k : k \in Keys(t) <=> Stores(u, k)
      /\ \A k : k \in Keys(rhs) <=> Stores(w, k)
      /\ \A k : Stores(u, k) \/ Stores(w, k) => k \in Key
      /\ \A k \in Key : Has(rhs, k) <=> Stores(w, k)
  BY <1>1, MapSlots
<1>3. /\ \A k : Stores(u, k) <=> ValueIn(u, k) # NoValue
      /\ \A k : Stores(w, k) <=> ValueIn(w, k) # NoValue
  BY <1>1, ValueType
<1>4. /\ IsFiniteSet(Keys(t)) /\ Cardinality(Keys(t)) = t.filled
      /\ IsFiniteSet(Keys(rhs)) /\ Cardinality(Keys(rhs)) = rhs.filled
  BY <1>1, KeysCounted
<1>5. ASSUME NEW k \in Key, Has(rhs, k)
      PROVE  ValueIn(w, k) = rhs.slots[Find(rhs, k)].second
  <2>1. Find(rhs, k) \in Filled(rhs) /\ w[Find(rhs, k)].first = k
    BY <1>5, FindType
  <2>2. Find(rhs, k) \in DOMAIN w /\ w[Find(rhs, k)] # NoPair
    BY <1>1, <2>1, MapSlots
  <2> QED BY <1>1, <2>1, <2>2, ValueAt
<1>6. \A s \in Filled(t) : /\ u[s].first \in Key /\ Stores(u, u[s].first)
                           /\ ValueIn(u, u[s].first) = u[s].second
  <2> SUFFICES ASSUME NEW s \in Filled(t)
               PROVE  /\ u[s].first \in Key /\ Stores(u, u[s].first)
                      /\ ValueIn(u, u[s].first) = u[s].second
    OBVIOUS
  <2>1. s \in DOMAIN u /\ u[s] # NoPair
    BY <1>1, MapSlots
  <2> QED BY <1>1, <2>1, ValueAt, FilledType
<1>7. \A k : Stores(u, k) => \E s \in Filled(t) : u[s].first = k
  BY <1>2 DEF Keys
<1>8. SameElements <=>
        /\ t.filled = rhs.filled
        /\ \A s \in Filled(t) : /\ Has(rhs, u[s].first)
                                /\ rhs.slots[Find(rhs, u[s].first)].second = u[s].second
  BY DEF SameElements
<1> HIDE DEF u, w
<1>9. SameElements <=> t.filled = rhs.filled /\ \A k \in Key : Stores(u, k) =>
                                                  Stores(w, k) /\ ValueIn(w, k) = ValueIn(u, k)
  <2>1. \A s \in Filled(t) :
          (/\ Has(rhs, u[s].first)
           /\ rhs.slots[Find(rhs, u[s].first)].second = u[s].second)
          <=> (Stores(w, u[s].first) /\ ValueIn(w, u[s].first) = ValueIn(u, u[s].first))
    BY <1>2, <1>5, <1>6
  <2> QED BY <1>6, <1>7, <1>8, <2>1
<1>10. ASSUME SameElements PROVE Contents = OtherContents
  <2>1. Keys(t) \subseteq Keys(rhs) /\ Cardinality(Keys(t)) = Cardinality(Keys(rhs))
    BY <1>2, <1>4, <1>9, <1>10
  <2>2. Keys(t) = Keys(rhs)
    BY <1>4, <2>1, FS_Subset
  <2>3. \A k \in Key : ValueIn(w, k) = ValueIn(u, k)
    BY <1>2, <1>3, <1>9, <1>10, <2>2
  <2> QED BY <1>1, <2>3
<1>11. ASSUME Contents = OtherContents PROVE SameElements
  <2>1. \A k \in Key : ValueIn(w, k) = ValueIn(u, k)
    <3> TAKE k \in Key
    <3>1. Contents[k] = ValueIn(u, k) /\ OtherContents[k] = ValueIn(w, k)
      BY <1>1
    <3> QED BY <1>11, <3>1
  <2>2. Keys(t) = Keys(rhs)
    BY <1>2, <1>3, <2>1
  <2> QED BY <1>3, <1>4, <1>9, <2>1, <2>2
<1> QED BY <1>10, <1>11

-----------------------------------------------------------------------------
(* Every call is a step of the abstract specification.                     *)

LEMMA InsertRefines ==
  ASSUME Inv, KeyInv, Inv', NEW k \in Key, NEW v \in Value, Insert(k, v)
  PROVE  KeyInv' /\ Maps!Insert(k, v)
<1>1. Distinct /\ pc = "ready"
  BY DEF KeyInv, Insert, Becomes
<1>2. /\ Contents = [x \in Key |-> ValueIn(t.slots, x)]
      /\ OtherContents = [x \in Key |-> ValueIn(rhs.slots, x)]
      /\ Maps!Stored(k) <=> Has(t, k)
  BY <1>1, IdleContents
<1>3. CASE Has(t, k)
  <2>1. Becomes(t, rhs, FALSE) /\ OneSlotEach(t.slots) /\ OneSlotEach(rhs.slots)
    BY <1>1, <1>3 DEF Insert, Distinct
  <2>2. KeyInv' /\ ret' = FALSE /\ Contents' = Contents /\ OtherContents' = OtherContents
    BY <1>2, <2>1, BecomesMaps
  <2> QED BY <1>2, <1>3, <2>2 DEF Maps!Insert
<1>4. CASE ~ Has(t, k)
  <2>1. /\ Store(k, v, <<>>, NoSlot) /\ ret' = TRUE /\ UNCHANGED <<rhs, todo, at>>
    BY <1>4 DEF Insert
  <2>2. /\ KeyInv' /\ OtherContents' = OtherContents
        /\ Contents' = [Contents EXCEPT ![k] = v]
    BY <1>1, <1>4, <2>1, InsertMaps
  <2> QED BY <1>2, <1>4, <2>1, <2>2 DEF Maps!Insert
<1> QED BY <1>3, <1>4

LEMMA AssignRefines ==
  ASSUME Inv, KeyInv, Inv', NEW k \in Key, NEW v \in Value, InsertOrAssign(k, v)
  PROVE  KeyInv' /\ Maps!Assign(k, v)
<1>1. CASE Has(t, k)
  <2> DEFINE slots == [t.slots EXCEPT ![Find(t, k)] = [first |-> k, second |-> v]]
             m == [t EXCEPT !.slots = slots]
  <2>1. Sound(t) /\ Distinct /\ Becomes(m, rhs, FALSE) /\ pc = "ready"
    BY <1>1 DEF Inv, KeyInv, InsertOrAssign, Becomes
  <2>2. m.slots = slots
    <3>1. t = [groups |-> t.groups, filled |-> t.filled, max |-> t.max, slots |-> t.slots, over |-> t.over]
      BY <2>1 DEF Sound, Shape
    <3> HIDE DEF slots
    <3>2. m = [groups |-> t.groups, filled |-> t.filled, max |-> t.max, slots |-> slots, over |-> t.over]
      BY <3>1, UpdatedField
    <3> HIDE DEF m
    <3> QED BY <3>2
  <2> HIDE DEF m
  <2>3. Find(t, k) \in Filled(t) /\ t.slots[Find(t, k)].first = k /\ OneSlotEach(t.slots)
    BY <1>1, <2>1, FindType DEF Distinct
  <2>4. /\ OneSlotEach(m.slots) /\ ValueIn(m.slots, k) = v
        /\ \A x : x # k => ValueIn(m.slots, x) = ValueIn(t.slots, x)
    BY <2>1, <2>2, <2>3, AssignedMap
  <2> HIDE DEF slots
  <2>5. /\ KeyInv' /\ ret' = FALSE
        /\ Contents' = [x \in Key |-> ValueIn(m.slots, x)]
        /\ OtherContents' = [x \in Key |-> ValueIn(rhs.slots, x)]
    BY <2>1, <2>4, BecomesMaps DEF Distinct
  <2>6. /\ Contents = [x \in Key |-> ValueIn(t.slots, x)]
        /\ OtherContents = [x \in Key |-> ValueIn(rhs.slots, x)]
        /\ Maps!Stored(k)
    BY <1>1, <2>1, IdleContents
  <2>7. Contents' = [Contents EXCEPT ![k] = v]
    BY <2>4, <2>5, <2>6
  <2> QED BY <2>5, <2>6, <2>7 DEF Maps!Assign
<1>2. CASE ~ Has(t, k)
  <2>1. Insert(k, v)
    BY <1>2 DEF InsertOrAssign
  <2>2. KeyInv' /\ Maps!Insert(k, v) /\ ~ Maps!Stored(k)
    <3>1. Distinct /\ pc = "ready"
      BY <2>1 DEF KeyInv, Insert, Becomes
    <3> QED BY <1>2, <2>1, <3>1, InsertRefines, IdleContents
  <2> QED BY <2>2 DEF Maps!Insert, Maps!Assign
<1> QED BY <1>1, <1>2

LEMMA InsertRangeRefines ==
  ASSUME Inv, KeyInv, NEW batch \in Batches, NEW v \in Value, InsertRange(batch, v)
  PROVE  KeyInv' /\ Maps!InsertMany(batch, v)
<1> DEFINE pairs == Elements(batch, v)
           n == t.filled + Len(batch)
<1>1. Sound(t) /\ Distinct /\ OneSlotEach(t.slots) /\ n \in Nat /\ pc = "ready" /\ Resize(t, n, pairs)
  <2>1. batch \in Seq(Key) /\ Sound(t) /\ Distinct
    BY SizeAssumption DEF Inv, KeyInv
  <2>2. t.filled \in Nat
    BY <2>1, FilledType
  <2> QED BY <2>1, <2>2 DEF Distinct, InsertRange, Resize
<1>2. \A k : /\ Asked(pairs, k) = {} <=> ~ \E i \in DOMAIN batch : batch[i] = k
             /\ Asked(pairs, k) # {} => pairs[Lowest(Asked(pairs, k))].second = v
  BY AskedOfRange
<1> HIDE DEF pairs, n
<1>3. /\ KeyInv' /\ ret' = FALSE /\ OtherContents' = OtherContents /\ Contents' = With(t, pairs)
  BY <1>1, ResizeMaps
<1>4. /\ Contents = [k \in Key |-> ValueIn(t.slots, k)]
      /\ \A k \in Key : Maps!Stored(k) <=> Stores(t.slots, k)
  BY <1>1, IdleContents
<1>5. \A k \in Key : ~ Stores(t.slots, k) => ValueIn(t.slots, k) = NoValue
  BY DEF ValueIn
<1>6. Contents' = [k \in Key |-> IF ~ Maps!Stored(k) /\ \E i \in DOMAIN batch : batch[i] = k
                                 THEN v ELSE Contents[k]]
  BY <1>2, <1>3, <1>4, <1>5 DEF With
<1> QED BY <1>3, <1>6 DEF Maps!InsertMany

LEMMA BuildRefines ==
  ASSUME Inv, KeyInv, NEW batch \in Batches, NEW v \in Value, Build(batch, v)
  PROVE  KeyInv' /\ Maps!Build(batch, v)
<1> DEFINE pairs == Elements(batch, v)
           n == Len(batch)
<1>1. Distinct /\ n \in Nat /\ Resize(Null, n, pairs)
  <2>1. batch \in Seq(Key)
    BY SizeAssumption
  <2> QED BY <2>1 DEF KeyInv, Build
<1>2. \A k : /\ Asked(pairs, k) = {} <=> ~ \E i \in DOMAIN batch : batch[i] = k
             /\ Asked(pairs, k) # {} => pairs[Lowest(Asked(pairs, k))].second = v
  BY AskedOfRange
<1> HIDE DEF pairs, n
<1>3. Sound(Null) /\ OneSlotEach(Null.slots) /\ \A k : ~ Stores(Null.slots, k)
  BY NullSound, EmptyMap
<1>4. /\ KeyInv' /\ ret' = FALSE /\ OtherContents' = OtherContents /\ Contents' = With(Null, pairs)
  BY <1>1, <1>3, ResizeMaps
<1>5. Contents' = [k \in Key |-> IF \E i \in DOMAIN batch : batch[i] = k THEN v ELSE NoValue]
  BY <1>2, <1>3, <1>4 DEF With
<1> QED BY <1>4, <1>5 DEF Maps!Build

LEMMA ReserveRefines ==
  ASSUME Inv, KeyInv, NEW n \in Nat, Reserve(n)
  PROVE  KeyInv' /\ Maps!Nop
<1>1. Sound(t) /\ Distinct /\ OneSlotEach(t.slots) /\ pc = "ready" /\ Resize(t, n, <<>>)
  BY DEF Inv, KeyInv, Distinct, Reserve, Resize
<1>2. /\ KeyInv' /\ ret' = FALSE /\ OtherContents' = OtherContents /\ Contents' = With(t, <<>>)
  BY <1>1, ResizeMaps
<1>3. Contents = [k \in Key |-> ValueIn(t.slots, k)]
  BY <1>1, IdleContents
<1>4. \A k \in Key : ~ Stores(t.slots, k) => ValueIn(t.slots, k) = NoValue
  BY DEF ValueIn
<1>5. \A k : Asked(<<>>, k) = {}
  BY DEF Asked
<1>6. Contents' = Contents
  BY <1>2, <1>3, <1>4, <1>5 DEF With
<1> QED BY <1>2, <1>6 DEF Maps!Nop

LEMMA EraseRefines ==
  ASSUME Inv, KeyInv, Inv'
  PROVE  /\ \A k \in Key : EraseKey(k) => KeyInv' /\ Maps!Remove(k)
         /\ \A s \in Filled(t) : EraseIterator(s) => KeyInv' /\ Maps!RemoveAll({t.slots[s].first})
         /\ \A gone \in SUBSET Keys(t) : EraseIf(gone) => KeyInv' /\ Maps!RemoveAll(gone)
         /\ \A s \in Filled(t) : t.slots[s].first \in Key
         /\ Keys(t) \subseteq Key
<1>1. Sound(t) /\ Distinct /\ OneSlotEach(t.slots) /\ OneSlotEach(rhs.slots)
  BY DEF Inv, KeyInv, Distinct
<1>2. \A s \in Filled(t) : t.slots[s].first \in Key
  BY <1>1, FilledType
<1>3. \A k : k \in Keys(t) <=> \E s \in Filled(t) : t.slots[s].first = k
  BY DEF Keys
<1>4. ASSUME NEW k \in Key, EraseKey(k) PROVE KeyInv' /\ Maps!Remove(k)
  <2>1. /\ pc = "ready"
        /\ Contents = [x \in Key |-> ValueIn(t.slots, x)]
        /\ OtherContents = [x \in Key |-> ValueIn(rhs.slots, x)]
        /\ Maps!Stored(k) <=> Has(t, k)
    BY <1>1, <1>4, IdleContents DEF EraseKey, Becomes
  <2>2. CASE Has(t, k)
    <3> DEFINE gone == {Find(t, k)}
    <3>1. gone \in SUBSET Filled(t) /\ Becomes(Erased(t, gone), rhs, TRUE)
      BY <1>4, <2>2, FindType DEF EraseKey
    <3>2. \A x : (\E s \in gone : t.slots[s].first = x) <=> x = k
      BY <2>2, FindType
    <3> HIDE DEF gone
    <3>3. /\ KeyInv' /\ ret' = TRUE /\ OtherContents' = OtherContents
          /\ Contents' = [x \in Key |-> IF \E s \in gone : t.slots[s].first = x
                                        THEN NoValue ELSE Contents[x]]
      BY <1>1, <3>1, EraseMaps
    <3>4. Contents' = [Contents EXCEPT ![k] = NoValue]
      BY <2>1, <3>2, <3>3
    <3> QED BY <2>1, <2>2, <3>3, <3>4 DEF Maps!Remove
  <2>3. CASE ~ Has(t, k)
    <3>1. Becomes(t, rhs, FALSE)
      BY <1>4, <2>3 DEF EraseKey, Has
    <3>2. KeyInv' /\ ret' = FALSE /\ Contents' = Contents /\ OtherContents' = OtherContents
      BY <1>1, <2>1, <3>1, BecomesMaps
    <3>3. Contents[k] = NoValue
      BY <2>1, <2>3 DEF Maps!Stored
    <3>4. [Contents EXCEPT ![k] = NoValue] = Contents
      BY <2>1, <3>3
    <3> QED BY <3>2, <3>3, <3>4 DEF Maps!Remove, Maps!Stored
  <2> QED BY <2>2, <2>3
<1>5. ASSUME NEW gone \in SUBSET Filled(t), Becomes(Erased(t, gone), rhs, FALSE), NEW keys,
             \A k \in Key : k \in keys <=> \E s \in gone : t.slots[s].first = k
      PROVE  KeyInv' /\ Maps!RemoveAll(keys)
  <2>1. /\ KeyInv' /\ ret' = FALSE /\ OtherContents' = OtherContents
        /\ Contents' = [x \in Key |-> IF \E s \in gone : t.slots[s].first = x
                                      THEN NoValue ELSE Contents[x]]
    BY <1>1, <1>5, EraseMaps
  <2>2. Contents' = [x \in Key |-> IF x \in keys THEN NoValue ELSE Contents[x]]
    BY <1>5, <2>1
  <2> QED BY <2>1, <2>2 DEF Maps!RemoveAll
<1>6. ASSUME NEW s \in Filled(t), EraseIterator(s)
      PROVE  KeyInv' /\ Maps!RemoveAll({t.slots[s].first})
  <2> DEFINE gone == {s}
             keys == {t.slots[s].first}
  <2>1. /\ gone \in SUBSET Filled(t) /\ Becomes(Erased(t, gone), rhs, FALSE)
        /\ \A k \in Key : k \in keys <=> \E x \in gone : t.slots[x].first = k
    BY <1>6 DEF EraseIterator
  <2> HIDE DEF gone, keys
  <2>2. KeyInv' /\ Maps!RemoveAll(keys)
    BY <1>5, <2>1
  <2> QED BY <2>2 DEF keys
<1>7. ASSUME NEW keys \in SUBSET Keys(t), EraseIf(keys)
      PROVE  KeyInv' /\ Maps!RemoveAll(keys)
  <2> DEFINE gone == { s \in Filled(t) : t.slots[s].first \in keys }
  <2>1. /\ gone \in SUBSET Filled(t) /\ Becomes(Erased(t, gone), rhs, FALSE)
        /\ \A k \in Key : k \in keys <=> \E s \in gone : t.slots[s].first = k
    BY <1>3, <1>7 DEF EraseIf
  <2> HIDE DEF gone
  <2> QED BY <1>5, <2>1
<1> QED BY <1>2, <1>3, <1>4, <1>6, <1>7

LEMMA ClearRefines ==
  ASSUME Inv, KeyInv, Inv', Clear
  PROVE  KeyInv' /\ Maps!RemoveAll(Key)
<1>1. /\ pc = "ready" /\ Becomes(Cleared(t), rhs, FALSE)
      /\ OneSlotEach(rhs.slots) /\ OneSlotEach(Cleared(t).slots)
      /\ \A k : ValueIn(Cleared(t).slots, k) = NoValue
  <2>1. Sound(t) /\ Distinct /\ Becomes(Cleared(t), rhs, FALSE)
    BY DEF Inv, KeyInv, Clear
  <2> QED BY <2>1, ClearedSound, ClearedMap, EmptyMap DEF Distinct, Becomes
<1>2. /\ KeyInv' /\ ret' = FALSE
      /\ Contents' = [k \in Key |-> ValueIn(Cleared(t).slots, k)]
      /\ OtherContents' = [k \in Key |-> ValueIn(rhs.slots, k)]
  BY <1>1, BecomesMaps
<1>3. OtherContents = [k \in Key |-> ValueIn(rhs.slots, k)]
  BY <1>1, IdleContents DEF KeyInv
<1>4. Contents' = [k \in Key |-> IF k \in Key THEN NoValue ELSE Contents[k]]
  BY <1>1, <1>2
<1> QED BY <1>2, <1>3, <1>4 DEF Maps!RemoveAll

LEMMA OneMapRefines ==
  ASSUME Inv, KeyInv, Inv', OneMap
  PROVE  KeyInv' /\ Maps!Next
<1>1. ASSUME NEW k \in Key, EraseKey(k) PROVE KeyInv' /\ Maps!Next
  <2>1. KeyInv' /\ Maps!Remove(k)
    BY <1>1, EraseRefines
  <2> QED BY <2>1 DEF Maps!Next
<1>2. ASSUME NEW k \in Key, NEW v \in Value, Insert(k, v) PROVE KeyInv' /\ Maps!Next
  <2>1. KeyInv' /\ Maps!Insert(k, v)
    BY <1>2, InsertRefines
  <2> QED BY <2>1 DEF Maps!Next
<1>3. ASSUME NEW k \in Key, NEW v \in Value, InsertOrAssign(k, v) PROVE KeyInv' /\ Maps!Next
  <2>1. KeyInv' /\ Maps!Assign(k, v)
    BY <1>3, AssignRefines
  <2> QED BY <2>1 DEF Maps!Next
<1>4. ASSUME NEW batch \in Batches, NEW v \in Value, InsertRange(batch, v) PROVE KeyInv' /\ Maps!Next
  <2>1. KeyInv' /\ Maps!InsertMany(batch, v)
    BY <1>4, InsertRangeRefines
  <2> QED BY <2>1 DEF Maps!Next
<1>5. ASSUME NEW batch \in Batches, NEW v \in Value, Build(batch, v) PROVE KeyInv' /\ Maps!Next
  <2>1. KeyInv' /\ Maps!Build(batch, v)
    BY <1>5, BuildRefines
  <2> QED BY <2>1 DEF Maps!Next
<1>6. ASSUME NEW n \in Requests \cup {0}, Reserve(n) PROVE KeyInv' /\ Maps!Next
  <2>1. n \in Nat
    BY SizeAssumption
  <2>2. KeyInv' /\ Maps!Nop
    BY <1>6, <2>1, ReserveRefines
  <2> QED BY <2>2 DEF Maps!Next
<1>7. ASSUME NEW s \in Filled(t), EraseIterator(s) PROVE KeyInv' /\ Maps!Next
  <2> DEFINE gone == {t.slots[s].first}
  <2>1. KeyInv' /\ Maps!RemoveAll(gone) /\ gone \in SUBSET Key
    BY <1>7, EraseRefines
  <2> HIDE DEF gone
  <2> QED BY <2>1 DEF Maps!Next
<1>8. ASSUME NEW gone \in SUBSET Keys(t), EraseIf(gone) PROVE KeyInv' /\ Maps!Next
  <2>1. KeyInv' /\ Maps!RemoveAll(gone) /\ gone \in SUBSET Key
    BY <1>8, EraseRefines
  <2> QED BY <2>1 DEF Maps!Next
<1>9. ASSUME Clear PROVE KeyInv' /\ Maps!Next
  <2>1. KeyInv' /\ Maps!RemoveAll(Key)
    BY <1>9, ClearRefines
  <2> QED BY <2>1 DEF Maps!Next
<1> QED BY <1>1, <1>2, <1>3, <1>4, <1>5, <1>6, <1>7, <1>8, <1>9 DEF OneMap

LEMMA TwoMapsRefines ==
  ASSUME Inv, KeyInv, Inv', TwoMaps
  PROVE  KeyInv' /\ Maps!Next
<1>1. /\ Sound(t) /\ Sound(rhs) /\ Sound(Null) /\ Distinct
      /\ OneSlotEach(t.slots) /\ OneSlotEach(rhs.slots)
      /\ OneSlotEach(Null.slots) /\ \A k : ValueIn(Null.slots, k) = NoValue
      /\ OneSlotEach(Cleared(t).slots) /\ \A k : ValueIn(Cleared(t).slots, k) = NoValue
  BY NullSound, ClearedSound, ClearedMap, EmptyMap DEF Inv, KeyInv, Distinct
<1>2. ASSUME pc = "ready"
      PROVE  /\ Contents = [k \in Key |-> ValueIn(t.slots, k)]
             /\ OtherContents = [k \in Key |-> ValueIn(rhs.slots, k)]
             /\ SameElements <=> Contents = OtherContents
  BY <1>1, <1>2, IdleContents, CompareMaps
<1>3. ASSUME NEW m, Sound(m)
      PROVE  OneSlotEach(Clone(m).slots) /\ \A k : ValueIn(Clone(m).slots, k) = ValueIn(rhs.slots, k)
  <2>1. CASE rhs.filled = 0
    <3>1. Clone(m) = Cleared(m) /\ Sound(Cleared(m)) /\ Filled(Cleared(m)) = {}
      BY <1>3, <2>1, ClearedSound, ClearedMap DEF Clone
    <3>2. Filled(rhs) = {}
      BY <1>1, <2>1, FilledType, FS_EmptySet
    <3> QED BY <1>1, <3>1, <3>2, EmptyMap
  <2>2. CASE rhs.filled # 0
    BY <1>1, <2>2 DEF Clone
  <2> QED BY <2>1, <2>2
<1>4. ASSUME NEW m, Sound(m), Becomes(Clone(m), rhs, FALSE) PROVE KeyInv' /\ Maps!Next
  <2> DEFINE copy == Clone(m)
  <2>1. /\ pc = "ready" /\ OneSlotEach(copy.slots) /\ Becomes(copy, rhs, FALSE)
        /\ \A k : ValueIn(copy.slots, k) = ValueIn(rhs.slots, k)
    BY <1>3, <1>4 DEF Becomes
  <2> HIDE DEF copy
  <2>2. /\ KeyInv' /\ ret' = FALSE
        /\ Contents' = [k \in Key |-> ValueIn(copy.slots, k)]
        /\ OtherContents' = [k \in Key |-> ValueIn(rhs.slots, k)]
    BY <1>1, <2>1, BecomesMaps
  <2>3. Maps!Copy
    BY <1>2, <2>1, <2>2 DEF Maps!Copy
  <2> QED BY <2>2, <2>3 DEF Maps!Next
<1>5. ASSUME NEW left, OneSlotEach(left.slots), MoveAway(left),
             (\A k : ValueIn(left.slots, k) = NoValue) \/ left = t
      PROVE  KeyInv' /\ Maps!Next
  <2>1. pc = "ready" /\ Becomes(rhs, left, FALSE)
    BY <1>5 DEF MoveAway, Becomes
  <2>2. /\ KeyInv' /\ ret' = FALSE
        /\ Contents' = [k \in Key |-> ValueIn(rhs.slots, k)]
        /\ OtherContents' = [k \in Key |-> ValueIn(left.slots, k)]
    BY <1>1, <1>5, <2>1, BecomesMaps
  <2>3. Maps!Move \/ Maps!Swap
    BY <1>2, <1>5, <2>1, <2>2 DEF Maps!Move, Maps!Swap, Maps!Nothing
  <2> QED BY <2>2, <2>3 DEF Maps!Next
<1>6. ASSUME Becomes(t, rhs, SameElements) PROVE KeyInv' /\ Maps!Next
  <2>1. pc = "ready"
    BY <1>6 DEF Becomes
  <2>2. /\ KeyInv' /\ ret' = SameElements
        /\ Contents' = [k \in Key |-> ValueIn(t.slots, k)]
        /\ OtherContents' = [k \in Key |-> ValueIn(rhs.slots, k)]
    BY <1>1, <1>6, BecomesMaps
  <2>3. SameElements = (Contents = OtherContents)
    BY <1>2, <2>1 DEF SameElements
  <2>4. Maps!Compare
    BY <1>2, <2>1, <2>2, <2>3 DEF Maps!Compare
  <2> QED BY <2>2, <2>4 DEF Maps!Next
<1>7. ASSUME Merge PROVE KeyInv' /\ Maps!Next
  BY <1>7, MergeMaps DEF Maps!Next
<1> QED BY <1>1, <1>4, <1>5, <1>6, <1>7 DEF TwoMaps

LEMMA StepRefines ==
  ASSUME Inv, KeyInv, [Next]_vars
  PROVE  KeyInv' /\ [Maps!Next]_(Maps!vars)
<1>1. Inv'
  BY NextInv
<1>2. CASE Internal
  <2>1. KeyInv' /\ Contents' = Contents /\ OtherContents' = OtherContents /\ ret' = ret
    BY <1>2, TransferMaps, TransferDoneMaps, InsertNextMaps, MergeNextMaps, MergeEraseMaps DEF Internal
  <2> QED BY <2>1 DEF Maps!vars
<1>3. CASE OneMap
  BY <1>1, <1>3, OneMapRefines
<1>4. CASE TwoMaps
  BY <1>1, <1>4, TwoMapsRefines
<1>5. CASE UNCHANGED vars
  <2>1. KeyInv'
    BY <1>5 DEF vars, KeyInv, Distinct, Merging, Held
  <2>2. \A k : MapOf(k)' = MapOf(k) /\ OtherOf(k)' = OtherOf(k)
    BY <1>5 DEF vars, MapOf, OtherOf, Held, HeldValue, Moving
  <2>3. Contents' = Contents /\ OtherContents' = OtherContents /\ ret' = ret
    BY <1>5, <2>2 DEF vars, Contents, OtherContents
  <2> QED BY <2>1, <2>3 DEF Maps!vars
<1> QED BY <1>2, <1>3, <1>4, <1>5 DEF Next

\* Two maps implement two partial functions: growing, inserting a range and
\* merging take many steps, in which elements lie in two arrays or in both maps,
\* and none of them is seen; what is seen of every other call is what it
\* promises, the flag it returns and the comparison of the maps included.
THEOREM MapsImplementPairs == Spec => ImplementsMaps
<1>1. Init => KeyInv /\ Maps!Init
  <2> SUFFICES ASSUME Init PROVE KeyInv /\ Maps!Init
    OBVIOUS
  <2>1. Inv /\ pc = "ready" /\ rhs = Null /\ old = <<>> /\ at = NoSlot /\ ret = FALSE
    BY InitInv DEF Init
  <2>2. Filled(t) = {} /\ Sound(t) /\ Filled(rhs) = {} /\ Sound(rhs)
    <3>1. PICK n \in Requests \cup {0} : Allocatable(Null, n) /\ t = NewArrays(GroupsOf(Null, n))
      BY DEF Init
    <3>2. n \in Nat
      BY SizeAssumption
    <3>3. GroupsOf(Null, n) \in Sizes
      BY <3>1, <3>2, NullSound, ResizeSuffices
    <3> QED BY <2>1, <3>1, <3>3, NewSound, NullSound
  <2>3. /\ OneSlotEach(t.slots) /\ \A k : ~ Stores(t.slots, k) /\ ValueIn(t.slots, k) = NoValue
        /\ OneSlotEach(rhs.slots) /\ \A k : ValueIn(rhs.slots, k) = NoValue
        /\ OneSlotEach(old)
    BY <2>1, <2>2, EmptyMap, NoArray
  <2>4. KeyInv
    BY <2>1, <2>3 DEF KeyInv, Distinct, Merging
  <2>5. Contents = Maps!Nothing /\ OtherContents = Maps!Nothing
    BY <2>1, <2>3, <2>4, IdleContents DEF KeyInv, Maps!Nothing
  <2> QED BY <2>1, <2>4, <2>5 DEF Maps!Init
<1>2. Inv /\ KeyInv /\ [Next]_vars => KeyInv' /\ [Maps!Next]_(Maps!vars)
  BY StepRefines
<1> QED BY <1>1, <1>2, InvHolds, PTL DEF Spec, ImplementsMaps, Maps!Spec
=============================================================================
