------------------------- MODULE HashTable7Theorems -------------------------
(***************************************************************************)
(* HashTable7 and its loops, for every set of keys, hash function, table   *)
(* size, load factor, word size, predicate and order of calls: what the    *)
(* steps do to the array, the inductive invariant and the theorems it      *)
(* gives, and then the same for the iterator, erase_if and clearkv.        *)
(***************************************************************************)
EXTENDS HashTable7Iter, ChainsProofs, FiniteSetTheorems, WellFoundedInduction, TLAPS

-----------------------------------------------------------------------------
(* Arithmetic of the sizes and of the probe.                               *)

LEMMA LowestIsIn ==
  ASSUME NEW S \in SUBSET Nat, S # {}
  PROVE  Lowest(S) \in S /\ \A y \in S : Lowest(S) =< y
<1> DEFINE R == { ss \in Nat \X Nat : ss[1] < ss[2] }
<1>1. IsWellFoundedOn(R, Nat)
  BY NatLessThanWellFounded, Zenon DEF OpToRel
<1>0. \A a, b \in Nat : a < b => <<a, b>> \in R
  OBVIOUS
<1> HIDE DEF R
<1>2. PICK x \in S : \A y \in S : ~ (<<y, x>> \in R)
  BY <1>1, WFMin
<1>3. \A y \in S : x =< y
  <2> SUFFICES ASSUME NEW y \in S PROVE ~ (y < x)
    OBVIOUS
  <2> QED BY <1>0, <1>2
<1> QED BY <1>3 DEF Lowest

\* With a load factor of at most 1, reserve asks for a bucket per element.
LEMMA RequiredSuffices ==
  ASSUME NEW n \in Nat, NEW m \in Nat, NEW f \in Nat \ {0}, m >= f
  PROVE  (n * m) \div f \in Nat /\ (n * m) \div f >= n
<1> DEFINE q == (n * m) \div f
<1>1. n * m \in Nat /\ n * m >= n * f
  OBVIOUS
<1>2. q \in Int /\ f * q =< n * m /\ n * m < f * (q + 1)
  OBVIOUS
<1>3. n * f < f * (q + 1)
  BY <1>1, <1>2
<1>4. n < q + 1
  BY <1>2, <1>3
<1> QED BY <1>2, <1>4

LEMMA ModInRange ==
  ASSUME NEW h \in Nat, NEW n \in Nat \ {0}
  PROVE  h % n \in 0 .. n - 1
OBVIOUS

LEMMA DivMonotone ==
  ASSUME NEW a \in Nat, NEW b \in Nat, a =< b, NEW s \in Nat \ {0}
  PROVE  a \div s \in Nat /\ a \div s =< b \div s
OBVIOUS

-----------------------------------------------------------------------------
(* The table between two steps, whatever call is running.                  *)

TableOK ==
  /\ num_buckets \in Nat \ {0}
  /\ bitmask \subseteq Buckets
  /\ pairs \in [Buckets -> Entry \cup {NoPair}]
  /\ last \in 0..QMask
  /\ num_filled \in Nat
  /\ CountsAgree
  /\ ChainsSound
  /\ \A a, b \in Filled : pairs[a].first = pairs[b].first => a = b

LEMMA MainInRange ==
  ASSUME num_buckets \in Nat \ {0}, NEW k \in Key
  PROVE  Main(k) \in Buckets
<1>1. Hash[k] \in Nat
  BY HashAssumption
<1> QED BY <1>1, ModInRange DEF Main, Buckets

\* find_empty_bucket: the probe ends, at an empty bucket, with the hint on a
\* word of the table.
LEMMA ProbeFinds ==
  ASSUME TableOK, bitmask # {}, NEW from \in Nat
  PROVE  FindEmptyBucket(from) \in bitmask /\ LastAfter(from) \in 0..QMask
<1>0. /\ num_buckets \in Nat \ {0} /\ bitmask \subseteq Buckets /\ last \in 0..QMask
      /\ SizeBit \in Nat \ {0} /\ \A b \in bitmask : b \in Nat
  BY WordAssumption DEF TableOK, Buckets
<1>1. QMask \in Nat
  BY <1>0, DivMonotone DEF QMask
<1>2. \A b \in bitmask : b \div SizeBit \in 0..QMask
  <2> SUFFICES ASSUME NEW b \in bitmask PROVE b \div SizeBit \in 0..QMask
    OBVIOUS
  <2>1. b \in Nat /\ num_buckets - 1 \in Nat /\ b =< num_buckets - 1
    BY <1>0 DEF Buckets
  <2> QED BY <2>1, <1>0, <1>1, DivMonotone DEF QMask
<1> HIDE DEF QMask
<1>3. \A i \in 0..QMask : Turn(i) \in 0..QMask /\ Mirror(i) \in 0..QMask
  BY <1>0, <1>1 DEF Turn, Mirror, Wrap
<1> DEFINE hits == { i \in 0..QMask : Word(Turn(i)) \cup Word(Mirror(Turn(i))) # {} }
<1>4. hits # {}
  <2>1. PICK b \in bitmask : TRUE
    OBVIOUS
  <2> DEFINE w == b \div SizeBit
             i == IF w >= last THEN w - last ELSE w - last + (QMask + 1)
  <2>2. w \in 0..QMask /\ b \in Word(w)
    BY <1>2 DEF Word
  <2> HIDE DEF w
  <2>3. i \in 0..QMask /\ Turn(i) = w
    BY <2>2, <1>0, <1>1 DEF Turn, Wrap
  <2> QED BY <2>2, <2>3
<1>5. Lowest(hits) \in hits
  <2>1. hits \in SUBSET Nat
    OBVIOUS
  <2> HIDE DEF hits
  <2> QED BY <2>1, <1>4, LowestIsIn
<1>6. FirstTurn \in 0..QMask /\ Word(FirstTurn) \cup Word(Mirror(FirstTurn)) # {}
  BY <1>5, <1>3 DEF FirstTurn
<1>7. HitWord \in 0..QMask /\ Word(HitWord) # {}
  BY <1>6, <1>3 DEF HitWord
<1>8. Lowest(Word(HitWord)) \in bitmask
  <2>1. Word(HitWord) \in SUBSET Nat /\ Word(HitWord) \subseteq bitmask
    <3>1. Word(HitWord) \subseteq bitmask
      BY DEF Word
    <3> QED BY <3>1, <1>0
  <2> QED BY <2>1, <1>7, LowestIsIn
<1>9. Window(from) # {} => Lowest(Window(from)) \in bitmask
  <2>1. Window(from) \in SUBSET Nat /\ Window(from) \subseteq bitmask
    <3>1. Window(from) \subseteq bitmask
      BY DEF Window
    <3> QED BY <3>1, <1>0
  <2> QED BY <2>1, LowestIsIn
<1> QED BY <1>0, <1>7, <1>8, <1>9 DEF FindEmptyBucket, LastAfter

LEMMA FilledType ==
  ASSUME TableOK
  PROVE  /\ IsFiniteSet(Filled) /\ Cardinality(Filled) \in Nat
         /\ Filled \subseteq Buckets
         /\ \A b \in Filled : /\ pairs[b] \in Entry
                              /\ Home[b] = Main(pairs[b].first) /\ Home[b] \in Filled
                              /\ Link[b] = pairs[b].bucket /\ Link[b] \in Filled
<1>1. IsFiniteSet(Buckets)
  BY FS_Interval DEF TableOK, Buckets
<1>2. IsFiniteSet(Filled) /\ Cardinality(Filled) \in Nat
  BY <1>1, FS_Subset, FS_CardinalityType DEF Filled
<1>3. ASSUME NEW b \in Filled
      PROVE  /\ pairs[b] \in Entry
             /\ Home[b] = Main(pairs[b].first) /\ Home[b] \in Filled
             /\ Link[b] = pairs[b].bucket /\ Link[b] \in Filled
  <2>1. pairs[b] \in Entry
    BY DEF TableOK, CountsAgree, Filled
  <2>2. Home[b] \in Filled /\ Link[b] \in Filled
    BY DEF TableOK, ChainsSound, WellChained, HeadsAtHome, LinksStayInChain
  <2> QED BY <2>1, <2>2 DEF Home, Link
<1> QED BY <1>2, <1>3 DEF Filled

\* EMH_NEW on an empty bucket.
LEMMA OneMore ==
  ASSUME TableOK, NEW n \in bitmask,
         num_buckets' = num_buckets, bitmask' = bitmask \ {n},
         num_filled' = num_filled + 1,
         \A b \in Buckets : pairs'[b] = NoPair <=> b \in bitmask'
  PROVE  n \notin Filled /\ Filled' = Filled \cup {n} /\ CountsAgree'
<1>1. n \notin Filled /\ Filled' = Filled \cup {n}
  BY DEF TableOK, Filled, Buckets
<1>2. Cardinality(Filled') = Cardinality(Filled) + 1
  BY <1>1, FilledType, FS_AddElement
<1> QED BY <1>1, <1>2 DEF CountsAgree, TableOK, Buckets

\* clear_bucket on a bucket that holds an element.
LEMMA OneLess ==
  ASSUME TableOK, NEW n \in Filled,
         num_buckets' = num_buckets, bitmask' = bitmask \cup {n},
         num_filled' = num_filled - 1,
         \A b \in Buckets : pairs'[b] = NoPair <=> b \in bitmask'
  PROVE  Filled' = Filled \ {n} /\ CountsAgree' /\ num_filled' \in Nat
<1>1. Filled' = Filled \ {n}
  BY DEF TableOK, Filled, Buckets
<1>2. Cardinality(Filled') = Cardinality(Filled) - 1
  BY <1>1, FilledType, FS_RemoveElement
<1>3. Cardinality(Filled') \in Nat
  BY <1>1, FilledType, FS_Subset, FS_CardinalityType
<1> QED BY <1>1, <1>2, <1>3 DEF CountsAgree, TableOK, Buckets

\* A search finds exactly the keys the table holds, each in its own bucket.
LEMMA SearchExact ==
  ASSUME TableOK, NEW k \in Key
  PROVE  /\ \A c \in Filled : pairs[c].first = k => FindFilledBucket(k) = c /\ Meets(k)
         /\ (\A c \in Filled : pairs[c].first # k)
              => FindFilledBucket(k) = num_buckets /\ ~ Meets(k)
<1> DEFINE hits == IF Main(k) \in bitmask THEN {}
                   ELSE { b \in Chain(Main(k)) : pairs[b].first = k }
<1>1. \A b \in hits : b \in Filled /\ pairs[b].first = k
  BY DEF Chain, Reach
<1>2. ASSUME NEW c \in Filled, pairs[c].first = k
      PROVE  FindFilledBucket(k) = c /\ Meets(k)
  <2>1. Home[c] = Main(k) /\ Main(k) \in Filled
    BY <1>2, FilledType
  <2>2. c \in Chain(Main(k)) /\ Home[Main(k)] = Main(k)
    BY <2>1 DEF TableOK, ChainsSound, WellChained, AllReachable, HeadsAtHome, Chain
  <2>3. c \in hits
    BY <1>2, <2>1, <2>2 DEF Filled
  <2>4. \A b \in hits : b = c
    BY <1>1, <1>2 DEF TableOK
  <2>5. FindFilledBucket(k) = c
    BY <2>3, <2>4 DEF FindFilledBucket
  <2>6. c # num_buckets
    BY DEF TableOK, Filled, Buckets
  <2> QED BY <2>2, <2>5, <2>6 DEF Meets
<1>3. ASSUME \A c \in Filled : pairs[c].first # k
      PROVE  FindFilledBucket(k) = num_buckets /\ ~ Meets(k)
  <2>1. hits = {}
    BY <1>1, <1>3
  <2>2. FindFilledBucket(k) = num_buckets
    BY <2>1 DEF FindFilledBucket
  <2> QED BY <2>2 DEF Meets
<1> QED BY <1>2, <1>3

-----------------------------------------------------------------------------
(* Placing a new key.                                                      *)

Placed(k, v) ==
  /\ TableOK'
  /\ num_filled' = num_filled + 1
  /\ TableElements' = TableElements \cup {<<k, v>>}

LEMMA PlaceAtMainOK ==
  ASSUME TableOK, num_buckets' = num_buckets,
         NEW k \in Key, NEW v \in Value,
         \A c \in Filled : pairs[c].first # k,
         PlaceAtMain(k, v)
  PROVE  Placed(k, v)
<1>b. PICK b \in Buckets : b = Main(k)
  BY MainInRange DEF TableOK
<1>0. Buckets' = Buckets /\ QMask' = QMask /\ \A c \in Buckets : c \in Nat
  BY DEF TableOK, Buckets, QMask
<1>1. /\ b \in bitmask /\ b \in Buckets /\ b \in Nat
      /\ pairs' = [pairs EXCEPT ![b] = Pair(k, v, b)]
      /\ bitmask' = bitmask \ {b} /\ num_filled' = num_filled + 1 /\ last' = last
  BY <1>b, <1>0 DEF PlaceAtMain, TableOK
<1>2. Pair(k, v, b) \in Entry /\ Pair(k, v, b) # NoPair
  BY <1>1, NoPairAssumption DEF Pair, Entry
<1>3. /\ pairs' \in [Buckets -> Entry \cup {NoPair}]
      /\ pairs'[b] = Pair(k, v, b)
      /\ \A c \in Buckets \ {b} : pairs'[c] = pairs[c]
  BY <1>1, <1>2 DEF TableOK
<1>4. b \notin Filled /\ Filled' = Filled \cup {b} /\ CountsAgree'
  <2>1. \A c \in Buckets : pairs'[c] = NoPair <=> c \in bitmask'
    BY <1>1, <1>2, <1>3 DEF TableOK, CountsAgree
  <2> QED BY <2>1, <1>1, OneMore
<1>5. \A c \in Filled : pairs'[c] = pairs[c]
  BY <1>3, <1>4, FilledType
<1>6. ChainsSound'
  <2>1. \A c \in Filled : Link'[c] = Link[c]
    BY <1>4, <1>5 DEF Link
  <2>0. \A c \in Filled : Home'[c] = Home[c]
    BY <1>4, <1>5 DEF Home, Main
  <2>2. Link'[b] = b /\ Home'[b] = b
    BY <1>b, <1>3, <1>4 DEF Link, Home, Main, Pair
  <2>3. WellChained(Filled, Link, Home)
    BY DEF TableOK, ChainsSound
  <2>4. b \notin Filled
    BY <1>4
  <2>5. WellChained(Filled \cup {b}, Link', Home')
    BY <2>0, <2>1, <2>2, <2>3, <2>4, AddHead
  <2> QED BY <2>5, <1>4 DEF ChainsSound
<1>7. \A c, d \in Filled' : pairs'[c].first = pairs'[d].first => c = d
  BY <1>3, <1>4, <1>5 DEF Pair, TableOK
<1>8. TableElements' = TableElements \cup {<<k, v>>}
  BY <1>3, <1>4, <1>5 DEF TableElements, Pair
<1>9. TableOK'
  <2>1. bitmask' \subseteq Buckets' /\ pairs' \in [Buckets' -> Entry \cup {NoPair}]
    BY <1>0, <1>1, <1>3 DEF TableOK
  <2>2. last' \in 0..QMask' /\ num_filled' \in Nat
    BY <1>0, <1>1 DEF TableOK
  <2> QED BY <2>1, <2>2, <1>4, <1>6, <1>7 DEF TableOK
<1> QED BY <1>1, <1>8, <1>9 DEF Placed

LEMMA PlaceAtTailOK ==
  ASSUME TableOK, num_buckets' = num_buckets,
         NEW k \in Key, NEW v \in Value,
         \A c \in Filled : pairs[c].first # k,
         PlaceAtTail(k, v)
  PROVE  Placed(k, v)
<1> DEFINE b == Main(k)
           t == FindLastBucket(b)
           n == FindEmptyBucket(t)
           moved == Pair(pairs[t].first, pairs[t].second, n)
<1>0. b \in Filled /\ Home[b] = b /\ bitmask # {} /\ Buckets' = Buckets /\ QMask' = QMask
  BY MainInRange DEF PlaceAtTail, TableOK, Filled, Buckets, QMask
<1>1. t \in Filled /\ Home[t] = b /\ Link[t] = t
  <2>1. WellChained(Filled, Link, Home)
    BY DEF TableOK, ChainsSound
  <2>2. \E x \in Reach(Filled, Link, b) : Link[x] = x
    BY <2>1, <1>0, LastExists
  <2>3. t \in Reach(Filled, Link, b) /\ Link[t] = t
    BY <2>2 DEF FindLastBucket, Chain
  <2> HIDE DEF b, t
  <2> QED BY <2>1, <2>3, <1>0, ReachStaysHome
<1>2. n \in bitmask /\ n \in Buckets /\ n \in Nat /\ n \notin Filled /\ LastAfter(t) \in 0..QMask
  <2>0. \A c \in Buckets : c \in Nat
    BY DEF TableOK, Buckets
  <2>1. t \in Nat
    BY <1>1, <2>0, FilledType
  <2> HIDE DEF t
  <2>2. n \in bitmask /\ LastAfter(t) \in 0..QMask
    BY <2>1, <1>0, ProbeFinds
  <2> HIDE DEF n
  <2> QED BY <2>0, <2>2 DEF TableOK, Filled
<1>3. /\ pairs' = [pairs EXCEPT ![t] = moved, ![n] = Pair(k, v, n)]
      /\ bitmask' = bitmask \ {n} /\ num_filled' = num_filled + 1 /\ last' = LastAfter(t)
  BY DEF PlaceAtTail
<1> HIDE DEF b, t, n
<1>4. /\ Pair(k, v, n) \in Entry /\ Pair(k, v, n) # NoPair
      /\ moved \in Entry /\ moved # NoPair
  BY <1>1, <1>2, FilledType, NoPairAssumption DEF Pair, Entry
<1>5. /\ pairs' \in [Buckets -> Entry \cup {NoPair}]
      /\ pairs'[n] = Pair(k, v, n) /\ pairs'[t] = moved
      /\ \A c \in Buckets \ {n, t} : pairs'[c] = pairs[c]
  BY <1>1, <1>2, <1>3, <1>4, FilledType DEF TableOK
<1>6. Filled' = Filled \cup {n} /\ CountsAgree'
  <2>1. \A c \in Buckets : pairs'[c] = NoPair <=> c \in bitmask'
    BY <1>1, <1>2, <1>3, <1>4, <1>5 DEF TableOK, CountsAgree, Filled
  <2> QED BY <2>1, <1>2, <1>3, OneMore
<1>7. \A c \in Filled \ {t} : pairs'[c] = pairs[c]
  BY <1>2, <1>5, FilledType
<1>8. \A c \in Filled : pairs'[c].first = pairs[c].first /\ pairs'[c].second = pairs[c].second
  BY <1>5, <1>7 DEF Pair
<1>9. ChainsSound'
  <2>1. \A c \in Filled \ {t} : Link'[c] = Link[c]
    BY <1>6, <1>7 DEF Link
  <2>2. \A c \in Filled : Home'[c] = Home[c]
    BY <1>6, <1>8 DEF Home, Main
  <2>3. Link'[t] = n /\ Link'[n] = n
    BY <1>1, <1>5, <1>6 DEF Link, Pair
  <2>4. Home'[n] = Home[t]
    BY <1>1, <1>5, <1>6 DEF Home, Main, Pair, b
  <2>5. WellChained(Filled, Link, Home)
    BY DEF TableOK, ChainsSound
  <2>6. WellChained(Filled \cup {n}, Link', Home')
    BY <2>1, <2>2, <2>3, <2>4, <2>5, <1>1, <1>2, AppendTail
  <2> QED BY <2>6, <1>6 DEF ChainsSound
<1>10. \A c, d \in Filled' : pairs'[c].first = pairs'[d].first => c = d
  BY <1>5, <1>6, <1>8 DEF Pair, TableOK
<1>11. TableElements' = TableElements \cup {<<k, v>>}
  BY <1>5, <1>6, <1>8 DEF TableElements, Pair
<1>12. TableOK'
  <2>1. bitmask' \subseteq Buckets' /\ pairs' \in [Buckets' -> Entry \cup {NoPair}]
    BY <1>0, <1>3, <1>5 DEF TableOK
  <2>2. last' \in 0..QMask' /\ num_filled' \in Nat
    BY <1>0, <1>2, <1>3 DEF TableOK
  <2> QED BY <2>1, <2>2, <1>6, <1>9, <1>10 DEF TableOK
<1> QED BY <1>3, <1>11, <1>12 DEF Placed

LEMMA PlaceByKickoutOK ==
  ASSUME TableOK, num_buckets' = num_buckets,
         NEW k \in Key, NEW v \in Value,
         \A c \in Filled : pairs[c].first # k,
         PlaceByKickout(k, v)
  PROVE  Placed(k, v)
<1>b. PICK b \in Buckets : b = Main(k)
  BY MainInRange DEF TableOK
<1>0. /\ b \in Filled /\ Home[b] # b /\ bitmask # {}
      /\ Buckets' = Buckets /\ QMask' = QMask /\ \A c \in Buckets : c \in Nat
  BY <1>b DEF PlaceByKickout, TableOK, Filled, Buckets, QMask
<1>w. WellChained(Filled, Link, Home)
  BY DEF TableOK, ChainsSound
<1>p. PICK p \in Filled : p = FindPrevBucket(Home[b], b) /\ p # b /\ Link[p] = b
  <2>1. \E x \in Reach(Filled, Link, Home[b]) : x # b /\ Link[x] = b
    BY <1>0, <1>w, PrevExists
  <2>2. \A x \in Reach(Filled, Link, Home[b]) : x \in Filled
    BY DEF Reach
  <2> QED BY <2>1, <2>2 DEF FindPrevBucket, Chain
<1>n. PICK n \in bitmask : n = FindEmptyBucket(Link[b]) /\ LastAfter(Link[b]) \in 0..QMask
  <2>1. Link[b] \in Nat
    BY <1>0, FilledType
  <2> QED BY <2>1, <1>0, ProbeFinds
<1> DEFINE guest == Pair(pairs[b].first, pairs[b].second, IF Link[b] = b THEN n ELSE Link[b])
           relinked == Pair(pairs[p].first, pairs[p].second, n)
<1>1. /\ pairs' = [pairs EXCEPT ![n] = guest, ![p] = relinked, ![b] = Pair(k, v, b)]
      /\ bitmask' = bitmask \ {n} /\ num_filled' = num_filled + 1
      /\ last' = LastAfter(Link[b])
  BY <1>b, <1>p, <1>n DEF PlaceByKickout
<1>2. n \in Buckets /\ n \in Nat /\ b \in Nat /\ n \notin Filled
  BY <1>0, <1>n DEF TableOK, Filled
<1>3. /\ guest \in Entry /\ relinked \in Entry /\ Pair(k, v, b) \in Entry
      /\ guest # NoPair /\ relinked # NoPair /\ Pair(k, v, b) # NoPair
  <2>1. Link[b] \in Nat /\ pairs[b] \in Entry /\ pairs[p] \in Entry
    BY <1>0, <1>p, FilledType
  <2> QED BY <2>1, <1>2, NoPairAssumption DEF Pair, Entry
<1>4. /\ pairs' \in [Buckets -> Entry \cup {NoPair}]
      /\ pairs'[n] = guest /\ pairs'[p] = relinked /\ pairs'[b] = Pair(k, v, b)
      /\ \A c \in Buckets \ {n, p, b} : pairs'[c] = pairs[c]
  <2> HIDE DEF guest, relinked
  <2> QED BY <1>0, <1>1, <1>2, <1>3, <1>p, FilledType DEF TableOK
<1>5. Filled' = Filled \cup {n} /\ CountsAgree'
  <2>1. \A c \in Buckets : pairs'[c] = NoPair <=> c \in bitmask'
    <3> HIDE DEF guest, relinked
    <3> QED BY <1>0, <1>1, <1>2, <1>3, <1>4, <1>p DEF TableOK, CountsAgree, Filled
  <2> QED BY <2>1, <1>n, <1>1, OneMore
<1>6. \A c \in Filled \ {p, b} : pairs'[c] = pairs[c]
  BY <1>2, <1>4, FilledType
<1>7. \A c \in Filled \ {b} : /\ pairs'[c].first = pairs[c].first
                              /\ pairs'[c].second = pairs[c].second
  BY <1>4, <1>6 DEF Pair
<1>8. pairs'[n].first = pairs[b].first /\ pairs'[n].second = pairs[b].second
  BY <1>4 DEF Pair
<1>9. ChainsSound'
  <2> DEFINE F == (Filled \ {b}) \cup {n}
             nx == [c \in F |-> pairs'[c].bucket]
             mn == [c \in F |-> Main(pairs'[c].first)]
  <2>1. WellChained(F, nx, mn)
    <3>1. \A c \in Filled \ {b, p} : nx[c] = Link[c]
      BY <1>6 DEF Link
    <3>2. \A c \in Filled \ {b} : mn[c] = Home[c]
      BY <1>7 DEF Home
    <3>3. nx[n] = (IF Link[b] = b THEN n ELSE Link[b]) /\ nx[p] = n
      BY <1>4, <1>p DEF Pair
    <3>4. mn[n] = Home[b]
      BY <1>0, <1>8 DEF Home
    <3>5. b \in Filled /\ Home[b] # b /\ p # b /\ Link[p] = b /\ n \notin Filled
      BY <1>0, <1>p, <1>2
    <3> HIDE DEF F, nx, mn, guest, relinked
    <3>6. WellChained((Filled \ {b}) \cup {n}, nx, mn)
      BY <3>1, <3>2, <3>3, <3>4, <3>5, <1>w, Relocate
    <3> QED BY <3>6 DEF F
  <2>2. b \notin F /\ Filled' = F \cup {b}
    BY <1>0, <1>2, <1>5
  <2>3. \A c \in F : Link'[c] = nx[c]
    BY <2>2 DEF Link
  <2>4. \A c \in F : Home'[c] = mn[c]
    BY <2>2 DEF Home, Main
  <2>5. Link'[b] = b /\ Home'[b] = b
    BY <2>2, <1>b, <1>4 DEF Link, Home, Main, Pair
  <2> HIDE DEF F, nx, mn
  <2>0. b \notin F
    BY <2>2
  <2>6. WellChained(F \cup {b}, Link', Home')
    BY <2>0, <2>1, <2>3, <2>4, <2>5, AddHead, SMTT(30)
  <2> QED BY <2>2, <2>6 DEF ChainsSound
<1>10. \A c, d \in Filled' : pairs'[c].first = pairs'[d].first => c = d
  <2>1. pairs'[b].first = k
    BY <1>4 DEF Pair
  <2> QED BY <2>1, <1>0, <1>5, <1>7, <1>8 DEF TableOK
<1>11. TableElements' = TableElements \cup {<<k, v>>}
  <2>1. pairs'[b].first = k /\ pairs'[b].second = v
    BY <1>4 DEF Pair
  <2> QED BY <2>1, <1>0, <1>5, <1>7, <1>8 DEF TableElements
<1>12. TableOK'
  <2>1. bitmask' \subseteq Buckets' /\ pairs' \in [Buckets' -> Entry \cup {NoPair}]
    BY <1>0, <1>1, <1>4 DEF TableOK
  <2>2. last' \in 0..QMask' /\ num_filled' \in Nat
    BY <1>0, <1>n, <1>1 DEF TableOK
  <2> QED BY <2>1, <2>2, <1>5, <1>9, <1>10 DEF TableOK
<1> QED BY <1>1, <1>11, <1>12 DEF Placed

LEMMA PlaceOK ==
  ASSUME TableOK, num_buckets' = num_buckets,
         NEW k \in Key, NEW v \in Value,
         \A c \in Filled : pairs[c].first # k,
         Place(k, v)
  PROVE  Placed(k, v)
BY PlaceAtMainOK, PlaceAtTailOK, PlaceByKickoutOK DEF Place

-----------------------------------------------------------------------------
(* Removing the element of bucket b.                                       *)

Removed(b) ==
  /\ TableOK'
  /\ num_filled' = num_filled - 1
  /\ TableElements' = TableElements \ {<<pairs[b].first, pairs[b].second>>}

LEMMA RemoveAloneChained ==
  ASSUME WellChained(Filled, Link, Home),
         NEW b \in Filled, Home[b] = b, Link[b] = b,
         \A c \in Filled \ {b} : Link'[c] = Link[c],
         \A c \in Filled \ {b} : Home'[c] = Home[c]
  PROVE  WellChained(Filled \ {b}, Link', Home')
BY DropAlone

LEMMA RemoveAloneOK ==
  ASSUME TableOK, num_buckets' = num_buckets, last' = last,
         num_filled' = num_filled - 1,
         NEW b \in Filled, RemoveAlone(b)
  PROVE  Removed(b)
<1>0. /\ b \in Buckets /\ Home[b] = b /\ Link[b] = b
      /\ pairs' = [pairs EXCEPT ![b] = NoPair] /\ bitmask' = bitmask \cup {b}
      /\ Buckets' = Buckets /\ QMask' = QMask
  BY FilledType DEF RemoveAlone, Buckets, QMask
<1>1. /\ pairs' \in [Buckets -> Entry \cup {NoPair}]
      /\ pairs'[b] = NoPair /\ \A c \in Buckets \ {b} : pairs'[c] = pairs[c]
  BY <1>0 DEF TableOK
<1>2. Filled' = Filled \ {b} /\ CountsAgree' /\ num_filled' \in Nat
  <2>1. \A c \in Buckets : pairs'[c] = NoPair <=> c \in bitmask'
    BY <1>0, <1>1 DEF TableOK, CountsAgree
  <2> QED BY <2>1, <1>0, OneLess
<1>3. \A c \in Filled \ {b} : pairs'[c] = pairs[c]
  BY <1>1, FilledType
<1>4. ChainsSound'
  <2>1. \A c \in Filled \ {b} : Link'[c] = Link[c]
    BY <1>2, <1>3 DEF Link
  <2>4. \A c \in Filled \ {b} : Home'[c] = Home[c]
    BY <1>2, <1>3 DEF Home, Main
  <2>2. WellChained(Filled, Link, Home)
    BY DEF TableOK, ChainsSound
  <2>0. Home[b] = b /\ Link[b] = b
    BY <1>0
  <2>3. WellChained(Filled \ {b}, Link', Home')
    BY <2>0, <2>1, <2>2, <2>4, RemoveAloneChained
  <2> QED BY <2>3, <1>2 DEF ChainsSound
<1>5. TableElements' = TableElements \ {<<pairs[b].first, pairs[b].second>>}
  BY <1>2, <1>3 DEF TableElements, TableOK
<1>6. TableOK'
  <2>1. bitmask' \subseteq Buckets' /\ pairs' \in [Buckets' -> Entry \cup {NoPair}]
    BY <1>0, <1>1 DEF TableOK
  <2>2. last' \in 0..QMask'
    BY <1>0 DEF TableOK
  <2>3. \A c, d \in Filled' : pairs'[c].first = pairs'[d].first => c = d
    BY <1>2, <1>3 DEF TableOK
  <2> QED BY <2>1, <2>2, <2>3, <1>2, <1>4 DEF TableOK
<1> QED BY <1>5, <1>6 DEF Removed

\* What RemoveHead and Unlink have in common: bucket n is given up, and the
\* bucket p before it takes over its link and holds the element of keep.
GiveUp(n, p, keep) ==
  /\ bitmask' = bitmask \cup {n}
  /\ pairs' = [pairs EXCEPT ![p] = Pair(pairs[keep].first, pairs[keep].second,
                                       IF Link[n] = n THEN p ELSE Link[n]),
                           ![n] = NoPair]

LEMMA GiveUpChained ==
  ASSUME WellChained(Filled, Link, Home),
         NEW n \in Filled, Home[n] # n,
         NEW p \in Filled, p # n, Link[p] = n,
         \A c \in Filled \ {n, p} : Link'[c] = Link[c],
         \A c \in Filled \ {n} : Home'[c] = Home[c],
         Link'[p] = (IF Link[n] = n THEN p ELSE Link[n])
  PROVE  WellChained(Filled \ {n}, Link', Home')
BY DropNext

LEMMA GiveUpOK ==
  ASSUME TableOK, num_buckets' = num_buckets, last' = last,
         num_filled' = num_filled - 1,
         NEW n \in Filled, Home[n] # n,
         NEW p \in Filled, p # n, Link[p] = n,
         NEW keep \in Filled, NEW gone \in Filled,
         (keep = n /\ gone = p) \/ (keep = p /\ gone = n),
         GiveUp(n, p, keep)
  PROVE  Removed(gone)
<1> DEFINE e == Pair(pairs[keep].first, pairs[keep].second,
                     IF Link[n] = n THEN p ELSE Link[n])
<1>0. /\ p \in Buckets /\ n \in Buckets /\ p \in Nat
      /\ Buckets' = Buckets /\ QMask' = QMask /\ bitmask' = bitmask \cup {n}
  BY FilledType DEF TableOK, Buckets, QMask, GiveUp
<1>1. e \in Entry /\ e # NoPair
  BY <1>0, FilledType, NoPairAssumption DEF Pair, Entry
<1>2. /\ pairs' \in [Buckets -> Entry \cup {NoPair}]
      /\ pairs'[n] = NoPair /\ pairs'[p] = e
      /\ \A c \in Buckets \ {n, p} : pairs'[c] = pairs[c]
  <2>1. pairs' = [pairs EXCEPT ![p] = e, ![n] = NoPair]
    BY DEF GiveUp
  <2> HIDE DEF e
  <2> QED BY <2>1, <1>0, <1>1 DEF TableOK
<1>3. Filled' = Filled \ {n} /\ CountsAgree' /\ num_filled' \in Nat
  <2>1. \A c \in Buckets : pairs'[c] = NoPair <=> c \in bitmask'
    <3> HIDE DEF e
    <3> QED BY <1>0, <1>1, <1>2 DEF TableOK, CountsAgree, Filled
  <2> QED BY <2>1, <1>0, OneLess
<1>4. \A c \in Filled \ {n, p} : pairs'[c] = pairs[c]
  BY <1>2, FilledType
<1>5. Home[n] = Home[p]
  BY DEF TableOK, ChainsSound, WellChained, LinksStayInChain
<1>6. ChainsSound'
  <2>1. \A c \in Filled \ {n, p} : Link'[c] = Link[c]
    BY <1>3, <1>4 DEF Link
  <2>2. \A c \in Filled \ {n} : Home'[c] = Home[c]
    <3>1. \A c \in Filled \ {n, p} : Home'[c] = Home[c]
      BY <1>3, <1>4 DEF Home, Main
    <3>2. Home'[p] = Home[keep]
      BY <1>2, <1>3 DEF Home, Main, Pair
    <3> QED BY <3>1, <3>2, <1>5
  <2>3. Link'[p] = (IF Link[n] = n THEN p ELSE Link[n])
    BY <1>2, <1>3 DEF Link, Pair
  <2>4. WellChained(Filled, Link, Home)
    BY DEF TableOK, ChainsSound
  <2>5. Home[n] # n /\ p # n /\ Link[p] = n
    OBVIOUS
  <2> HIDE DEF e
  <2>6. WellChained(Filled \ {n}, Link', Home')
    BY <2>1, <2>2, <2>3, <2>4, <2>5, GiveUpChained
  <2> QED BY <2>6, <1>3 DEF ChainsSound
<1>7. pairs'[p].first = pairs[keep].first /\ pairs'[p].second = pairs[keep].second
  BY <1>2 DEF Pair
<1>8. \A c, d \in Filled' : pairs'[c].first = pairs'[d].first => c = d
  BY <1>3, <1>4, <1>7 DEF TableOK
<1>9. TableOK'
  <2>1. bitmask' \subseteq Buckets' /\ pairs' \in [Buckets' -> Entry \cup {NoPair}]
    BY <1>0, <1>2 DEF TableOK
  <2>2. last' \in 0..QMask'
    BY <1>0 DEF TableOK
  <2> QED BY <2>1, <2>2, <1>3, <1>6, <1>8 DEF TableOK
<1>10. TableElements' = TableElements \ {<<pairs[gone].first, pairs[gone].second>>}
  <2> DEFINE elem(c) == <<pairs[c].first, pairs[c].second>>
             from(c) == IF c = p THEN keep ELSE c
  <2>1. \A c \in Filled \ {n} :
          from(c) \in Filled \ {gone} /\ <<pairs'[c].first, pairs'[c].second>> = elem(from(c))
    BY <1>4, <1>7
  <2>2. \A d \in Filled \ {gone} : \E c \in Filled \ {n} : from(c) = d
    OBVIOUS
  <2>3. \A d \in Filled \ {gone} : elem(d) # elem(gone)
    BY DEF TableOK
  <2> HIDE DEF from
  <2> QED BY <2>1, <2>2, <2>3, <1>3 DEF TableElements
<1> QED BY <1>9, <1>10 DEF Removed

LEMMA EraseBucketOK ==
  ASSUME TableOK, NEW b \in Filled, EraseBucket(b)
  PROVE  Removed(b)
<1>0. /\ num_buckets' = num_buckets /\ last' = last /\ num_filled' = num_filled - 1
      /\ Link[b] \in Filled
      /\ WellChained(Filled, Link, Home)
  BY FilledType DEF EraseBucket, TableOK, ChainsSound
<1>1. CASE RemoveAlone(b)
  BY <1>0, <1>1, RemoveAloneOK
<1>2. CASE RemoveHead(b)
  <2>0. PICK n \in Filled : n = Link[b]
    BY <1>0
  <2>1. Home[n] # n
    BY <1>0, <1>2, <2>0 DEF WellChained, LinksStayInChain, RemoveHead
  <2>2. GiveUp(n, b, n) /\ b # n
    BY <1>2, <2>0 DEF RemoveHead, GiveUp
  <2>3. Link[b] = n
    BY <2>0
  <2> QED BY <1>0, <2>1, <2>2, <2>3, GiveUpOK
<1>3. CASE Unlink(b)
  <2>1. PICK p \in Filled : p = FindPrevBucket(Home[b], b) /\ p # b /\ Link[p] = b
    <3>1. \E x \in Reach(Filled, Link, Home[b]) : x # b /\ Link[x] = b
      BY <1>0, <1>3, PrevExists DEF Unlink
    <3>2. \A x \in Reach(Filled, Link, Home[b]) : x \in Filled
      BY DEF Reach
    <3> QED BY <3>1, <3>2 DEF FindPrevBucket, Chain
  <2>2. GiveUp(b, p, p) /\ Home[b] # b
    BY <1>3, <2>1 DEF Unlink, GiveUp
  <2> QED BY <1>0, <2>1, <2>2, GiveUpOK
<1> QED BY <1>1, <1>2, <1>3 DEF EraseBucket

-----------------------------------------------------------------------------
(* A key that is met: the element of b moves to bucket to, with value v.    *)

Replaced(b, v) ==
  /\ TableOK'
  /\ TableElements' = (TableElements \ {<<pairs[b].first, pairs[b].second>>})
                        \cup {<<pairs[b].first, v>>}

LEMMA ReplaceOK ==
  ASSUME TableOK, num_buckets' = num_buckets, UNCHANGED <<bitmask, num_filled, last>>,
         NEW b \in Filled, NEW to \in Filled, Home[to] = Home[b], NEW v \in Value,
         pairs' = [pairs EXCEPT ![b] = Pair(pairs[to].first, pairs[to].second, Link[b]),
                                ![to] = Pair(pairs[b].first, v, Link[to])]
  PROVE  Replaced(b, v)
<1> DEFINE e == Pair(pairs[to].first, pairs[to].second, Link[b])
           f == Pair(pairs[b].first, v, Link[to])
<1>0. /\ b \in Buckets /\ to \in Buckets /\ \A c \in Buckets : c \in Nat
      /\ Buckets' = Buckets /\ QMask' = QMask /\ Filled' = Filled
  BY FilledType DEF TableOK, Buckets, QMask, Filled
<1>1. e \in Entry /\ f \in Entry /\ e # NoPair /\ f # NoPair
  BY <1>0, FilledType, NoPairAssumption DEF Pair, Entry
<1>2. /\ pairs' \in [Buckets -> Entry \cup {NoPair}]
      /\ pairs'[to] = f /\ (b # to => pairs'[b] = e)
      /\ \A c \in Buckets \ {b, to} : pairs'[c] = pairs[c]
  <2>1. pairs' = [pairs EXCEPT ![b] = e, ![to] = f]
    OBVIOUS
  <2> HIDE DEF e, f
  <2> QED BY <2>1, <1>0, <1>1 DEF TableOK
<1>3. CountsAgree'
  <2>1. \A c \in Buckets : c \in bitmask' <=> pairs'[c] = NoPair
    <3> HIDE DEF e, f
    <3> QED BY <1>0, <1>1, <1>2 DEF TableOK, CountsAgree, Filled
  <2> QED BY <2>1, <1>0 DEF TableOK, CountsAgree
<1>4. \A c \in Filled \ {b, to} : pairs'[c] = pairs[c]
  BY <1>2, FilledType
<1>5. /\ pairs'[to].first = pairs[b].first /\ pairs'[to].second = v
      /\ pairs'[to].bucket = Link[to]
      /\ b # to => /\ pairs'[b].first = pairs[to].first
                   /\ pairs'[b].second = pairs[to].second
                   /\ pairs'[b].bucket = Link[b]
  BY <1>2 DEF Pair
<1>6. ChainsSound'
  <2>1. \A c \in Filled : pairs'[c].bucket = pairs[c].bucket
    BY <1>4, <1>5, FilledType
  <2>2. Link' = Link
    BY <2>1, <1>0 DEF Link
  <2>3. \A c \in Filled : Main(pairs[c].first)' = Main(pairs[c].first)
    <3>1. \A c \in Filled \ {b, to} : Main(pairs[c].first)' = Main(pairs[c].first)
      BY <1>4 DEF Main
    <3>2. Main(pairs[to].first) = Main(pairs[b].first)
      BY FilledType
    <3>3. /\ Main(pairs[to].first)' = Main(pairs[b].first)
          /\ b # to => Main(pairs[b].first)' = Main(pairs[to].first)
      BY <1>5 DEF Main
    <3> QED BY <3>1, <3>2, <3>3
  <2>4. Home' = Home
    BY <2>3, <1>0 DEF Home
  <2> QED BY <2>2, <2>4, <1>0 DEF TableOK, ChainsSound
<1>7. \A c, d \in Filled' : pairs'[c].first = pairs'[d].first => c = d
  BY <1>0, <1>4, <1>5 DEF TableOK
<1>8. TableOK'
  <2>1. bitmask' \subseteq Buckets' /\ pairs' \in [Buckets' -> Entry \cup {NoPair}]
    BY <1>0, <1>2 DEF TableOK
  <2>2. last' \in 0..QMask' /\ num_filled' \in Nat
    BY <1>0 DEF TableOK
  <2> QED BY <2>1, <2>2, <1>3, <1>6, <1>7 DEF TableOK
<1>9. TableElements' = (TableElements \ {<<pairs[b].first, pairs[b].second>>})
                         \cup {<<pairs[b].first, v>>}
  <2> DEFINE elem(c) == <<pairs[c].first, pairs[c].second>>
             from(c) == IF c = b THEN to ELSE c
  <2>1. \A c \in Filled \ {to} :
          from(c) \in Filled \ {b} /\ <<pairs'[c].first, pairs'[c].second>> = elem(from(c))
    BY <1>4, <1>5
  <2>2. \A d \in Filled \ {b} : \E c \in Filled \ {to} : from(c) = d
    OBVIOUS
  <2>3. \A d \in Filled \ {b} : elem(d) # elem(b)
    BY DEF TableOK
  <2>4. <<pairs'[to].first, pairs'[to].second>> = <<pairs[b].first, v>>
    BY <1>5
  <2>5. TableElements' = { <<pairs'[c].first, pairs'[c].second>> : c \in Filled }
    BY <1>0 DEF TableElements
  <2>6. TableElements = { elem(c) : c \in Filled }
    BY DEF TableElements
  <2> HIDE DEF from, elem
  <2>7. TableElements' \subseteq (TableElements \ {elem(b)}) \cup {<<pairs[b].first, v>>}
    BY <2>1, <2>3, <2>4, <2>5, <2>6
  <2>8. (TableElements \ {elem(b)}) \subseteq TableElements'
    BY <2>1, <2>2, <2>5, <2>6
  <2>9. <<pairs[b].first, v>> \in TableElements'
    BY <2>4, <2>5
  <2>10. TableElements' = (TableElements \ {elem(b)}) \cup {<<pairs[b].first, v>>}
    BY <2>7, <2>8, <2>9
  <2> QED BY <2>10 DEF elem
<1> QED BY <1>8, <1>9 DEF Replaced

-----------------------------------------------------------------------------
(* The invariant.                                                          *)

\* The old array is finite: its indexes were buckets of a table.
OldBounded == \E n \in Nat : DOMAIN old \subseteq 0..n

\* A call is over exactly when it has nothing left to insert.
TodoMatches ==
  /\ pc = "ready" => todo = <<>>
  /\ pc = "insert" => todo # <<>>

\* A key that insert_unique is given is not stored when its turn comes.
UniqueIsNew ==
  \A i \in 1..Len(todo) : todo[i].op = "unique" =>
    Len(todo) = 1 /\ \A e \in Elements : e[1] # todo[i].key

\* The growth a call decided on suffices for all that it has still to insert.
Room ==
  EMH_HIGH_LOAD \/
    /\ pc = "rehash" => old_filled + Len(todo) =< num_buckets
    /\ pc = "insert" => num_filled + Len(todo) =< num_buckets

Inv ==
  /\ TypeOK /\ CountsAgree /\ ChainsSound /\ KeysUnique /\ RehashLosesNothing
  /\ OldBounded /\ TodoMatches /\ UniqueIsNew /\ Room

LEMMA InvTable == Inv => TableOK
<1> SUFFICES ASSUME Inv PROVE TableOK
  OBVIOUS
<1>1. num_buckets \in Nat \ {0}
  BY BucketAssumption DEF Inv, TypeOK
<1> QED BY <1>1 DEF Inv, TypeOK, KeysUnique, TableOK

\* A table whose buckets are all empty.
EmptyTable ==
  /\ num_buckets \in BucketCounts
  /\ bitmask = Buckets
  /\ pairs = [b \in Buckets |-> NoPair]
  /\ num_filled = 0
  /\ last \in 0..QMask

LEMMA EmptyTableOK == EmptyTable => TableOK /\ TableElements = {}
<1> SUFFICES ASSUME EmptyTable PROVE TableOK /\ TableElements = {}
  OBVIOUS
<1>1. Filled = {}
  BY DEF EmptyTable, Filled
<1>2. num_buckets \in Nat \ {0}
  BY BucketAssumption DEF EmptyTable
<1>3. CountsAgree
  BY <1>1, FS_EmptySet DEF EmptyTable, CountsAgree
<1>4. ChainsSound
  BY <1>1 DEF ChainsSound, WellChained, LinksStayInChain, HeadsAtHome, AllReachable,
              NoSharedTails, TailsExist
<1> QED BY <1>1, <1>2, <1>3, <1>4 DEF EmptyTable, TableOK, TableElements

LEMMA QMaskType == num_buckets \in BucketCounts => QMask \in Nat
<1> SUFFICES ASSUME num_buckets \in BucketCounts PROVE QMask \in Nat
  OBVIOUS
<1>1. num_buckets - 1 \in Nat /\ num_buckets - 1 =< num_buckets - 1
  BY BucketAssumption
<1> QED BY <1>1, WordAssumption, DivMonotone DEF QMask

LEMMA FilledAtMost ==
  ASSUME TableOK
  PROVE  /\ num_filled =< num_buckets
         /\ num_filled < num_buckets => bitmask # {}
<1>1. IsFiniteSet(Buckets) /\ Cardinality(Buckets) = num_buckets
  BY FS_Interval DEF TableOK, Buckets
<1>2. Cardinality(Filled) =< num_buckets
  BY <1>1, FilledType, FS_Subset
<1>3. bitmask = {} => Filled = Buckets
  BY DEF Filled
<1> QED BY <1>1, <1>2, <1>3 DEF TableOK, CountsAgree

\* Two elements with one key are one element, and each has a key and a value.
LEMMA ElementsAreAMap ==
  Inv => /\ Elements \subseteq Key \X Value
         /\ \A e, f \in Elements : e[1] = f[1] => e = f
<1> SUFFICES ASSUME Inv PROVE /\ Elements \subseteq Key \X Value
                              /\ \A e, f \in Elements : e[1] = f[1] => e = f
  OBVIOUS
<1>1. \A b \in Filled : pairs[b] \in Entry
  BY InvTable, FilledType
<1>2. \A b \in DOMAIN old : old[b] \in Entry
  BY DEF Inv, TypeOK
<1>3. TableElements \subseteq Key \X Value
  BY <1>1 DEF TableElements, Entry
<1>4. OldElements \subseteq Key \X Value
  BY <1>2 DEF OldElements, Entry
<1>5. \A e, f \in TableElements : e[1] = f[1] => e = f
  BY DEF Inv, KeysUnique, TableElements
<1>6. \A e, f \in OldElements : e[1] = f[1] => e = f
  BY DEF Inv, KeysUnique, OldElements
<1>7. \A e \in TableElements, f \in OldElements : e[1] # f[1]
  BY DEF Inv, KeysUnique, TableElements, OldElements
<1> QED BY <1>3, <1>4, <1>5, <1>6, <1>7 DEF Elements

\* Outside a rehash the table is all there is.
LEMMA NothingOld ==
  Inv /\ pc # "rehash" => DOMAIN old = {} /\ Elements = TableElements
BY DEF Inv, RehashLosesNothing, OldElements, Elements

-----------------------------------------------------------------------------
(* A step outside a rehash that leaves the old array and the size alone.    *)

LEMMA SettledStep ==
  ASSUME Inv, pc # "rehash", TableOK',
         UNCHANGED <<num_buckets, old, old_filled>>,
         mlf' \in Nat, mlf' >= FixedOne, ret' \in BOOLEAN,
         todo' \in Seq(Request), pc' \in {"ready", "insert"},
         TodoMatches', UniqueIsNew',
         EMH_HIGH_LOAD \/ (pc' = "insert" => num_filled' + Len(todo') =< num_buckets)
  PROVE  Inv'
<1>1. DOMAIN old = {} /\ DOMAIN old' = {}
  BY DEF Inv, RehashLosesNothing
<1>2. TypeOK'
  <2>1. old' \in [DOMAIN old' -> Entry] /\ DOMAIN old' \subseteq Nat
    BY DEF Inv, TypeOK
  <2>2. num_buckets' \in BucketCounts /\ old_filled' \in Nat
    BY DEF Inv, TypeOK
  <2> QED BY <2>1, <2>2 DEF TypeOK, TableOK
<1>3. KeysUnique'
  BY <1>1 DEF TableOK, KeysUnique
<1>4. RehashLosesNothing' /\ OldBounded'
  BY <1>1 DEF Inv, RehashLosesNothing, OldBounded
<1>5. Room'
  BY DEF Room
<1> QED BY <1>2, <1>3, <1>4, <1>5 DEF Inv, TableOK

LEMMA StartRehashOK ==
  ASSUME Inv, pc = "ready", NEW n \in Nat, NEW reqs \in Seq(Request),
         StartRehash(n), todo' = reqs, ret' = ret,
         num_filled + Len(reqs) =< n,
         \A i \in 1..Len(reqs) : reqs[i].op = "unique" =>
            Len(reqs) = 1 /\ \A e \in Elements : e[1] # reqs[i].key
  PROVE  Inv' /\ Elements' = Elements
<1>0. TableOK /\ DOMAIN old = {} /\ Elements = TableElements
  BY InvTable, NothingOld
<1>1. num_buckets' \in BucketCounts /\ num_buckets' >= n
  <2> DEFINE S == { s \in BucketCounts : s >= n }
  <2>1. S \in SUBSET Nat /\ S # {}
    BY BucketAssumption DEF StartRehash, Allocatable
  <2>2. Lowest(S) \in S
    <3> HIDE DEF S
    <3> QED BY <2>1, LowestIsIn
  <2> QED BY <2>2 DEF StartRehash, BucketsFor
<1>2. EmptyTable'
  <2>1. (QMask \in Nat)'
    <3>1. (num_buckets \in BucketCounts)'
      BY <1>1
    <3> QED BY <3>1, QMaskType, PTL
  <2> QED BY <2>1, <1>1 DEF StartRehash, EmptyTable, Buckets
<1>3. (TableOK /\ TableElements = {})'
  BY <1>2, EmptyTableOK, PTL
<1>4. Filled' = {}
  BY <1>2 DEF EmptyTable, Filled
<1>5. old' = [b \in Filled |-> pairs[b]] /\ old_filled' = num_filled /\ num_filled' = 0
      /\ pc' = "rehash" /\ mlf' = mlf
  BY DEF StartRehash
<1>6. /\ DOMAIN old' = Filled /\ \A b \in Filled : old'[b] = pairs[b]
      /\ Filled \subseteq 0..num_buckets - 1 /\ num_buckets - 1 \in Nat
      /\ num_filled = Cardinality(Filled)
  BY <1>0, <1>5, FilledType DEF TableOK, Buckets, CountsAgree
<1>7. TypeOK'
  <2>1. old' \in [DOMAIN old' -> Entry] /\ DOMAIN old' \subseteq Nat
    BY <1>0, <1>5, <1>6, FilledType
  <2>2. old_filled' \in Nat /\ mlf' \in Nat /\ mlf' >= FixedOne /\ ret' \in BOOLEAN
    BY <1>5 DEF Inv, TypeOK
  <2> QED BY <2>1, <2>2, <1>1, <1>3, <1>5 DEF TypeOK, TableOK
<1>8. KeysUnique'
  BY <1>0, <1>4, <1>6 DEF KeysUnique, TableOK
<1>9. RehashLosesNothing' /\ OldBounded'
  <2>1. num_filled \in Nat
    BY <1>0 DEF TableOK
  <2>2. RehashLosesNothing'
    BY <2>1, <1>5, <1>6 DEF RehashLosesNothing
  <2>3. \E c \in Nat : DOMAIN old' \subseteq 0..c
    BY <1>6
  <2> QED BY <2>2, <2>3 DEF OldBounded
<1>10. Elements' = Elements
  <2>1. OldElements' = TableElements
    <3>1. OldElements' = { <<old'[b].first, old'[b].second>> : b \in Filled }
      BY <1>6 DEF OldElements
    <3>2. \A b \in Filled : <<old'[b].first, old'[b].second>> = <<pairs[b].first, pairs[b].second>>
      BY <1>6
    <3> QED BY <3>1, <3>2 DEF TableElements
  <2> QED BY <2>1, <1>0, <1>3 DEF Elements
<1>11. UniqueIsNew' /\ TodoMatches'
  BY <1>5, <1>10 DEF UniqueIsNew, TodoMatches
<1>12. Room'
  <2>1. Len(reqs) \in Nat /\ num_filled \in Nat /\ num_buckets' \in Nat
    BY <1>1, BucketAssumption DEF Inv, TypeOK
  <2> QED BY <2>1, <1>1, <1>5 DEF Room
<1> QED BY <1>3, <1>7, <1>8, <1>9, <1>10, <1>11, <1>12 DEF Inv, TableOK

LEMMA CallOK ==
  ASSUME Inv, NEW n \in Nat, NEW reqs \in Seq(Request), Call(n, reqs),
         reqs = <<>> \/ num_filled + Len(reqs) =< n + 1,
         \A i \in 1..Len(reqs) : reqs[i].op = "unique" =>
            Len(reqs) = 1 /\ \A e \in Elements : e[1] # reqs[i].key
  PROVE  Inv' /\ Elements' = Elements /\ ret' = ret
<1>0. pc = "ready" /\ todo' = reqs /\ ret' = ret /\ TableOK
  BY InvTable DEF Call
<1> DEFINE m == RequiredBuckets(n)
<1>1. m \in Nat /\ m >= n
  <2>1. mlf \in Nat /\ mlf >= FixedOne
    BY DEF Inv, TypeOK
  <2> QED BY <2>1, LoadAssumption, RequiredSuffices DEF RequiredBuckets
<1>2. num_filled =< num_buckets /\ num_filled \in Nat /\ num_buckets \in Nat /\ Len(reqs) \in Nat
  BY <1>0, FilledAtMost DEF TableOK
<1>3. CASE NeedsRehash(n)
  <2>1. StartRehash(m + 2)
    BY <1>3 DEF Call
  <2>2. m >= num_buckets
    BY <1>3 DEF NeedsRehash
  <2> HIDE DEF m
  <2>3. num_filled + Len(reqs) =< m + 2
    <3>1. CASE reqs = <<>>
      BY <3>1, <2>2, <1>1, <1>2
    <3>2. CASE num_filled + Len(reqs) =< n + 1
      BY <3>2, <1>1, <1>2
    <3> QED BY <3>1, <3>2
  <2> QED BY <2>1, <2>3, <1>0, <1>1, StartRehashOK
<1>4. CASE ~ NeedsRehash(n)
  <2>1. pc' = Resume(reqs) /\ UNCHANGED <<table, moving>>
    BY <1>4 DEF Call
  <2>2. UNCHANGED <<num_buckets, mlf, bitmask, pairs, num_filled, last, old, old_filled>>
    BY <2>1 DEF table, probe, moving
  <2>3. EMH_HIGH_LOAD \/ m < num_buckets
    BY <1>1, <1>2, <1>4 DEF NeedsRehash
  <2>4. Elements' = Elements
    BY <2>2 DEF Elements, TableElements, OldElements, Filled, Buckets
  <2>5. TableOK'
    <3>1. Filled' = Filled /\ Buckets' = Buckets /\ QMask' = QMask
      BY <2>2 DEF Filled, Buckets, QMask
    <3>2. Link' = Link /\ Home' = Home
      BY <2>2, <3>1 DEF Link, Home, Main
    <3>3. CountsAgree' /\ ChainsSound'
      BY <2>2, <3>1, <3>2, <1>0 DEF TableOK, CountsAgree, ChainsSound
    <3> QED BY <2>2, <3>1, <3>3, <1>0 DEF TableOK
  <2>6. pc' \in {"ready", "insert"} /\ TodoMatches'
    BY <2>1, <1>0 DEF Resume, TodoMatches
  <2>7. UniqueIsNew'
    BY <2>4, <1>0 DEF UniqueIsNew
  <2>8. EMH_HIGH_LOAD \/ (pc' = "insert" => num_filled' + Len(todo') =< num_buckets)
    <3>1. pc' = "insert" => reqs # <<>>
      BY <2>1 DEF Resume
    <3> HIDE DEF m
    <3> QED BY <3>1, <2>2, <2>3, <2>6, <1>0, <1>1, <1>2
  <2>9. mlf' \in Nat /\ mlf' >= FixedOne /\ ret' \in BOOLEAN
    BY <1>0, <2>2 DEF Inv, TypeOK
  <2> QED BY <2>2, <2>4, <2>5, <2>6, <2>7, <2>8, <2>9, <1>0, SettledStep
<1> QED BY <1>3, <1>4

-----------------------------------------------------------------------------
(* The steps of a running call.                                            *)

LEMMA IndexesAreFinite ==
  ASSUME NEW D, NEW n \in Nat, D \subseteq 0..n
  PROVE  IsFiniteSet(D) /\ Cardinality(D) \in Nat
<1>1. IsFiniteSet(0..n)
  BY FS_Interval
<1>2. IsFiniteSet(D)
  BY <1>1, FS_Subset
<1> QED BY <1>2, FS_CardinalityType

\* A finite set of indexes has a highest one: where the rehash loop goes on.
LEMMA HighestIsIn ==
  ASSUME NEW D, NEW n \in Nat, D \subseteq 0..n, D # {}
  PROVE  \E b \in D : \A c \in D : c =< b
<1> DEFINE S == { n - d : d \in D }
<1>1. S \in SUBSET Nat /\ S # {}
  <2>1. \A d \in D : n - d \in Nat
    OBVIOUS
  <2> QED BY <2>1
<1>2. Lowest(S) \in S /\ \A y \in S : Lowest(S) =< y
  <2> HIDE DEF S
  <2> QED BY <1>1, LowestIsIn
<1>3. PICK b \in D : Lowest(S) = n - b
  BY <1>2
<1>4. \A c \in D : n - b =< n - c
  BY <1>2, <1>3
<1>5. \A c \in D : c \in Int
  OBVIOUS
<1>6. \A c \in D : c =< b
  BY <1>4, <1>5
<1> QED BY <1>6

LEMMA RehashStepOK ==
  ASSUME Inv, RehashStep
  PROVE  Inv' /\ Elements' = Elements /\ ret' = ret
<1>0. /\ TableOK /\ pc = "rehash" /\ pc' = "rehash" /\ num_filled < old_filled
      /\ UNCHANGED <<num_buckets, mlf, old_filled, todo, ret>>
      /\ num_filled + Cardinality(DOMAIN old) = old_filled
  BY InvTable DEF RehashStep, Inv, RehashLosesNothing
<1>1. PICK n \in Nat : DOMAIN old \subseteq 0..n
  BY DEF Inv, OldBounded
<1>2. IsFiniteSet(DOMAIN old) /\ Cardinality(DOMAIN old) \in Nat
  BY <1>1, IndexesAreFinite
<1>3. DOMAIN old # {}
  BY <1>0, <1>2, FS_EmptySet DEF TableOK
<1>4. \E b \in DOMAIN old : \A c \in DOMAIN old : c =< b
  BY <1>1, <1>3, HighestIsIn
<1>5. PICK src \in DOMAIN old :
        /\ Place(old[src].first, old[src].second)
        /\ old' = [b \in DOMAIN old \ {src} |-> old[b]]
  BY <1>4 DEF RehashStep
<1>6. PICK k \in Key, v \in Value : k = old[src].first /\ v = old[src].second
  <2>1. old[src] \in Entry
    BY DEF Inv, TypeOK
  <2> QED BY <2>1 DEF Entry
<1>7. Placed(k, v)
  <2>1. \A c \in Filled : pairs[c].first # k
    BY <1>6 DEF Inv, KeysUnique
  <2>2. Place(k, v)
    BY <1>5, <1>6
  <2> QED BY <2>1, <2>2, <1>0, PlaceOK
<1>8. /\ TableOK' /\ num_filled' = num_filled + 1
      /\ TableElements' = TableElements \cup {<<k, v>>}
  BY <1>7 DEF Placed
<1>9. /\ DOMAIN old' = DOMAIN old \ {src} /\ \A b \in DOMAIN old' : old'[b] = old[b]
  BY <1>5
<1>10. TypeOK'
  <2>1. old' \in [DOMAIN old' -> Entry] /\ DOMAIN old' \subseteq Nat
    BY <1>5, <1>9 DEF Inv, TypeOK
  <2>2. num_buckets' \in BucketCounts /\ old_filled' \in Nat /\ mlf' \in Nat /\ mlf' >= FixedOne
        /\ todo' \in Seq(Request) /\ ret' \in BOOLEAN
    BY <1>0 DEF Inv, TypeOK
  <2> QED BY <2>1, <2>2, <1>0, <1>8 DEF TypeOK, TableOK
<1>11. KeysUnique'
  <2>1. \A a \in Filled' : <<pairs'[a].first, pairs'[a].second>> \in TableElements'
    BY DEF TableElements
  <2>2. \A a \in Filled' : pairs'[a].first = k \/ \E c \in Filled : pairs'[a].first = pairs[c].first
    BY <2>1, <1>8 DEF TableElements
  <2>3. \A b \in DOMAIN old' : old'[b].first # k
    BY <1>6, <1>9 DEF Inv, KeysUnique
  <2>4. \A c \in Filled, b \in DOMAIN old' : pairs[c].first # old'[b].first
    BY <1>9 DEF Inv, KeysUnique
  <2>5. \A a, b \in DOMAIN old' : old'[a].first = old'[b].first => a = b
    BY <1>9 DEF Inv, KeysUnique
  <2> QED BY <2>2, <2>3, <2>4, <2>5, <1>8 DEF KeysUnique, TableOK
<1>12. RehashLosesNothing' /\ OldBounded'
  <2>1. Cardinality(DOMAIN old') = Cardinality(DOMAIN old) - 1
    BY <1>2, <1>9, FS_RemoveElement
  <2>2. num_filled' + Cardinality(DOMAIN old') = old_filled'
    BY <2>1, <1>0, <1>2, <1>8 DEF TableOK
  <2>3. DOMAIN old' \subseteq 0..n
    BY <1>1, <1>9
  <2> QED BY <2>2, <2>3, <1>0 DEF RehashLosesNothing, OldBounded
<1>13. Elements' = Elements
  <2>1. OldElements = OldElements' \cup {<<k, v>>}
    BY <1>6, <1>9 DEF OldElements
  <2> QED BY <2>1, <1>8 DEF Elements
<1>14. TodoMatches' /\ UniqueIsNew' /\ Room'
  <2>1. TodoMatches' /\ UniqueIsNew'
    BY <1>0, <1>13 DEF TodoMatches, UniqueIsNew, Inv
  <2>2. Room'
    BY <1>0 DEF Room, Inv
  <2> QED BY <2>1, <2>2
<1> QED BY <1>0, <1>8, <1>10, <1>11, <1>12, <1>13, <1>14 DEF Inv, TableOK

LEMMA RehashDoneOK ==
  ASSUME Inv, RehashDone
  PROVE  Inv' /\ Elements' = Elements /\ ret' = ret
<1>0. /\ TableOK /\ pc = "rehash" /\ num_filled >= old_filled
      /\ old' = [b \in {} |-> NoPair] /\ old_filled' = 0
      /\ pc' = Resume(todo) /\ UNCHANGED <<table, todo, ret>>
      /\ num_filled + Cardinality(DOMAIN old) = old_filled
  BY InvTable DEF RehashDone, Inv, RehashLosesNothing
<1>00. UNCHANGED <<num_buckets, mlf, bitmask, pairs, num_filled, last, todo, ret>>
  BY <1>0 DEF table, probe
<1>1. IsFiniteSet(DOMAIN old) /\ Cardinality(DOMAIN old) \in Nat
  BY IndexesAreFinite DEF Inv, OldBounded
<1>2. DOMAIN old = {} /\ num_filled = old_filled
  <2>1. num_filled \in Nat /\ old_filled \in Nat
    BY DEF Inv, TypeOK
  <2>2. Cardinality(DOMAIN old) = 0
    BY <2>1, <1>0, <1>1
  <2> QED BY <2>1, <2>2, <1>0, <1>1, FS_EmptySet
<1>3. DOMAIN old' = {}
  BY <1>0
<1>4. TableOK' /\ Elements' = Elements
  <2>1. Filled' = Filled /\ Buckets' = Buckets /\ QMask' = QMask
    BY <1>00 DEF Filled, Buckets, QMask
  <2>2. Link' = Link /\ Home' = Home
    BY <2>1, <1>00 DEF Link, Home, Main
  <2>3. CountsAgree' /\ ChainsSound'
    BY <2>1, <2>2, <1>0, <1>00 DEF TableOK, CountsAgree, ChainsSound
  <2>4. TableOK'
    BY <2>1, <2>3, <1>0, <1>00 DEF TableOK
  <2>5. Elements' = Elements
    BY <2>1, <1>00, <1>2, <1>3 DEF Elements, TableElements, OldElements
  <2> QED BY <2>4, <2>5
<1>5. pc' \in {"ready", "insert"} /\ TodoMatches'
  BY <1>0 DEF Resume, TodoMatches
<1>6. TypeOK'
  <2>1. old' \in [DOMAIN old' -> Entry] /\ DOMAIN old' \subseteq Nat
    BY <1>0, <1>3
  <2>2. num_buckets' \in BucketCounts /\ old_filled' \in Nat /\ mlf' \in Nat /\ mlf' >= FixedOne
        /\ todo' \in Seq(Request) /\ ret' \in BOOLEAN
    BY <1>0, <1>00 DEF Inv, TypeOK
  <2> QED BY <2>1, <2>2, <1>4, <1>5 DEF TypeOK, TableOK
<1>7. KeysUnique' /\ RehashLosesNothing' /\ OldBounded'
  BY <1>3, <1>4, <1>5 DEF KeysUnique, RehashLosesNothing, OldBounded, TableOK
<1>8. UniqueIsNew' /\ Room'
  <2>1. UniqueIsNew'
    BY <1>00, <1>4 DEF UniqueIsNew, Inv
  <2>2. Room'
    BY <1>0, <1>00, <1>2, <1>5 DEF Room, Inv
  <2> QED BY <2>1, <2>2
<1> QED BY <1>00, <1>4, <1>5, <1>6, <1>7, <1>8 DEF Inv, TableOK

\* What every insertion starts from: the request at hand and the table.
LEMMA InsertContext ==
  ASSUME Inv, pc = "insert"
  PROVE  /\ TableOK /\ DOMAIN old = {} /\ Elements = TableElements
         /\ todo # <<>> /\ Head(todo) \in Request /\ Head(todo) = todo[1]
         /\ Head(todo).key \in Key /\ Head(todo).val \in Value
         /\ Tail(todo) \in Seq(Request) /\ Len(todo) \in Nat \ {0}
         /\ Len(Tail(todo)) = Len(todo) - 1
         /\ \A i \in 1..Len(Tail(todo)) : Tail(todo)[i] = todo[i + 1]
<1>1. TableOK /\ DOMAIN old = {} /\ Elements = TableElements
  BY InvTable, NothingOld
<1>2. todo # <<>> /\ todo \in Seq(Request)
  BY DEF Inv, TodoMatches, TypeOK
<1>3. /\ Head(todo) \in Request /\ Head(todo) = todo[1] /\ Tail(todo) \in Seq(Request)
      /\ Len(todo) \in Nat \ {0} /\ Len(Tail(todo)) = Len(todo) - 1
      /\ \A i \in 1..Len(Tail(todo)) : Tail(todo)[i] = todo[i + 1]
  BY <1>2
<1>4. Head(todo).key \in Key /\ Head(todo).val \in Value
  BY <1>3 DEF Request
<1> QED BY <1>1, <1>2, <1>3, <1>4

\* An insertion is done: what is left of the call keeps the invariant.
LEMMA InsertionDone ==
  ASSUME Inv, pc = "insert", TableOK',
         UNCHANGED <<num_buckets, mlf, old, old_filled>>,
         todo' = Tail(todo), pc' = Resume(Tail(todo)), ret' \in BOOLEAN,
         num_filled' =< num_filled + 1
  PROVE  Inv'
<1>0. /\ todo' \in Seq(Request) /\ Len(todo) \in Nat /\ Len(todo') = Len(todo) - 1
      /\ \A i \in 1..Len(todo') : todo'[i] = todo[i + 1]
  BY InsertContext
<1>1. pc' \in {"ready", "insert"} /\ TodoMatches'
  BY DEF Resume, TodoMatches
<1>2. UniqueIsNew'
  <2>1. \A i \in 1..Len(todo') : todo'[i].op # "unique"
    <3> SUFFICES ASSUME NEW i \in 1..Len(todo'), todo'[i].op = "unique" PROVE FALSE
      OBVIOUS
    <3>1. i + 1 \in 1..Len(todo) /\ todo[i + 1].op = "unique" /\ Len(todo) # 1
      BY <1>0
    <3> QED BY <3>1 DEF Inv, UniqueIsNew
  <2> QED BY <2>1 DEF UniqueIsNew
<1>3. EMH_HIGH_LOAD \/ (pc' = "insert" => num_filled' + Len(todo') =< num_buckets)
  <2>1. num_filled \in Nat /\ num_filled' \in Nat /\ num_buckets \in Nat
    BY InvTable DEF TableOK
  <2>2. EMH_HIGH_LOAD \/ num_filled + Len(todo) =< num_buckets
    BY DEF Inv, Room
  <2> QED BY <2>1, <2>2, <1>0, <1>1
<1>4. mlf' \in Nat /\ mlf' >= FixedOne
  BY DEF Inv, TypeOK
<1> QED BY <1>0, <1>1, <1>2, <1>3, <1>4, SettledStep

\* The request at hand, and the step that leaves the rest of them.
Req == Head(todo)
RequestTaken == todo # <<>> /\ todo' = Tail(todo) /\ Req.key \in Key /\ Req.val \in Value

\* The map has u for k, and has v for it afterwards.
Overwritten(k, u, v) ==
  /\ <<k, u>> \in Elements
  /\ Elements' = (Elements \ {<<k, u>>}) \cup {<<k, v>>}

LEMMA InsertHitOK ==
  ASSUME Inv, InsertHit
  PROVE  /\ Inv' /\ ret' = FALSE
         /\ RequestTaken /\ \E u \in Value :
               Overwritten(Req.key, u, IF Req.op = "assign" THEN Req.val ELSE u)
<1>0. pc = "insert" /\ Meets(Head(todo).key) /\ ret' = FALSE /\ todo' = Tail(todo)
      /\ pc' = Resume(Tail(todo))
      /\ UNCHANGED <<bitmask, num_filled, last, num_buckets, mlf, old, old_filled>>
  BY DEF InsertHit, moving
<1>1. /\ TableOK /\ DOMAIN old = {} /\ Elements = TableElements
      /\ Head(todo).key \in Key /\ Head(todo).val \in Value
  BY <1>0, InsertContext
<1>k. PICK k \in Key : k = Head(todo).key
  BY <1>1
<1>b. PICK b \in Filled : b = FindFilledBucket(k) /\ pairs[b].first = k
  BY <1>0, <1>1, <1>k, SearchExact
<1>2. Home[b] = Main(k) /\ pairs[b] \in Entry /\ WellChained(Filled, Link, Home)
  BY <1>1, <1>b, FilledType DEF TableOK, ChainsSound
<1>t. PICK to \in Filled :
        /\ Home[to] = Home[b]
        /\ to = IF EMH_LRU_SET /\ b # Main(k) THEN FindPrevBucket(Main(k), b) ELSE b
  <2>1. CASE EMH_LRU_SET /\ b # Main(k)
    <3>1. \E x \in Reach(Filled, Link, Home[b]) : x # b /\ Link[x] = b
      BY <2>1, <1>2, PrevExists
    <3>2. FindPrevBucket(Main(k), b) \in Reach(Filled, Link, Home[b])
      BY <3>1, <1>2 DEF FindPrevBucket, Chain
    <3>3. Home[b] \in Filled /\ Home[Home[b]] = Home[b]
      BY <1>2 DEF WellChained, HeadsAtHome
    <3>4. \A x \in Reach(Filled, Link, Home[b]) : x \in Filled /\ Home[x] = Home[b]
      BY <3>3, <1>2, ReachStaysHome
    <3> QED BY <3>2, <3>4, <2>1
  <2>2. CASE ~ (EMH_LRU_SET /\ b # Main(k))
    BY <2>2
  <2> QED BY <2>1, <2>2
<1>v. PICK v \in Value : v = IF Head(todo).op = "assign" THEN Head(todo).val ELSE pairs[b].second
  BY <1>1, <1>2 DEF Entry
<1>3. pairs' = [pairs EXCEPT ![b] = Pair(pairs[to].first, pairs[to].second, Link[b]),
                             ![to] = Pair(pairs[b].first, v, Link[to])]
  BY <1>k, <1>b, <1>t, <1>v DEF InsertHit
<1>4. Replaced(b, v)
  BY <1>0, <1>1, <1>3, <1>t, ReplaceOK
<1>5. TableOK' /\ Overwritten(k, pairs[b].second, v) /\ pairs[b].second \in Value
  <2>1. <<k, pairs[b].second>> \in TableElements
    BY <1>b DEF TableElements
  <2>2. Elements' = TableElements'
    BY <1>0, <1>1 DEF Elements, OldElements
  <2> QED BY <2>1, <2>2, <1>1, <1>2, <1>4, <1>b DEF Replaced, Overwritten, Entry
<1>6. Inv'
  <2>1. num_filled \in Nat /\ num_filled' = num_filled
    BY <1>0, <1>1 DEF TableOK
  <2>2. num_filled' =< num_filled + 1
    BY <2>1
  <2>3. ret' \in BOOLEAN
    BY <1>0
  <2> QED BY <2>2, <2>3, <1>0, <1>5, InsertionDone
<1>7. RequestTaken
  BY <1>0, InsertContext DEF RequestTaken, Req
<1>8. Overwritten(Req.key, pairs[b].second,
                  IF Req.op = "assign" THEN Req.val ELSE pairs[b].second)
  BY <1>5, <1>v, <1>k DEF Req
<1> QED BY <1>0, <1>5, <1>6, <1>7, <1>8

\* The map has nothing for k, and has v for it afterwards.
Added(k, v) ==
  /\ \A e \in Elements : e[1] # k
  /\ Elements' = Elements \cup {<<k, v>>}

LEMMA InsertMissOK ==
  ASSUME Inv, InsertMiss
  PROVE  Inv' /\ ret' = TRUE /\ RequestTaken /\ Added(Req.key, Req.val)
<1>0. pc = "insert" /\ ret' = TRUE /\ todo' = Tail(todo) /\ pc' = Resume(Tail(todo))
      /\ Place(Head(todo).key, Head(todo).val)
      /\ (Head(todo).op = "unique" \/ ~ Meets(Head(todo).key))
      /\ UNCHANGED <<num_buckets, mlf, old, old_filled>>
  BY DEF InsertMiss, moving
<1>1. /\ TableOK /\ DOMAIN old = {} /\ Elements = TableElements
      /\ Head(todo).key \in Key /\ Head(todo).val \in Value
      /\ Head(todo) = todo[1] /\ Len(todo) \in Nat \ {0}
  BY <1>0, InsertContext
<1>2. PICK k \in Key, v \in Value : k = Head(todo).key /\ v = Head(todo).val
  BY <1>1
<1>3. \A c \in Filled : pairs[c].first # k
  <2>1. CASE Head(todo).op = "unique"
    <3>1. 1 \in 1..Len(todo) /\ todo[1].op = "unique"
      BY <2>1, <1>1
    <3>2. \A e \in TableElements : e[1] # k
      BY <3>1, <1>1, <1>2 DEF Inv, UniqueIsNew
    <3>3. \A c \in Filled : <<pairs[c].first, pairs[c].second>> \in TableElements
      BY DEF TableElements
    <3> QED BY <3>2, <3>3
  <2>2. CASE ~ Meets(k)
    BY <2>2, <1>1, SearchExact
  <2> QED BY <2>1, <2>2, <1>0, <1>2
<1>4. Placed(k, v)
  BY <1>0, <1>1, <1>2, <1>3, PlaceOK
<1>5. Added(k, v)
  <2>1. \A e \in TableElements : e[1] # k
    BY <1>3 DEF TableElements
  <2>2. Elements' = TableElements'
    BY <1>0, <1>1 DEF Elements, OldElements
  <2> QED BY <2>1, <2>2, <1>1, <1>4 DEF Added, Placed
<1>6. Inv'
  <2>1. TableOK' /\ ret' \in BOOLEAN /\ num_filled' =< num_filled + 1
    BY <1>0, <1>1, <1>4 DEF Placed, TableOK
  <2> QED BY <2>1, <1>0, InsertionDone
<1>7. RequestTaken /\ Added(Req.key, Req.val)
  BY <1>0, <1>2, <1>5, InsertContext DEF RequestTaken, Req
<1> QED BY <1>0, <1>6, <1>7

LEMMA TableKept ==
  ASSUME TableOK, UNCHANGED table
  PROVE  TableOK' /\ TableElements' = TableElements
<1>0. UNCHANGED <<num_buckets, bitmask, pairs, num_filled, last>>
  BY DEF table, probe
<1>1. Filled' = Filled /\ Buckets' = Buckets /\ QMask' = QMask
  BY <1>0 DEF Filled, Buckets, QMask
<1>2. Link' = Link /\ Home' = Home
  BY <1>0, <1>1 DEF Link, Home, Main
<1>3. CountsAgree' /\ ChainsSound'
  BY <1>0, <1>1, <1>2 DEF TableOK, CountsAgree, ChainsSound
<1>4. TableElements' = TableElements
  BY <1>0, <1>1 DEF TableElements
<1> QED BY <1>0, <1>1, <1>3, <1>4 DEF TableOK

-----------------------------------------------------------------------------
(* The calls that do not insert.                                           *)

\* A step that ends in "ready" where it began in it.
LEMMA ReadyStep ==
  ASSUME Inv, pc = "ready", pc' = "ready", TableOK',
         UNCHANGED <<num_buckets, mlf, old, old_filled, todo>>, ret' \in BOOLEAN
  PROVE  Inv' /\ Elements' = TableElements'
<1>1. todo = <<>> /\ TodoMatches'
  BY DEF Inv, TodoMatches
<1>2. UniqueIsNew'
  BY <1>1 DEF UniqueIsNew
<1>3. todo' \in Seq(Request) /\ mlf' \in Nat /\ mlf' >= FixedOne
  BY DEF Inv, TypeOK
<1>4. Elements' = TableElements'
  BY DEF Inv, RehashLosesNothing, Elements, OldElements
<1> QED BY <1>1, <1>2, <1>3, <1>4, SettledStep

\* The map has u for k, and nothing afterwards.
Dropped(k, u) ==
  /\ <<k, u>> \in Elements
  /\ Elements' = Elements \ {<<k, u>>}

LEMMA EraseOK ==
  ASSUME Inv, pc = "ready", ret' \in BOOLEAN, NEW b \in Filled, EraseBucket(b)
  PROVE  /\ Inv' /\ pairs[b].first \in Key /\ pairs[b].second \in Value
         /\ Dropped(pairs[b].first, pairs[b].second)
<1>0. /\ TableOK /\ Elements = TableElements /\ pc' = "ready"
      /\ UNCHANGED <<num_buckets, mlf, old, old_filled, todo>>
  BY InvTable, NothingOld DEF EraseBucket, moving
<1>1. Removed(b)
  BY <1>0, EraseBucketOK
<1>2. TableOK' /\ TableElements' = TableElements \ {<<pairs[b].first, pairs[b].second>>}
  BY <1>1 DEF Removed
<1>3. Inv' /\ Elements' = TableElements'
  BY <1>0, <1>2, ReadyStep
<1>4. <<pairs[b].first, pairs[b].second>> \in TableElements
  BY DEF TableElements
<1>5. pairs[b].first \in Key /\ pairs[b].second \in Value
  BY <1>0, FilledType DEF Entry
<1> QED BY <1>0, <1>2, <1>3, <1>4, <1>5 DEF Dropped

LEMMA EraseKeyOK ==
  ASSUME Inv, NEW k \in Key, EraseKey(k)
  PROVE  /\ Inv'
         /\ \/ Elements' = Elements /\ ret' = FALSE /\ \A e \in Elements : e[1] # k
            \/ \E u \in Value : Dropped(k, u) /\ ret' = TRUE
<1>0. /\ TableOK /\ Elements = TableElements /\ pc = "ready"
      /\ ret' = (FindFilledBucket(k) # num_buckets)
  BY InvTable, NothingOld DEF EraseKey
<1>1. CASE \A c \in Filled : pairs[c].first # k
  <2>1. FindFilledBucket(k) = num_buckets
    BY <1>0, <1>1, SearchExact
  <2>2. UNCHANGED <<table, moving, todo, pc>>
    BY <2>1 DEF EraseKey
  <2>3. TableOK' /\ TableElements' = TableElements
    BY <1>0, <2>2, TableKept
  <2>4. Inv' /\ Elements' = TableElements'
    <3>1. UNCHANGED <<num_buckets, mlf, old, old_filled, todo>>
      BY <2>2 DEF table, moving
    <3>2. ret' \in BOOLEAN
      BY <1>0
    <3> QED BY <1>0, <2>2, <2>3, <3>1, <3>2, ReadyStep
  <2>5. \A e \in Elements : e[1] # k
    BY <1>0, <1>1 DEF TableElements
  <2> QED BY <1>0, <2>1, <2>3, <2>4, <2>5
<1>2. CASE ~ \A c \in Filled : pairs[c].first # k
  <2>1. PICK b \in Filled : pairs[b].first = k
    BY <1>2
  <2>2. FindFilledBucket(k) = b /\ b # num_buckets
    BY <1>0, <2>1, SearchExact DEF TableOK, Filled, Buckets
  <2>3. EraseBucket(b) /\ ret' = TRUE
    BY <1>0, <2>2 DEF EraseKey
  <2>4. Inv' /\ pairs[b].second \in Value /\ Dropped(k, pairs[b].second)
    BY <1>0, <2>1, <2>3, EraseOK
  <2> QED BY <2>3, <2>4
<1> QED BY <1>1, <1>2

LEMMA ClearOK ==
  ASSUME Inv, Clear
  PROVE  Inv' /\ Elements' = {} /\ ret' = ret
<1>0. pc = "ready" /\ pc' = "ready" /\ ret' = ret
      /\ UNCHANGED <<last, num_buckets, mlf, old, old_filled, todo>>
      /\ bitmask' = Buckets /\ pairs' = [b \in Buckets |-> NoPair] /\ num_filled' = 0
  BY DEF Clear, moving
<1>1. EmptyTable'
  <2>1. Buckets' = Buckets /\ QMask' = QMask
    BY <1>0 DEF Buckets, QMask
  <2> QED BY <2>1, <1>0 DEF EmptyTable, Inv, TypeOK
<1>2. (TableOK /\ TableElements = {})'
  BY <1>1, EmptyTableOK, PTL
<1>3. ret' \in BOOLEAN
  BY <1>0 DEF Inv, TypeOK
<1> QED BY <1>0, <1>2, <1>3, ReadyStep

LEMMA MaxLoadFactorOK ==
  ASSUME Inv, NEW lf \in LoadFactors, MaxLoadFactor(lf)
  PROVE  Inv' /\ Elements' = Elements /\ ret' = ret
<1>0. /\ pc = "ready" /\ pc' = "ready" /\ ret' = ret /\ todo' = todo
      /\ UNCHANGED <<bitmask, pairs, num_filled, last, num_buckets, old, old_filled>>
      /\ mlf' = IF lf =< 999 /\ lf > 250 THEN (FixedOne * 1000) \div lf ELSE mlf
  BY DEF MaxLoadFactor, probe, moving
<1>1. mlf' \in Nat /\ mlf' >= FixedOne
  <2>1. CASE lf =< 999 /\ lf > 250
    <3>1. lf \in Nat \ {0} /\ 1000 >= lf
      BY <2>1, LoadAssumption
    <3>2. (FixedOne * 1000) \div lf \in Nat /\ (FixedOne * 1000) \div lf >= FixedOne
      BY <3>1, LoadAssumption, RequiredSuffices
    <3> QED BY <3>2, <2>1, <1>0
  <2>2. CASE ~ (lf =< 999 /\ lf > 250)
    BY <2>2, <1>0 DEF Inv, TypeOK
  <2> QED BY <2>1, <2>2
<1>2. TableOK /\ TableOK' /\ Elements' = Elements
  <2>1. Filled' = Filled /\ Buckets' = Buckets /\ QMask' = QMask
    BY <1>0 DEF Filled, Buckets, QMask
  <2>2. Link' = Link /\ Home' = Home
    BY <1>0, <2>1 DEF Link, Home, Main
  <2>3. CountsAgree' /\ ChainsSound'
    BY <1>0, <2>1, <2>2, InvTable DEF TableOK, CountsAgree, ChainsSound
  <2>4. Elements' = Elements
    BY <1>0, <2>1 DEF Elements, TableElements, OldElements
  <2> QED BY <1>0, <2>1, <2>3, <2>4, InvTable DEF TableOK
<1>3. todo = <<>> /\ TodoMatches'
  BY <1>0 DEF Inv, TodoMatches
<1>4. UniqueIsNew'
  BY <1>0, <1>3 DEF UniqueIsNew
<1>5. todo' \in Seq(Request) /\ ret' \in BOOLEAN
  BY <1>0 DEF Inv, TypeOK
<1> QED BY <1>0, <1>1, <1>2, <1>3, <1>4, <1>5, SettledStep

LEMMA RehashOK ==
  ASSUME Inv, NEW n \in Nat, Rehash(n)
  PROVE  Inv' /\ Elements' = Elements /\ ret' = ret
<1>0. pc = "ready" /\ todo' = todo /\ ret' = ret /\ TableOK /\ todo = <<>>
  BY InvTable DEF Rehash, Inv, TodoMatches
<1>1. CASE n < num_filled
  <2>1. UNCHANGED <<table, moving, pc>>
    BY <1>1 DEF Rehash
  <2>2. TableOK' /\ TableElements' = TableElements
    BY <1>0, <2>1, TableKept
  <2>3. UNCHANGED <<num_buckets, mlf, old, old_filled, todo>> /\ ret' \in BOOLEAN
    BY <1>0, <2>1 DEF table, moving, Inv, TypeOK
  <2>4. Inv' /\ Elements' = TableElements'
    BY <1>0, <2>1, <2>2, <2>3, ReadyStep
  <2> QED BY <1>0, <2>2, <2>4, NothingOld
<1>2. CASE ~ (n < num_filled)
  <2>1. StartRehash(n)
    BY <1>2 DEF Rehash
  <2>2. PICK reqs \in Seq(Request) : reqs = todo /\ Len(reqs) = 0
    BY <1>0 DEF Inv, TypeOK
  <2>3. num_filled + Len(reqs) =< n
    BY <1>0, <1>2, <2>2 DEF TableOK
  <2>4. \A i \in 1..Len(reqs) : reqs[i].op = "unique" =>
            Len(reqs) = 1 /\ \A e \in Elements : e[1] # reqs[i].key
    BY <2>2
  <2> QED BY <1>0, <2>1, <2>2, <2>3, <2>4, StartRehashOK
<1> QED BY <1>1, <1>2

-----------------------------------------------------------------------------
(* The calls that insert: they decide on the growth, nothing else.          *)

Kept == Elements' = Elements /\ ret' = ret

LEMMA OneCallOK ==
  ASSUME Inv, NEW r \in Request, Call(num_filled, <<r>>),
         r.op = "unique" => \A e \in Elements : e[1] # r.key
  PROVE  Inv' /\ Kept
<1> DEFINE reqs == <<r>>
<1>1. reqs \in Seq(Request) /\ Len(reqs) = 1 /\ reqs[1] = r
  OBVIOUS
<1> HIDE DEF reqs
<1>2. num_filled \in Nat /\ num_filled + Len(reqs) =< num_filled + 1
  BY <1>1 DEF Inv, TypeOK
<1>3. \A i \in 1..Len(reqs) : reqs[i].op = "unique" =>
            Len(reqs) = 1 /\ \A e \in Elements : e[1] # reqs[i].key
  BY <1>1
<1>4. Call(num_filled, reqs)
  BY DEF reqs
<1>5. Inv' /\ Elements' = Elements /\ ret' = ret
  BY <1>1, <1>2, <1>3, <1>4, CallOK
<1> QED BY <1>5 DEF Kept

LEMMA RangeRequestsType ==
  ASSUME NEW keys \in Seq(Key), NEW v \in Value
  PROVE  /\ RangeRequests(keys, v) \in Seq(Request)
         /\ Len(RangeRequests(keys, v)) = Len(keys) /\ Len(keys) \in Nat
         /\ \A i \in 1..Len(keys) : RangeRequests(keys, v)[i].op # "unique"
<1>1. DOMAIN keys = 1..Len(keys) /\ Len(keys) \in Nat /\ \A i \in 1..Len(keys) : keys[i] \in Key
  OBVIOUS
<1>2. \A i \in 1..Len(keys) : [op |-> "insert", key |-> keys[i], val |-> v] \in Request
  BY <1>1 DEF Request
<1>3. RangeRequests(keys, v) =
        [i \in 1..Len(keys) |-> [op |-> "insert", key |-> keys[i], val |-> v]]
  BY <1>1 DEF RangeRequests
<1>4. RangeRequests(keys, v) \in [1..Len(keys) -> Request]
  BY <1>2, <1>3
<1>5. RangeRequests(keys, v) \in Seq(Request) /\ Len(RangeRequests(keys, v)) = Len(keys)
  <2> DEFINE s == RangeRequests(keys, v)
  <2> HIDE DEF s
  <2>1. s \in [1..Len(keys) -> Request]
    BY <1>4 DEF s
  <2>2. s \in Seq(Request) /\ Len(s) = Len(keys)
    BY <2>1, <1>1
  <2> QED BY <2>2 DEF s
<1>6. \A i \in 1..Len(keys) : RangeRequests(keys, v)[i].op = "insert"
  BY <1>3
<1> QED BY <1>1, <1>5, <1>6

LEMMA RangeCallOK ==
  ASSUME Inv, NEW keys \in Batches, NEW v \in Value, InsertRange(keys, v)
  PROVE  Inv' /\ Kept
<1>1. keys \in Seq(Key)
  BY InputAssumption
<1>2. PICK reqs \in Seq(Request) :
        /\ reqs = RangeRequests(keys, v) /\ Len(reqs) = Len(keys) /\ Len(keys) \in Nat
        /\ \A i \in 1..Len(reqs) : reqs[i].op # "unique"
  BY <1>1, RangeRequestsType
<1>3. num_filled \in Nat
  BY DEF Inv, TypeOK
<1>4. num_filled + Len(keys) \in Nat /\ num_filled + Len(reqs) =< (num_filled + Len(keys)) + 1
  BY <1>2, <1>3
<1>5. Call(num_filled + Len(keys), reqs)
  BY <1>2 DEF InsertRange
<1>6. \A i \in 1..Len(reqs) : reqs[i].op = "unique" =>
            Len(reqs) = 1 /\ \A e \in Elements : e[1] # reqs[i].key
  BY <1>2
<1>7. Inv' /\ Elements' = Elements /\ ret' = ret
  BY <1>4, <1>5, <1>6, CallOK
<1> QED BY <1>7 DEF Kept

LEMMA ReserveOK ==
  ASSUME Inv, NEW n \in Requests, Reserve(n)
  PROVE  Inv' /\ Kept
<1>1. PICK reqs \in Seq(Request) : reqs = <<>> /\ Len(reqs) = 0
  <2>1. todo \in Seq(Request) /\ todo = <<>>
    BY DEF Reserve, Call, Inv, TypeOK, TodoMatches
  <2> QED BY <2>1
<1>2. n \in Nat
  BY InputAssumption
<1>3. Call(n, reqs)
  BY <1>1 DEF Reserve
<1>4. \A i \in 1..Len(reqs) : reqs[i].op = "unique" =>
            Len(reqs) = 1 /\ \A e \in Elements : e[1] # reqs[i].key
  BY <1>1
<1>5. Inv' /\ Elements' = Elements /\ ret' = ret
  BY <1>1, <1>2, <1>3, <1>4, CallOK
<1> QED BY <1>5 DEF Kept

-----------------------------------------------------------------------------
(* Every step does one of six things to the map, and keeps the invariant.   *)

Effect ==
  \/ Kept /\ (todo = <<>> \/ todo' = todo)
  \/ RequestTaken /\ ret' = TRUE /\ Added(Req.key, Req.val)
  \/ RequestTaken /\ ret' = FALSE /\ \E u \in Value :
        Overwritten(Req.key, u, IF Req.op = "assign" THEN Req.val ELSE u)
  \/ /\ todo = <<>> /\ todo' = todo
     /\ \/ \E k \in Key : Elements' = Elements /\ (\A e \in Elements : e[1] # k) /\ ret' = FALSE
        \/ \E k \in Key, u \in Value : Dropped(k, u) /\ (ret' = TRUE \/ ret' = ret)
        \/ Elements' = {} /\ ret' = ret

LEMMA InternalOK == ASSUME Inv, Internal PROVE Inv' /\ Effect
<1>1. CASE RehashStep
  <2>1. todo' = todo
    BY <1>1 DEF RehashStep
  <2> QED BY <2>1, <1>1, RehashStepOK DEF Effect, Kept
<1>2. CASE RehashDone
  <2>1. todo' = todo
    BY <1>2 DEF RehashDone
  <2> QED BY <2>1, <1>2, RehashDoneOK DEF Effect, Kept
<1>3. CASE InsertHit
  BY <1>3, InsertHitOK DEF Effect
<1>4. CASE InsertMiss
  BY <1>4, InsertMissOK DEF Effect
<1> QED BY <1>1, <1>2, <1>3, <1>4 DEF Internal

\* A call is made when none is running.
LEMMA ExternalWhenReady == External => pc = "ready"
BY DEF External, Insert, InsertOrAssign, InsertUnique, OperatorIndex, InsertRange, Reserve,
       Call, Rehash, ShrinkToFit, EraseKey, MaxLoadFactor, EraseIterator, Clear

LEMMA ExternalOK == ASSUME Inv, External PROVE Inv' /\ Effect
<1>0. todo = <<>>
  BY ExternalWhenReady DEF Inv, TodoMatches
<1>1. ASSUME NEW k \in Key, NEW v \in Value, Insert(k, v) PROVE Inv' /\ Kept
  <2> DEFINE r == [op |-> "insert", key |-> k, val |-> v]
  <2>1. r \in Request /\ r.op = "insert"
    BY DEF Request
  <2>2. Call(num_filled, <<r>>)
    BY <1>1 DEF Insert
  <2> HIDE DEF r
  <2> QED BY <2>1, <2>2, OneCallOK
<1>2. ASSUME NEW k \in Key, NEW v \in Value, InsertOrAssign(k, v) PROVE Inv' /\ Kept
  <2> DEFINE r == [op |-> "assign", key |-> k, val |-> v]
  <2>1. r \in Request /\ r.op = "assign"
    BY DEF Request
  <2>2. Call(num_filled, <<r>>)
    BY <1>2 DEF InsertOrAssign
  <2> HIDE DEF r
  <2> QED BY <2>1, <2>2, OneCallOK
<1>3. ASSUME NEW k \in Key, NEW v \in Value, InsertUnique(k, v) PROVE Inv' /\ Kept
  <2> DEFINE r == [op |-> "unique", key |-> k, val |-> v]
  <2>1. r \in Request /\ r.key = k
    BY DEF Request
  <2>2. Call(num_filled, <<r>>) /\ pc = "ready"
    BY <1>3 DEF InsertUnique, Call
  <2> HIDE DEF r
  <2>3. TableOK /\ Elements = TableElements
    BY <2>2, InvTable, NothingOld
  <2>4. \A c \in Filled : pairs[c].first # k
    <3>1. FindFilledBucket(k) = num_buckets
      BY <1>3 DEF InsertUnique
    <3>2. num_buckets \notin Filled
      BY <2>3 DEF TableOK, Filled, Buckets
    <3> QED BY <3>1, <3>2, <2>3, SearchExact
  <2>5. \A e \in Elements : e[1] # r.key
    BY <2>1, <2>3, <2>4 DEF TableElements
  <2> QED BY <2>1, <2>2, <2>5, OneCallOK
<1>4. ASSUME NEW k \in Key, OperatorIndex(k) PROVE Inv' /\ Kept
  BY <1>1, <1>4, ValueAssumption DEF OperatorIndex
<1>5. ASSUME NEW k \in Key, EraseKey(k) PROVE Inv' /\ Effect
  <2>1. /\ Inv'
        /\ \/ Elements' = Elements /\ ret' = FALSE /\ \A e \in Elements : e[1] # k
           \/ \E u \in Value : Dropped(k, u) /\ ret' = TRUE
    BY <1>5, EraseKeyOK
  <2>2. todo' = todo
    BY <1>5 DEF EraseKey, EraseBucket
  <2> QED BY <2>1, <2>2, <1>0 DEF Effect
<1>6. ASSUME NEW b \in Filled, EraseIterator(b) PROVE Inv' /\ Effect
  <2>1. pc = "ready" /\ ret' = ret /\ ret' \in BOOLEAN /\ EraseBucket(b)
    BY <1>6 DEF EraseIterator, Inv, TypeOK
  <2>2. /\ Inv' /\ pairs[b].first \in Key /\ pairs[b].second \in Value
        /\ Dropped(pairs[b].first, pairs[b].second)
    BY <2>1, EraseOK
  <2>3. todo' = todo
    BY <2>1 DEF EraseBucket
  <2> QED BY <2>1, <2>2, <2>3, <1>0 DEF Effect
<1>7. ASSUME NEW n \in Nat, Rehash(n) PROVE Inv' /\ Kept
  BY <1>7, RehashOK DEF Kept
<1>8. CASE ShrinkToFit
  <2>1. num_filled + 1 \in Nat
    BY DEF Inv, TypeOK
  <2> QED BY <2>1, <1>0, <1>7, <1>8 DEF ShrinkToFit, Effect
<1>9. CASE Clear
  <2>1. todo' = todo
    BY <1>9 DEF Clear
  <2> QED BY <2>1, <1>0, <1>9, ClearOK DEF Effect
<1>10. ASSUME NEW lf \in LoadFactors, MaxLoadFactor(lf) PROVE Inv' /\ Kept
  BY <1>10, MaxLoadFactorOK DEF Kept
<1>11. CASE \E n \in Requests : Reserve(n) \/ Rehash(n)
  BY <1>0, <1>7, <1>11, ReserveOK, InputAssumption DEF Effect
<1>12. CASE \E k \in Key, v \in Value : Insert(k, v) \/ InsertOrAssign(k, v) \/ InsertUnique(k, v)
  BY <1>0, <1>1, <1>2, <1>3, <1>12 DEF Effect
<1>13. CASE \E k \in Key : OperatorIndex(k) \/ EraseKey(k)
  BY <1>0, <1>4, <1>5, <1>13 DEF Effect
<1>14. CASE \E keys \in Batches, v \in Value : InsertRange(keys, v)
  BY <1>0, <1>14, RangeCallOK DEF Effect
<1>15. CASE \E lf \in LoadFactors : MaxLoadFactor(lf)
  BY <1>0, <1>10, <1>15 DEF Effect
<1>16. CASE \E b \in Filled : EraseIterator(b)
  BY <1>6, <1>16
<1> QED BY <1>8, <1>9, <1>11, <1>12, <1>13, <1>14, <1>15, <1>16 DEF External

LEMMA InitOK == Init => Inv /\ Elements = {} /\ ret = FALSE
<1> SUFFICES ASSUME Init PROVE Inv /\ Elements = {} /\ ret = FALSE
  OBVIOUS
<1>1. PICK n \in Requests, keys \in Batches \cup {<<>>}, v \in Value :
        LET asked == IF keys = <<>> THEN n ELSE Len(keys)
        IN  /\ Allocatable(asked)
            /\ num_buckets = BucketsFor(asked)
            /\ todo = RangeRequests(keys, v)
  BY DEF Init, Constructed
<1>2. /\ num_filled = 0 /\ mlf = (FixedOne * 1000) \div DefaultLoad
      /\ bitmask = Buckets /\ pairs = [b \in Buckets |-> NoPair] /\ last = 0
      /\ old = [b \in {} |-> NoPair] /\ old_filled = 0 /\ ret = FALSE
      /\ pc = Resume(todo)
  BY DEF Init, Constructed
<1>3. keys \in Seq(Key)
  <2>1. <<>> \in Seq(Key)
    OBVIOUS
  <2> QED BY <2>1, InputAssumption
<1>4. /\ todo \in Seq(Request) /\ Len(todo) = Len(keys) /\ Len(keys) \in Nat
      /\ \A i \in 1..Len(todo) : todo[i].op # "unique"
  BY <1>1, <1>3, RangeRequestsType
<1>5. num_buckets \in BucketCounts /\ (todo # <<>> => num_buckets >= Len(todo))
  <2> DEFINE asked == IF keys = <<>> THEN n ELSE Len(keys)
             S == { s \in BucketCounts : s >= asked }
  <2>1. S \in SUBSET Nat /\ S # {}
    BY <1>1, BucketAssumption DEF Allocatable
  <2>2. Lowest(S) \in S
    <3> HIDE DEF S
    <3> QED BY <2>1, LowestIsIn
  <2>3. num_buckets = Lowest(S)
    BY <1>1 DEF BucketsFor
  <2>4. todo # <<>> => keys # <<>>
    BY <1>3, <1>4
  <2> QED BY <2>2, <2>3, <2>4, <1>4
<1>6. EmptyTable
  BY <1>2, <1>5, QMaskType DEF EmptyTable
<1>7. TableOK /\ TableElements = {}
  BY <1>6, EmptyTableOK
<1>8. DOMAIN old = {} /\ pc \in {"ready", "insert"} /\ TodoMatches
  BY <1>2 DEF Resume, TodoMatches
<1>9. TypeOK
  <2>1. mlf \in Nat /\ mlf >= FixedOne
    <3>1. DefaultLoad \in Nat \ {0} /\ 1000 >= DefaultLoad
      BY LoadAssumption
    <3> QED BY <3>1, <1>2, LoadAssumption, RequiredSuffices
  <2>2. old \in [DOMAIN old -> Entry] /\ DOMAIN old \subseteq Nat
    BY <1>2, <1>8
  <2> QED BY <2>1, <2>2, <1>2, <1>4, <1>5, <1>7, <1>8 DEF TypeOK, TableOK
<1>10. KeysUnique /\ RehashLosesNothing /\ OldBounded /\ UniqueIsNew
  BY <1>4, <1>7, <1>8 DEF KeysUnique, RehashLosesNothing, OldBounded, UniqueIsNew, TableOK
<1>11. Room
  BY <1>2, <1>4, <1>5, <1>8, BucketAssumption DEF Room, TodoMatches
<1>12. Elements = {}
  BY <1>7, <1>8 DEF Elements, OldElements
<1> QED BY <1>2, <1>7, <1>8, <1>9, <1>10, <1>11, <1>12 DEF Inv, TableOK

-----------------------------------------------------------------------------
(* The theorems.                                                           *)

LEMMA NextOK == ASSUME Inv, Next PROVE Inv' /\ Effect
BY InternalOK, ExternalOK DEF Next

LEMMA StutterOK == ASSUME Inv, UNCHANGED vars PROVE Inv' /\ Kept
<1>0. UNCHANGED <<table, num_buckets, mlf, num_filled, old, old_filled, todo, ret, pc>>
  BY DEF vars, table, probe, moving
<1>1. TableOK' /\ TableElements' = TableElements
  BY <1>0, InvTable, TableKept
<1>2. Kept
  BY <1>0, <1>1 DEF Kept, Elements, OldElements
<1>3. TypeOK'
  BY <1>0, <1>1 DEF Inv, TypeOK, TableOK
<1>4. KeysUnique'
  <2>1. UNCHANGED <<pairs, bitmask, num_buckets, old>>
    BY <1>0 DEF table, probe
  <2>2. Filled' = Filled
    BY <2>1 DEF Filled, Buckets
  <2> QED BY <2>1, <2>2 DEF Inv, KeysUnique
<1>5. RehashLosesNothing' /\ OldBounded' /\ TodoMatches' /\ Room'
  BY <1>0 DEF Inv, RehashLosesNothing, OldBounded, TodoMatches, Room
<1>6. UniqueIsNew'
  BY <1>0, <1>2 DEF Inv, UniqueIsNew, Kept
<1> QED BY <1>1, <1>2, <1>3, <1>4, <1>5, <1>6 DEF Inv, TableOK

\* Every step of every call keeps the invariant.
THEOREM InvHolds == Spec => []Inv
<1>1. Init => Inv
  BY InitOK
<1>2. Inv /\ [Next]_vars => Inv'
  BY NextOK, StutterOK
<1> QED BY <1>1, <1>2, PTL DEF Spec

\* The variables of hash_table7.hpp keep their types, the probe hint included.
THEOREM TypesHold == Spec => []TypeOK
<1>1. Inv => TypeOK
  BY DEF Inv
<1> QED BY <1>1, InvHolds, PTL

\* The bitmask, the array and _num_filled always agree.
THEOREM CountsAlwaysAgree == Spec => []CountsAgree
<1>1. Inv => CountsAgree
  BY DEF Inv
<1> QED BY <1>1, InvHolds, PTL

\* No kickout, append, unlink or move ever breaks, crosses or closes a chain.
THEOREM ChainsAlwaysSound == Spec => []ChainsSound
<1>1. Inv => ChainsSound
  BY DEF Inv
<1> QED BY <1>1, InvHolds, PTL

\* find_filled_bucket finds a key exactly when it is stored.
THEOREM LookupAlwaysExact == Spec => []LookupExact
<1>1. Inv => LookupExact
  <2> SUFFICES ASSUME Inv, NEW k \in Key
               PROVE  LET b == FindFilledBucket(k)
                      IN  IF \E c \in Filled : pairs[c].first = k
                          THEN b \in Filled /\ pairs[b].first = k
                          ELSE b = num_buckets
    BY DEF LookupExact
  <2>1. CASE \E c \in Filled : pairs[c].first = k
    BY <2>1, InvTable, SearchExact
  <2>2. CASE ~ \E c \in Filled : pairs[c].first = k
    BY <2>2, InvTable, SearchExact
  <2> QED BY <2>1, <2>2
<1> QED BY <1>1, InvHolds, PTL

\* A rehash moves every element once, frees an array that holds none, and at
\* no moment is a key in the table twice, nor in both arrays.
THEOREM ElementsAlwaysKept == Spec => []ElementsKept
<1>1. Inv => ElementsKept
  BY DEF Inv, ElementsKept
<1> QED BY <1>1, InvHolds, PTL

\* Without EMH_HIGH_LOAD, whatever the load factor, the range or the number
\* reserved, a probe for an empty bucket has one to find: it ends, and the
\* assertion of find_empty_bucket holds.
THEOREM ProbeAlwaysHasRoom ==
  ASSUME EMH_HIGH_LOAD = FALSE
  PROVE  Spec => []ProbeHasRoom
<1>1. Inv => ProbeHasRoom
  <2> SUFFICES ASSUME Inv PROVE ProbeHasRoom
    OBVIOUS
  <2>1. /\ pc = "rehash" => old_filled + Len(todo) =< num_buckets
        /\ pc = "insert" => num_filled + Len(todo) =< num_buckets
    BY DEF Inv, Room
  <2>2. Len(todo) \in Nat /\ old_filled \in Nat /\ num_filled \in Nat /\ num_buckets \in Nat
    BY BucketAssumption DEF Inv, TypeOK
  <2>3. num_filled < num_buckets => bitmask # {}
    BY InvTable, FilledAtMost
  <2>4. pc = "insert" => Len(todo) >= 1
    BY InsertContext, <2>2
  <2> QED BY <2>1, <2>2, <2>3, <2>4 DEF ProbeHasRoom, NoRoomFor
<1> QED BY <1>1, InvHolds, PTL

-----------------------------------------------------------------------------
(* The table implements the map.                                           *)

ContentsFaithful ==
  /\ Contents \in [Key -> Value \cup {NoValue}]
  /\ \A k \in Key, v \in Value : <<k, v>> \in Elements <=> Contents[k] = v
  /\ \A k \in Key : (\A e \in Elements : e[1] # k) => Contents[k] = NoValue

LEMMA ContentsOK == Inv => ContentsFaithful
<1> SUFFICES ASSUME Inv PROVE ContentsFaithful
  OBVIOUS
<1>1. Contents \in [Key -> Value \cup {NoValue}]
  BY DEF Contents
<1>2. ASSUME NEW k \in Key, NEW v \in Value, <<k, v>> \in Elements
      PROVE  Contents[k] = v
  <2>1. \A w \in Value : <<k, w>> \in Elements => w = v
    BY <1>2, ElementsAreAMap
  <2> QED BY <2>1, <1>2 DEF Contents
<1>3. ASSUME NEW k \in Key, NEW v \in Value, Contents[k] = v
      PROVE  <<k, v>> \in Elements
  <2>1. Contents[k] # NoValue
    BY <1>3, ValueAssumption
  <2>2. PICK w \in Value : <<k, w>> \in Elements
    BY <2>1 DEF Contents
  <2> QED BY <1>2, <1>3, <2>2
<1>4. ASSUME NEW k \in Key, \A e \in Elements : e[1] # k
      PROVE  Contents[k] = NoValue
  <2>1. ~ \E v \in Value : <<k, v>> \in Elements
    BY <1>4
  <2> QED BY <2>1 DEF Contents
<1> QED BY <1>1, <1>2, <1>3, <1>4 DEF ContentsFaithful

\* Two maps that agree on every value they hold are one.
LEMMA SameContents ==
  ASSUME NEW f \in [Key -> Value \cup {NoValue}], NEW g \in [Key -> Value \cup {NoValue}],
         \A k \in Key, v \in Value : f[k] = v <=> g[k] = v
  PROVE  f = g
<1>1. \A k \in Key : f[k] = g[k]
  BY ValueAssumption
<1> QED BY <1>1

LEMMA StepImplements ==
  ASSUME Inv, Inv', Effect
  PROVE  Abstract!Next \/ UNCHANGED <<Contents, todo, ret>>
<1>0. ContentsFaithful /\ ContentsFaithful'
  BY ContentsOK, PTL
<1>t. /\ Contents \in [Key -> Value \cup {NoValue}] /\ Contents' \in [Key -> Value \cup {NoValue}]
      /\ \A k \in Key, v \in Value : <<k, v>> \in Elements <=> Contents[k] = v
      /\ \A k \in Key, v \in Value : <<k, v>> \in Elements' <=> Contents'[k] = v
      /\ \A k \in Key : (\A e \in Elements : e[1] # k) => Contents[k] = NoValue
      /\ NoValue \notin Value
  BY <1>0, ValueAssumption DEF ContentsFaithful
<1>s. ASSUME Elements' = Elements PROVE Contents' = Contents
  <2>1. \A k \in Key, v \in Value : Contents'[k] = v <=> Contents[k] = v
    BY <1>s, <1>t
  <2> QED BY <2>1, <1>t, SameContents
<1>1. ASSUME Kept, todo = <<>> \/ todo' = todo
      PROVE  Abstract!Ask \/ UNCHANGED <<Contents, todo, ret>>
  <2>1. Contents' = Contents /\ ret' = ret
    BY <1>1, <1>s DEF Kept
  <2>2. todo' \in Seq(Abstract!Request)
    BY DEF Inv, TypeOK, Request, Abstract!Request
  <2> QED BY <2>1, <2>2, <1>1 DEF Abstract!Ask
<1>2. ASSUME NEW k \in Key, NEW v \in Value, Added(k, v), ret' = TRUE
      PROVE  ret' = ~Abstract!Stored(k) /\ Contents' = [Contents EXCEPT ![k] = v]
  <2>1. Contents[k] = NoValue
    BY <1>2, <1>t DEF Added
  <2>2. [Contents EXCEPT ![k] = v] = Contents'
    <3> DEFINE g == [Contents EXCEPT ![k] = v]
    <3>1. g \in [Key -> Value \cup {NoValue}]
      BY <1>t
    <3>2. \A j \in Key, w \in Value : Contents'[j] = w <=> g[j] = w
      <4>1. \A j \in Key, w \in Value :
              <<j, w>> \in Elements' <=> (<<j, w>> \in Elements \/ (j = k /\ w = v))
        BY <1>2 DEF Added
      <4>2. \A j \in Key, w \in Value : g[j] = w <=> IF j = k THEN w = v ELSE Contents[j] = w
        BY <1>t
      <4>3. \A w \in Value : ~ (<<k, w>> \in Elements)
        BY <1>t, <2>1
      <4> HIDE DEF g
      <4> QED BY <4>1, <4>2, <4>3, <1>t
    <3> HIDE DEF g
    <3>3. Contents' = g
      BY <3>1, <3>2, <1>t, SameContents
    <3> QED BY <3>3 DEF g
  <2> QED BY <2>1, <2>2, <1>2 DEF Abstract!Stored
<1>3. ASSUME NEW k \in Key, NEW u \in Value, NEW v \in Value, Overwritten(k, u, v), ret' = FALSE
      PROVE  /\ ret' = ~Abstract!Stored(k) /\ Abstract!Stored(k)
             /\ Contents' = [Contents EXCEPT ![k] = v]
             /\ u = v => Contents' = Contents
  <2>1. Contents[k] = u /\ Contents[k] # NoValue
    BY <1>3, <1>t DEF Overwritten
  <2>2. [Contents EXCEPT ![k] = v] = Contents'
    <3> DEFINE g == [Contents EXCEPT ![k] = v]
    <3>1. g \in [Key -> Value \cup {NoValue}]
      BY <1>t
    <3>2. \A j \in Key, w \in Value : Contents'[j] = w <=> g[j] = w
      <4>1. \A j \in Key, w \in Value :
              <<j, w>> \in Elements' <=>
                ((<<j, w>> \in Elements /\ ~ (j = k /\ w = u)) \/ (j = k /\ w = v))
        BY <1>3 DEF Overwritten
      <4>2. \A j \in Key, w \in Value : g[j] = w <=> IF j = k THEN w = v ELSE Contents[j] = w
        BY <1>t
      <4>3. \A w \in Value : <<k, w>> \in Elements => w = u
        BY <1>t, <2>1
      <4> HIDE DEF g
      <4> QED BY <4>1, <4>2, <4>3, <1>t
    <3> HIDE DEF g
    <3>3. Contents' = g
      BY <3>1, <3>2, <1>t, SameContents
    <3> QED BY <3>3 DEF g
  <2>3. u = v => Contents' = Contents
    BY <2>1, <2>2, <1>t
  <2> QED BY <2>1, <2>2, <2>3, <1>3 DEF Abstract!Stored
<1>4. ASSUME todo = <<>>, todo' = todo, NEW k \in Key, Elements' = Elements, \A e \in Elements : e[1] # k, ret' = FALSE
      PROVE  Abstract!Remove(k)
  <2>1. Contents[k] = NoValue /\ Contents' = Contents
    BY <1>4, <1>s, <1>t
  <2>2. [Contents EXCEPT ![k] = NoValue] = Contents
    BY <2>1, <1>t
  <2> QED BY <2>1, <2>2, <1>4 DEF Abstract!Remove, Abstract!Stored
<1>5. ASSUME todo = <<>>, todo' = todo, NEW k \in Key, NEW u \in Value, Dropped(k, u), ret' = TRUE \/ ret' = ret
      PROVE  Abstract!Remove(k) \/ Abstract!RemoveHere(k)
  <2>1. Contents[k] = u /\ Contents[k] # NoValue
    BY <1>5, <1>t DEF Dropped
  <2>2. [Contents EXCEPT ![k] = NoValue] = Contents'
    <3> DEFINE g == [Contents EXCEPT ![k] = NoValue]
    <3>1. g \in [Key -> Value \cup {NoValue}]
      BY <1>t
    <3>2. \A j \in Key, w \in Value : Contents'[j] = w <=> g[j] = w
      <4>1. \A j \in Key, w \in Value :
              <<j, w>> \in Elements' <=> (<<j, w>> \in Elements /\ ~ (j = k /\ w = u))
        BY <1>5 DEF Dropped
      <4>2. \A j \in Key, w \in Value : g[j] = w <=> IF j = k THEN FALSE ELSE Contents[j] = w
        BY <1>t
      <4>3. \A w \in Value : <<k, w>> \in Elements => w = u
        BY <1>t, <2>1
      <4> HIDE DEF g
      <4> QED BY <4>1, <4>2, <4>3, <1>t
    <3> HIDE DEF g
    <3>3. Contents' = g
      BY <3>1, <3>2, <1>t, SameContents
    <3> QED BY <3>3 DEF g
  <2> QED BY <2>1, <2>2, <1>5 DEF Abstract!Remove, Abstract!RemoveHere, Abstract!Stored
<1>6. ASSUME todo = <<>>, todo' = todo, Elements' = {}, ret' = ret
      PROVE  Abstract!RemoveAll
  <2> DEFINE g == [k \in Key |-> NoValue]
  <2>1. g \in [Key -> Value \cup {NoValue}]
    OBVIOUS
  <2>2. \A j \in Key, w \in Value : Contents'[j] = w <=> g[j] = w
    BY <1>6, <1>t
  <2> HIDE DEF g
  <2>3. Contents' = g
    BY <2>1, <2>2, <1>t, SameContents
  <2> QED BY <2>3, <1>6 DEF Abstract!RemoveAll, g
<1>7. ASSUME RequestTaken, ret' = TRUE, Added(Req.key, Req.val)
      PROVE  Abstract!Perform
  BY <1>2, <1>7 DEF RequestTaken, Req, Abstract!Perform
<1>8. ASSUME RequestTaken, ret' = FALSE, NEW u \in Value,
             Overwritten(Req.key, u, IF Req.op = "assign" THEN Req.val ELSE u)
      PROVE  Abstract!Perform
  <2>1. CASE Req.op = "assign"
    BY <2>1, <1>3, <1>8 DEF RequestTaken, Req, Abstract!Perform
  <2>2. CASE Req.op # "assign"
    BY <2>2, <1>3, <1>8 DEF RequestTaken, Req, Abstract!Perform
  <2> QED BY <2>1, <2>2
<1> QED BY <1>1, <1>4, <1>5, <1>6, <1>7, <1>8 DEF Effect, Abstract!Next

\* The table implements the map of MapSpec: insert keeps the value of a key it
\* meets, insert_or_assign replaces it, erase removes one key, and growing,
\* moving and kicking out are invisible.
THEOREM TableImplementsMap == Spec => ImplementsMap
<1>1. Init => Abstract!Init
  <2> SUFFICES ASSUME Init PROVE Contents = [k \in Key |-> NoValue] /\ todo \in Seq(Request) /\ ret = FALSE
    BY DEF Abstract!Init, Abstract!Request, Request
  <2>1. Elements = {} /\ todo \in Seq(Request) /\ ret = FALSE
    BY InitOK DEF Inv, TypeOK
  <2> QED BY <2>1 DEF Contents
<1>2. Inv /\ [Next]_vars => [Abstract!Next]_(Abstract!vars)
  <2> SUFFICES ASSUME Inv, [Next]_vars
               PROVE  Abstract!Next \/ UNCHANGED <<Contents, todo, ret>>
    BY DEF Abstract!vars
  <2>1. Inv' /\ Effect
    <3>1. CASE Next
      BY <3>1, NextOK
    <3>2. CASE UNCHANGED vars
      BY <3>2, StutterOK DEF Effect, vars
    <3> QED BY <3>1, <3>2
  <2> QED BY <2>1, StepImplements
<1> QED BY <1>1, <1>2, InvHolds, PTL DEF Spec, ImplementsMap, Abstract!Spec

-----------------------------------------------------------------------------
(* Words of the bitmask.                                                   *)

LEMMA WordOf ==
  ASSUME NEW b \in Nat, NEW w \in Nat, NEW s \in Nat \ {0}
  PROVE  b \in w * s .. (w + 1) * s - 1 <=> b \div s = w
<1> DEFINE q == b \div s
<1>1. q \in Nat /\ s * q =< b /\ b < s * (q + 1)
  OBVIOUS
<1>2. w * s = s * w /\ (w + 1) * s = s * (w + 1) /\ s * w \in Nat /\ s * (w + 1) \in Nat
  OBVIOUS
<1> HIDE DEF q
<1>3. ASSUME s * w =< b, b < s * (w + 1) PROVE q = w
  <2>1. s * q < s * (w + 1) /\ s * w < s * (q + 1)
    <3>1. s * q \in Nat /\ s * (q + 1) \in Nat
      BY <1>1
    <3> QED BY <3>1, <1>1, <1>2, <1>3
  <2>2. q < w + 1 /\ w < q + 1
    BY <1>1, <2>1
  <2> QED BY <1>1, <2>2
<1>4. q = w => s * w =< b /\ b < s * (w + 1)
  BY <1>1
<1>5. (s * w =< b /\ b < s * (w + 1)) <=> q = w
  BY <1>3, <1>4
<1>6. b \in w * s .. (w + 1) * s - 1 <=> (s * w =< b /\ b < s * (w + 1))
  BY <1>2
<1> QED BY <1>5, <1>6 DEF q

LEMMA WordOfFirst ==
  ASSUME NEW w \in Nat, NEW s \in Nat \ {0}
  PROVE  (w * s) \div s = w
<1>1. w * s \in Nat /\ w * s =< (w + 1) * s - 1
  OBVIOUS
<1>2. w * s \in w * s .. (w + 1) * s - 1
  BY <1>1
<1> QED BY <1>1, <1>2, WordOf

LEMMA FilledBitsAre ==
  ASSUME NEW bm, NEW w \in Nat
  PROVE  FilledBits(bm, w) = { b \in Nat : b \div SizeBit = w /\ b \notin bm }
<1>1. SizeBit \in Nat \ {0}
  BY WordAssumption
<1>2. \A b \in Nat : b \in w * SizeBit .. (w + 1) * SizeBit - 1 <=> b \div SizeBit = w
  BY <1>1, WordOf
<1>3. w * SizeBit .. (w + 1) * SizeBit - 1 \subseteq Nat
  <2>1. w * SizeBit \in Nat /\ (w + 1) * SizeBit \in Nat
    BY <1>1
  <2> QED BY <2>1
<1> QED BY <1>2, <1>3 DEF FilledBits

-----------------------------------------------------------------------------
(* Where an iterator goes.                                                 *)

\* The first bucket of the word of c, and what a copy of that word holds of it.
First(c) == (c \div SizeBit) * SizeBit
Rest(bm, c) == { b \in FilledBits(bm, c \div SizeBit) : b >= c }

\* The iterator n is at the first filled bucket behind c, or at the end, with
\* an exact copy of the rest of its word.
IsNext(n, bm, c) ==
  /\ n = Iterator(n.bucket, First(n.bucket), Rest(bm, n.bucket))
  /\ n.bucket \in c + 1 .. num_buckets
  /\ n.bucket \notin bm
  /\ \A x \in c + 1 .. n.bucket - 1 : x \in bm

LEMMA IteratorFields ==
  ASSUME NEW b, NEW f, NEW r
  PROVE  Iterator(b, f, r).bucket = b /\ Iterator(b, f, r).from = f /\ Iterator(b, f, r).bmask = r
BY DEF Iterator

LEMMA IteratorMoved ==
  ASSUME NEW b, NEW f, NEW r, NEW d
  PROVE  [Iterator(b, f, r) EXCEPT !.bucket = d] = Iterator(d, f, r)
BY DEF Iterator

LEMMA IteratorStruck ==
  ASSUME NEW b, NEW f, NEW r, NEW d
  PROVE  [Iterator(b, f, r) EXCEPT !.bmask = d] = Iterator(b, f, d)
BY DEF Iterator

LEMMA NextInWord ==
  ASSUME num_buckets \in Nat, NEW bm \in SUBSET Buckets, NEW c \in Buckets, NEW R,
         R = { x \in FilledBits(bm, c \div SizeBit) : x > c }, R # {}
  PROVE  IsNext(GotoNext(Iterator(c, First(c), R), bm), bm, c)
<1> DEFINE n == Lowest(R)
           w == c \div SizeBit
<1>0. c \in Nat /\ SizeBit \in Nat \ {0} /\ num_buckets \notin bm /\ c < num_buckets
  BY WordAssumption DEF Buckets
<1>1. w \in Nat /\ \A x, y \in Nat : x =< y => x \div SizeBit \in Nat /\ y \div SizeBit \in Nat
                                              /\ x \div SizeBit =< y \div SizeBit
  BY <1>0, DivMonotone
<1>2. \A x : x \in R <=> x \in Nat /\ x \div SizeBit = w /\ x \notin bm /\ x > c
  BY <1>1, FilledBitsAre
<1>3. n \in R /\ \A y \in R : n =< y
  BY <1>2, LowestIsIn
<1> HIDE DEF n
<1>4. n \in Nat /\ n \div SizeBit = w /\ n \notin bm /\ n > c
  BY <1>2, <1>3
<1>5. \A x \in c + 1 .. n - 1 : x \in bm
  <2> SUFFICES ASSUME NEW x \in c + 1 .. n - 1, x \notin bm PROVE FALSE
    OBVIOUS
  <2>1. x \in Nat /\ c =< x /\ x =< n /\ x > c /\ x < n
    BY <1>0, <1>4
  <2>2. x \div SizeBit = w
    BY <1>0, <1>1, <1>4, <2>1
  <2>3. x \in R
    BY <1>2, <2>1, <2>2
  <2> QED BY <1>3, <1>4, <2>1, <2>3
<1>6. n =< num_buckets
  BY <1>0, <1>4, <1>5
<1>7. Rest(bm, n) = R
  <2>1. \A x : x \in Rest(bm, n) <=> x \in Nat /\ x \div SizeBit = w /\ x \notin bm /\ x >= n
    BY <1>1, <1>4, FilledBitsAre DEF Rest
  <2>2. \A x \in Nat : x >= n => x > c
    BY <1>0, <1>4
  <2> QED BY <1>2, <1>3, <2>1, <2>2
<1>8. GotoNext(Iterator(c, First(c), R), bm) = Iterator(n, First(n), Rest(bm, n))
  <2>1. First(n) = First(c)
    BY <1>4 DEF First
  <2>2. [Iterator(c, First(c), R) EXCEPT !.bucket = n] = Iterator(n, First(c), R)
    BY IteratorMoved
  <2>3. Iterator(c, First(c), R).bmask = R
    BY IteratorFields
  <2>4. GotoNext(Iterator(c, First(c), R), bm) = [Iterator(c, First(c), R) EXCEPT !.bucket = n]
    BY <2>3 DEF GotoNext, n
  <2> QED BY <1>7, <2>1, <2>2, <2>4
<1>9. Iterator(n, First(n), Rest(bm, n)).bucket = n
  BY IteratorFields
<1>10. n \in c + 1 .. num_buckets
  BY <1>0, <1>4, <1>6
<1> QED BY <1>4, <1>5, <1>8, <1>9, <1>10 DEF IsNext

LEMMA NextWord ==
  ASSUME num_buckets \in Nat, NEW bm \in SUBSET Buckets, NEW c \in Buckets,
         \A x \in FilledBits(bm, c \div SizeBit) : ~ (x > c)
  PROVE  IsNext(GotoNext(Iterator(c, First(c), {}), bm), bm, c)
<1> DEFINE h == c \div SizeBit
           e == num_buckets \div SizeBit
           W == { x \in h + 1 .. e + 1 : FilledBits(bm, x) # {} }
           w == Lowest(W)
           n == Lowest(FilledBits(bm, w))
<1>0. c \in Nat /\ SizeBit \in Nat \ {0} /\ num_buckets \notin bm /\ c < num_buckets
  BY WordAssumption DEF Buckets
<1>1. /\ h \in Nat /\ e \in Nat
      /\ \A x, y \in Nat : x =< y => x \div SizeBit \in Nat /\ y \div SizeBit \in Nat
                                      /\ x \div SizeBit =< y \div SizeBit
  BY <1>0, DivMonotone
<1>2. \A v \in Nat : \A x : x \in FilledBits(bm, v) <=> x \in Nat /\ x \div SizeBit = v /\ x \notin bm
  BY FilledBitsAre
<1>3. \A x \in Nat : x \div SizeBit = h /\ x > c => x \in bm
  BY <1>1, <1>2
<1>4. e \in W
  <2>1. h =< e /\ h # e
    BY <1>0, <1>1, <1>3
  <2>2. num_buckets \in FilledBits(bm, e)
    BY <1>0, <1>1, <1>2
  <2> QED BY <1>1, <2>1, <2>2
<1>5. w \in W /\ \A v \in W : w =< v
  <2>1. W \in SUBSET Nat
    BY <1>1
  <2> HIDE DEF W
  <2> QED BY <1>4, <2>1, LowestIsIn
<1>6. w \in Nat /\ w > h /\ w =< e /\ FilledBits(bm, w) # {}
  <2>1. \A v \in W : v \in Nat /\ v > h /\ FilledBits(bm, v) # {}
    BY <1>1
  <2> HIDE DEF W, w, h, e
  <2> QED BY <2>1, <1>4, <1>5
<1>7. n \in FilledBits(bm, w) /\ \A y \in FilledBits(bm, w) : n =< y
  <2>1. FilledBits(bm, w) \in SUBSET Nat
    BY <1>2, <1>6
  <2> HIDE DEF w
  <2> QED BY <1>6, <2>1, LowestIsIn
<1>8. GotoNext(Iterator(c, First(c), {}), bm) = Iterator(n, w * SizeBit, FilledBits(bm, w))
  <2>1. Iterator(c, First(c), {}).from = First(c) /\ Iterator(c, First(c), {}).bmask = {}
    BY IteratorFields
  <2>2. First(c) \div SizeBit = h
    BY <1>0, <1>1, WordOfFirst DEF First
  <2> QED BY <2>1, <2>2 DEF GotoNext
<1> HIDE DEF n, w
<1>9. n \in Nat /\ n \div SizeBit = w /\ n \notin bm
  BY <1>2, <1>6, <1>7
<1>10. n > c
  BY <1>0, <1>1, <1>6, <1>9
<1>11. \A x \in c + 1 .. n - 1 : x \in bm
  <2> SUFFICES ASSUME NEW x \in c + 1 .. n - 1, x \notin bm PROVE FALSE
    OBVIOUS
  <2>1. x \in Nat /\ c =< x /\ x =< n /\ x > c /\ x < n
    BY <1>0, <1>9
  <2>2. PICK v \in Nat : v = x \div SizeBit /\ h =< v /\ v =< w
    BY <1>0, <1>1, <1>9, <2>1
  <2>3. v # h
    BY <1>3, <2>1, <2>2
  <2>4. x \in FilledBits(bm, v)
    BY <1>2, <2>1, <2>2
  <2>5. v \in W
    BY <1>1, <1>6, <2>2, <2>3, <2>4
  <2>6. v = w
    BY <1>5, <1>6, <2>2, <2>5
  <2> QED BY <1>7, <1>9, <2>1, <2>4, <2>6
<1>12. n =< num_buckets
  BY <1>0, <1>9, <1>10, <1>11
<1>13. First(n) = w * SizeBit /\ Rest(bm, n) = FilledBits(bm, w)
  BY <1>7, <1>9 DEF First, Rest
<1>14. Iterator(n, First(n), Rest(bm, n)).bucket = n
  BY IteratorFields
<1>15. n \in c + 1 .. num_buckets
  BY <1>0, <1>9, <1>10, <1>12
<1> QED BY <1>8, <1>9, <1>11, <1>13, <1>14, <1>15 DEF IsNext

\* operator++ for an iterator at c, whose copy R holds c itself or did when c
\* was emptied: it goes to the next filled bucket of the bitmask bm.
LEMMA AdvanceOK ==
  ASSUME num_buckets \in Nat, NEW bm \in SUBSET Buckets, NEW c \in Buckets, NEW i, NEW R,
         InitIterator(i, bm) = Iterator(c, First(c), R),
         R \in SUBSET Nat, c \in R, \A x \in R : c =< x,
         R \ {c} = { x \in FilledBits(bm, c \div SizeBit) : x > c }
  PROVE  IsNext(Advance(i, bm), bm, c)
<1> DEFINE S == R \ {c}
<1>1. Lowest(R) = c
  <2>1. Lowest(R) \in R /\ Lowest(R) =< c
    BY LowestIsIn
  <2>2. c \in Nat /\ Lowest(R) \in Nat /\ c =< Lowest(R)
    BY <2>1 DEF Buckets
  <2> HIDE DEF S
  <2> QED BY <2>1, <2>2
<1>2. Advance(i, bm) = GotoNext(Iterator(c, First(c), S), bm)
  <2>1. Iterator(c, First(c), R).bmask = R /\ R # {}
    BY IteratorFields
  <2>2. [Iterator(c, First(c), R) EXCEPT !.bmask = R \ {Lowest(R)}] = Iterator(c, First(c), S)
    <3>1. R \ {Lowest(R)} = S
      BY <1>1
    <3> HIDE DEF S
    <3>2. [Iterator(c, First(c), R) EXCEPT !.bmask = S] = Iterator(c, First(c), S)
      BY IteratorStruck
    <3> QED BY <3>1, <3>2
  <2> QED BY <2>1, <2>2 DEF Advance
<1>3. CASE S # {}
  BY <1>2, <1>3, NextInWord
<1>4. CASE S = {}
  <2>1. \A x \in FilledBits(bm, c \div SizeBit) : ~ (x > c)
    BY <1>4
  <2> QED BY <1>2, <1>4, <2>1, NextWord
<1> QED BY <1>3, <1>4

-----------------------------------------------------------------------------
(* What holds of the iterator of a running loop.                           *)

\* It is at a filled bucket or at the end; a copy it took is still exact.
IteratorOK ==
  /\ it.bucket \in 0 .. num_buckets /\ it.bucket \notin bitmask
  /\ it = Iterator(it.bucket, it.from, it.bmask)
  /\ it.from # Lazy => it.from = First(it.bucket) /\ it.bmask = Rest(bitmask, it.bucket)

LEMMA FirstType ==
  ASSUME NEW c \in Nat
  PROVE  First(c) \in Nat /\ First(c) # Lazy /\ First(c) \div SizeBit = c \div SizeBit
<1>1. SizeBit \in Nat \ {0} /\ c \div SizeBit \in Nat
  BY WordAssumption, DivMonotone
<1>2. First(c) \in Nat
  BY <1>1 DEF First
<1>3. First(c) \div SizeBit = c \div SizeBit
  BY <1>1, WordOfFirst DEF First
<1> QED BY <1>2, <1>3 DEF Lazy

\* The copy, if it is taken now.
LEMMA CopyTaken ==
  ASSUME num_buckets \in Nat, IteratorOK, it.bucket # num_buckets
  PROVE  InitIterator(it, bitmask) = Iterator(it.bucket, First(it.bucket), Rest(bitmask, it.bucket))
<1>1. it.bucket < num_buckets
  BY DEF IteratorOK
<1>2. CASE it.from = Lazy
  BY <1>1, <1>2 DEF InitIterator, First, Rest
<1>3. CASE it.from # Lazy
  BY <1>3 DEF InitIterator, IteratorOK
<1> QED BY <1>2, <1>3

LEMMA RestType ==
  ASSUME NEW bm, NEW c \in Nat
  PROVE  /\ Rest(bm, c) = { b \in Nat : b \div SizeBit = c \div SizeBit /\ b \notin bm /\ b >= c }
         /\ c \notin bm => c \in Rest(bm, c)
<1>1. c \div SizeBit \in Nat
  BY WordAssumption, DivMonotone
<1>2. \A b : b \in FilledBits(bm, c \div SizeBit) <=> b \in Nat /\ b \div SizeBit = c \div SizeBit /\ b \notin bm
  BY <1>1, FilledBitsAre
<1> QED BY <1>2 DEF Rest

\* The bits behind c once the buckets of G have been emptied, where G lies at
\* or below c.
LEMMA RestBehind ==
  ASSUME NEW bm, NEW c \in Nat, NEW G, \A g \in G : g \in Nat /\ g =< c
  PROVE  Rest(bm, c) \ {c} = { x \in FilledBits(bm \cup G, c \div SizeBit) : x > c }
<1>1. c \div SizeBit \in Nat
  BY WordAssumption, DivMonotone
<1>2. \A b : b \in FilledBits(bm \cup G, c \div SizeBit)
          <=> b \in Nat /\ b \div SizeBit = c \div SizeBit /\ b \notin bm /\ b \notin G
  BY <1>1, FilledBitsAre
<1>3. \A b : b \in Rest(bm, c) <=> b \in Nat /\ b \div SizeBit = c \div SizeBit /\ b \notin bm /\ b >= c
  BY RestType
<1>4. \A x \in Nat : (x >= c /\ x # c <=> x > c) /\ (x > c => x \notin G)
  OBVIOUS
<1>5. \A x : x \in Rest(bm, c) \ {c} <=> x \in FilledBits(bm \cup G, c \div SizeBit) /\ x > c
  BY <1>2, <1>3, <1>4
<1> QED BY <1>5

\* ++ over a bitmask that has lost, since the copy was exact, nothing but
\* buckets at or below c.
LEMMA AdvanceFromRest ==
  ASSUME num_buckets \in Nat, NEW bm \in SUBSET Buckets, NEW c \in Buckets, c \notin bm,
         NEW i, NEW G, \A g \in G : g \in Buckets /\ g =< c,
         InitIterator(i, bm \cup G) = Iterator(c, First(c), Rest(bm, c))
  PROVE  IsNext(Advance(i, bm \cup G), bm \cup G, c)
<1>0. c \in Nat /\ bm \cup G \in SUBSET Buckets /\ \A g \in G : g \in Nat /\ g =< c
  <2>1. \A g \in Buckets : g \in Nat
    BY DEF Buckets
  <2>2. bm \cup G \subseteq Buckets
    OBVIOUS
  <2> QED BY <2>1, <2>2
<1>1. \A b : b \in Rest(bm, c) <=> b \in Nat /\ b \div SizeBit = c \div SizeBit /\ b \notin bm /\ b >= c
  BY <1>0, RestType
<1>2. Rest(bm, c) \in SUBSET Nat /\ c \in Rest(bm, c) /\ \A x \in Rest(bm, c) : c =< x
  BY <1>0, <1>1
<1>3. Rest(bm, c) \ {c} = { x \in FilledBits(bm \cup G, c \div SizeBit) : x > c }
  BY <1>0, RestBehind
<1> QED BY <1>0, <1>2, <1>3, AdvanceOK

LEMMA BeginOK ==
  ASSUME num_buckets \in Nat \ {0}, bitmask \in SUBSET Buckets
  PROVE  /\ Begin.bucket \in 0 .. num_buckets /\ Begin.bucket \notin bitmask
         /\ Begin = Iterator(Begin.bucket, Begin.from, Begin.bmask)
         /\ Begin.from # Lazy => Begin.from = First(Begin.bucket)
                                 /\ Begin.bmask = Rest(bitmask, Begin.bucket)
         /\ \A b \in Filled : b >= Begin.bucket
<1>0. /\ SizeBit \in Nat \ {0} /\ num_buckets \notin bitmask
      /\ \A b \in bitmask : b \in Nat /\ b < num_buckets
      /\ \A b \in Filled : b \in Nat /\ b < num_buckets /\ b \notin bitmask
  BY WordAssumption DEF Buckets, Filled
<1>1. FilledBits(bitmask, 0) = { b \in 0 .. SizeBit - 1 : b \notin bitmask }
  BY <1>0 DEF FilledBits
<1>2. CASE FilledBits(bitmask, 0) # {}
  <2> DEFINE n == Lowest(FilledBits(bitmask, 0))
  <2>1. n \in FilledBits(bitmask, 0) /\ \A y \in FilledBits(bitmask, 0) : n =< y
    BY <1>1, <1>2, LowestIsIn
  <2> HIDE DEF n
  <2>2. n \in Nat /\ n < SizeBit /\ n \notin bitmask
    BY <1>0, <1>1, <2>1
  <2>3. \A b \in Nat : b \notin bitmask => n =< b
    BY <1>0, <1>1, <2>1, <2>2
  <2>4. Begin = Iterator(n, Lazy, {})
    BY <1>2 DEF Begin, n
  <2>5. Begin.bucket = n /\ Begin.from = Lazy /\ Begin.bmask = {}
    BY <2>4, IteratorFields
  <2> QED BY <1>0, <2>2, <2>3, <2>4, <2>5
<1>3. CASE FilledBits(bitmask, 0) = {}
  <2> DEFINE c == SizeBit - 1
             i == Iterator(c, Lazy, {})
  <2>1. c \in Nat /\ c \in bitmask /\ c \in Buckets /\ c < num_buckets
    BY <1>0, <1>1, <1>3
  <2>2. c \div SizeBit = 0 /\ First(c) = 0
    BY <1>0 DEF First
  <2>3. InitIterator(i, bitmask) = Iterator(c, First(c), {})
    <3>1. i.from = Lazy /\ i.bucket = c
      BY IteratorFields
    <3>2. { b \in FilledBits(bitmask, c \div SizeBit) : b >= c } = {}
      BY <1>3, <2>2
    <3> HIDE DEF i, c
    <3> QED BY <2>1, <3>1, <3>2 DEF InitIterator, First
  <2>4. Begin = GotoNext(Iterator(c, First(c), {}), bitmask)
    BY <1>3, <2>3 DEF Begin
  <2>5. IsNext(Begin, bitmask, c)
    <3>1. \A x \in FilledBits(bitmask, c \div SizeBit) : ~ (x > c)
      BY <1>3, <2>2
    <3> HIDE DEF c
    <3> QED BY <2>1, <2>4, <3>1, NextWord
  <2>6. /\ Begin = Iterator(Begin.bucket, First(Begin.bucket), Rest(bitmask, Begin.bucket))
        /\ Begin.bucket \in c + 1 .. num_buckets /\ Begin.bucket \notin bitmask
        /\ \A x \in c + 1 .. Begin.bucket - 1 : x \in bitmask
    BY <2>5 DEF IsNext
  <2>7. Begin.from = First(Begin.bucket) /\ Begin.bmask = Rest(bitmask, Begin.bucket)
    BY <2>6, IteratorFields
  <2>8. \A b \in Filled : b >= Begin.bucket
    <3>1. \A b \in Filled : b > c
      BY <1>0, <1>1, <1>3
    <3>2. Begin.bucket \in Nat
      BY <2>1, <2>6
    <3> QED BY <1>0, <2>1, <2>6, <3>1, <3>2
  <2>9. Begin.bucket \in 0 .. num_buckets
    BY <2>1, <2>6
  <2> QED BY <2>6, <2>7, <2>8, <2>9
<1> QED BY <1>2, <1>3

\* Where ++ leaves the iterator of a loop.
LEMMA IteratorWentOn ==
  ASSUME num_buckets \in Nat, num_buckets' = num_buckets, NEW c \in Buckets,
         IsNext(it', bitmask', c)
  PROVE  IteratorOK' /\ \A b \in Filled' : b > c => b >= it'.bucket
<1>0. c \in Nat /\ c < num_buckets
  BY DEF Buckets
<1>1. /\ it' = Iterator(it'.bucket, First(it'.bucket), Rest(bitmask', it'.bucket))
      /\ it'.bucket \in c + 1 .. num_buckets /\ it'.bucket \notin bitmask'
      /\ \A x \in c + 1 .. it'.bucket - 1 : x \in bitmask'
  BY DEF IsNext
<1>2. it'.from = First(it'.bucket) /\ it'.bmask = Rest(bitmask', it'.bucket)
  BY <1>1, IteratorFields
<1>3. it'.bucket \in 0 .. num_buckets /\ it'.bucket \in Nat
  BY <1>0, <1>1
<1>4. IteratorOK'
  BY <1>1, <1>2, <1>3 DEF IteratorOK
<1>5. \A b \in Filled' : b \in Nat /\ b \notin bitmask'
  BY DEF Filled, Buckets
<1>6. \A b \in Filled' : b > c => b >= it'.bucket
  BY <1>0, <1>1, <1>3, <1>5
<1> QED BY <1>4, <1>6

-----------------------------------------------------------------------------
(* What the loops do to the table.                                         *)

\* erase_bucket empties one bucket, not always the one it was given; every
\* other bucket keeps its key, but for one: where the second of a chain goes.
LEMMA EraseMoves ==
  ASSUME TableOK, NEW b \in Filled, EraseBucket(b)
  PROVE  \E freed \in Filled :
           /\ bitmask' = bitmask \cup {freed}
           /\ \A c \in Filled \ {freed, b} : pairs'[c].first = pairs[c].first
<1>0. /\ Link[b] \in Filled /\ pairs \in [Buckets -> Entry \cup {NoPair}]
      /\ \A c \in Filled : c \in Buckets
  BY FilledType DEF TableOK
<1>1. CASE RemoveAlone(b)
  <2>1. bitmask' = bitmask \cup {b} /\ pairs' = [pairs EXCEPT ![b] = NoPair]
    BY <1>1 DEF RemoveAlone
  <2>2. \A c \in Filled \ {b} : pairs'[c].first = pairs[c].first
    BY <1>0, <2>1
  <2> QED BY <2>1, <2>2
<1>2. CASE RemoveHead(b)
  <2>1. PICK n \in Filled : /\ bitmask' = bitmask \cup {n}
                            /\ \E e : pairs' = [pairs EXCEPT ![b] = e, ![n] = NoPair]
    BY <1>0, <1>2 DEF RemoveHead
  <2>2. \A c \in Filled \ {n, b} : pairs'[c] = pairs[c]
    BY <1>0, <2>1
  <2> QED BY <2>1, <2>2
<1>3. CASE Unlink(b)
  <2>1. \E p, e : /\ bitmask' = bitmask \cup {b} /\ e.first = pairs[p].first
                      /\ pairs' = [pairs EXCEPT ![p] = e, ![b] = NoPair]
    <3> DEFINE p == FindPrevBucket(Home[b], b)
               e == Pair(pairs[p].first, pairs[p].second, IF Link[b] = b THEN p ELSE Link[b])
    <3>1. e.first = pairs[p].first
      BY DEF Pair
    <3>2. bitmask' = bitmask \cup {b} /\ pairs' = [pairs EXCEPT ![p] = e, ![b] = NoPair]
      BY <1>3 DEF Unlink
    <3> HIDE DEF p, e
    <3> QED BY <3>1, <3>2
  <2>2. PICK p, e : /\ bitmask' = bitmask \cup {b} /\ e.first = pairs[p].first
                    /\ pairs' = [pairs EXCEPT ![p] = e, ![b] = NoPair]
    BY <2>1
  <2>3. \A c \in Filled \ {b} : pairs'[c] = IF c = p THEN e ELSE pairs[c]
    BY <1>0, <2>2
  <2>4. \A c \in Filled \ {b} : pairs'[c].first = pairs[c].first
    BY <2>2, <2>3
  <2> QED BY <2>2, <2>4
<1> QED BY <1>1, <1>2, <1>3 DEF EraseBucket

\* The bucket that erase(iterator) is told has been given up.
LEMMA FreedIs ==
  ASSUME NEW f, f \notin bitmask, bitmask' = bitmask \cup {f}
  PROVE  (CHOOSE b \in bitmask' : b \notin bitmask) = f
<1>1. \A b : b \in bitmask' /\ b \notin bitmask <=> b = f
  OBVIOUS
<1>2. \E b \in bitmask' : b \notin bitmask
  BY <1>1
<1> DEFINE g == CHOOSE b \in bitmask' : b \notin bitmask
<1>3. g \in bitmask' /\ g \notin bitmask
  BY <1>2
<1> HIDE DEF g
<1>4. g = f
  BY <1>1, <1>3
<1> QED BY <1>4 DEF g

\* erase(iterator): the iterator stays at its bucket if an element was moved
\* there, and is at the next filled one if not.
LEMMA AfterEraseOK ==
  ASSUME num_buckets \in Nat, num_buckets' = num_buckets, bitmask \in SUBSET Buckets,
         IteratorOK, it.bucket # num_buckets, NEW f \in Filled,
         bitmask' = bitmask \cup {f}, it' = AfterErase(it, f)
  PROVE  /\ IteratorOK'
         /\ f # it.bucket => it'.bucket = it.bucket
         /\ f = it.bucket => \A b \in Filled' : b > it.bucket => b >= it'.bucket
<1> DEFINE c == it.bucket
           R == Rest(bitmask, c)
           j == Iterator(c, First(c), R)
<1>0. /\ c \in Buckets /\ c \in Nat /\ c \notin bitmask /\ c \in 0 .. num_buckets
      /\ f \in Buckets /\ f \in Nat /\ f \notin bitmask
  BY DEF IteratorOK, Buckets, Filled
<1>1. InitIterator(it, bitmask) = j
  BY CopyTaken
<1>2. j.bucket = c /\ j.from = First(c) /\ j.bmask = R /\ First(c) # Lazy
  BY <1>0, IteratorFields, FirstType
<1>3. CASE f = c
  <2>1. it' = Advance(j, bitmask')
    BY <1>1, <1>2, <1>3 DEF AfterErase
  <2>2. InitIterator(j, bitmask') = j
    BY <1>2 DEF InitIterator
  <2>3. IsNext(it', bitmask', c)
    <3>1. \A g \in {f} : g \in Buckets /\ g =< c
      BY <1>0, <1>3
    <3>2. InitIterator(j, bitmask \cup {f}) = Iterator(c, First(c), Rest(bitmask, c))
      BY <2>2
    <3> HIDE DEF c, j, R
    <3> QED BY <1>0, <2>1, <3>1, <3>2, AdvanceFromRest
  <2> HIDE DEF c, j, R
  <2>4. IteratorOK' /\ \A b \in Filled' : b > c => b >= it'.bucket
    BY <1>0, <2>3, IteratorWentOn
  <2> QED BY <1>3, <2>4 DEF c
<1>4. CASE f # c
  <2> DEFINE S == IF c \div SizeBit = f \div SizeBit THEN R \ {f} ELSE R
  <2>1. it' = Iterator(c, First(c), S)
    <3>1. it' = [j EXCEPT !.bmask = IF j.bucket \div SizeBit = f \div SizeBit THEN @ \ {f} ELSE @]
      BY <1>1, <1>2, <1>4 DEF AfterErase
    <3>2. it' = [j EXCEPT !.bmask = S]
      BY <1>2, <3>1
    <3> HIDE DEF S, R, c
    <3> QED BY <3>2, IteratorStruck DEF j
  <2>2. S = Rest(bitmask', c)
    <3>1. \A b : b \in R <=> b \in Nat /\ b \div SizeBit = c \div SizeBit /\ b \notin bitmask /\ b >= c
      BY <1>0, RestType
    <3>2. \A b : b \in Rest(bitmask', c)
             <=> b \in Nat /\ b \div SizeBit = c \div SizeBit /\ b \notin bitmask' /\ b >= c
      BY <1>0, RestType
    <3> HIDE DEF R
    <3> QED BY <3>1, <3>2
  <2> HIDE DEF S, R, j
  <2>3. it'.bucket = c /\ it'.from = First(c) /\ it'.bmask = S
    BY <2>1, IteratorFields
  <2> HIDE DEF c
  <2>4. IteratorOK'
    BY <1>0, <1>4, <2>1, <2>2, <2>3 DEF IteratorOK
  <2> QED BY <1>4, <2>3, <2>4 DEF c
<1> QED BY <1>3, <1>4

-----------------------------------------------------------------------------
(* The invariant of the loops.                                             *)

\* erase_if: everything unseen is still ahead, and only what the predicate
\* holds for has gone.
Judged ==
  /\ \A b \in Filled : pairs[b].first \notin seen => b >= it.bucket
  /\ TableElements \subseteq start
  /\ \A e \in start : e[1] \notin want => e \in TableElements

\* clearkv: the chains are not looked after, but nothing is left behind.
Clearing ==
  /\ TypeOK /\ CountsAgree /\ RehashLosesNothing /\ OldBounded /\ TodoMatches
  /\ \A b \in Filled : b >= it.bucket

IterInv ==
  /\ loop \in {"none", "erase_if", "clearkv"}
  /\ loop # "clearkv" => Inv
  /\ loop = "clearkv" => Clearing
  /\ loop # "none" => pc = "ready" /\ IteratorOK
  /\ loop = "erase_if" => Judged

LEMMA LoopContext ==
  IterInv => /\ num_buckets \in Nat \ {0} /\ bitmask \in SUBSET Buckets
             /\ \A b \in Filled : b \in Nat /\ b \in Buckets /\ b \notin bitmask
<1> SUFFICES ASSUME IterInv
             PROVE  /\ num_buckets \in Nat \ {0} /\ bitmask \in SUBSET Buckets
                    /\ \A b \in Filled : b \in Nat /\ b \in Buckets /\ b \notin bitmask
  OBVIOUS
<1>1. TypeOK
  BY DEF IterInv, Inv, Clearing
<1> QED BY <1>1, BucketAssumption DEF TypeOK, Filled, Buckets

\* Every bucket that is not empty holds a pair; with none left, all are empty.
LEMMA NothingFilled ==
  ASSUME TypeOK, CountsAgree
  PROVE  /\ IsFiniteSet(Filled)
         /\ num_filled = 0 => Filled = {} /\ EmptyTable
<1>0. num_buckets \in Nat
  BY BucketAssumption DEF TypeOK
<1>1. IsFiniteSet(Buckets)
  BY <1>0, FS_Interval DEF Buckets
<1>2. IsFiniteSet(Filled)
  BY <1>1, FS_Subset DEF Filled
<1>3. ASSUME num_filled = 0 PROVE Filled = {} /\ EmptyTable
  <2>1. Filled = {}
    BY <1>2, <1>3, FS_EmptySet DEF CountsAgree
  <2>2. bitmask = Buckets
    BY <2>1 DEF TypeOK, Filled
  <2>3. \A b \in Buckets : pairs[b] = NoPair
    BY <2>2 DEF CountsAgree
  <2>4. pairs = [b \in Buckets |-> NoPair]
    BY <2>3 DEF TypeOK
  <2> QED BY <1>3, <2>1, <2>2, <2>4 DEF EmptyTable, TypeOK
<1> QED BY <1>2, <1>3

LEMMA LoopStartOK ==
  ASSUME IterInv, NEW op \in {"erase_if", "clearkv"}, NEW keys, LoopStart(op, keys)
  PROVE  IterInv'
<1>0. /\ Inv /\ pc = "ready" /\ loop' = op /\ it' = Begin /\ seen' = {} /\ start' = TableElements
      /\ UNCHANGED vars
  BY DEF LoopStart, IterInv
<1>1. Inv' /\ pc' = "ready"
  BY <1>0, StutterOK DEF vars
<1>2. /\ UNCHANGED <<bitmask, num_buckets, pairs>>
      /\ Filled' = Filled /\ TableElements' = TableElements
  BY <1>0 DEF vars, table, probe, Filled, Buckets, TableElements
<1>3. /\ Begin.bucket \in 0 .. num_buckets /\ Begin.bucket \notin bitmask
      /\ Begin = Iterator(Begin.bucket, Begin.from, Begin.bmask)
      /\ Begin.from # Lazy => Begin.from = First(Begin.bucket)
                              /\ Begin.bmask = Rest(bitmask, Begin.bucket)
      /\ \A b \in Filled : b >= Begin.bucket
  BY LoopContext, BeginOK
<1>4. IteratorOK'
  <2> HIDE DEF Begin
  <2> QED BY <1>0, <1>2, <1>3 DEF IteratorOK
<1>5. Judged'
  BY <1>0, <1>2, <1>3 DEF Judged
<1>6. Clearing'
  BY <1>0, <1>1, <1>2, <1>3 DEF Clearing, Inv
<1> QED BY <1>0, <1>1, <1>4, <1>5, <1>6 DEF IterInv

\* Where a loop that is not over is.
LEMMA LoopHere ==
  ASSUME IterInv, loop # "none", it.bucket # End
  PROVE  /\ it.bucket \in Filled /\ it.bucket \in Buckets /\ it.bucket \in Nat
         /\ it.bucket \notin bitmask
         /\ InitIterator(it, bitmask)
              = Iterator(it.bucket, First(it.bucket), Rest(bitmask, it.bucket))
<1>1. IteratorOK /\ it.bucket \in 0 .. num_buckets /\ it.bucket \notin bitmask /\ num_buckets \in Nat
  BY LoopContext DEF IterInv, IteratorOK
<1>2. it.bucket \in Buckets
  BY <1>1 DEF End, Buckets
<1> QED BY <1>1, <1>2, CopyTaken DEF End, Filled, Buckets

LEMMA KeepOK ==
  ASSUME IterInv, Keep
  PROVE  IterInv'
<1>0. /\ loop = "erase_if" /\ loop' = loop /\ it.bucket # End /\ it' = Advance(it, bitmask)
      /\ seen' = seen \cup {Here} /\ UNCHANGED <<vars, want, start>>
      /\ Inv /\ Judged /\ pc = "ready"
  BY DEF Keep, IterInv
<1>1. Inv' /\ pc' = "ready"
  BY <1>0, StutterOK DEF vars
<1>2. /\ UNCHANGED <<bitmask, num_buckets, pairs>>
      /\ Filled' = Filled /\ TableElements' = TableElements
  BY <1>0 DEF vars, table, probe, Filled, Buckets, TableElements
<1>c. PICK c \in Buckets : c = it.bucket /\ c \in Filled /\ c \in Nat /\ c \notin bitmask
                           /\ InitIterator(it, bitmask) = Iterator(c, First(c), Rest(bitmask, c))
  BY <1>0, LoopHere
<1>3. IsNext(Advance(it, bitmask), bitmask, c)
  <2> DEFINE G == {}
  <2>1. bitmask \cup G = bitmask /\ \A g \in G : g \in Buckets /\ g =< c
    OBVIOUS
  <2> HIDE DEF G
  <2>2. IsNext(Advance(it, bitmask \cup G), bitmask \cup G, c)
    BY <1>c, <2>1, LoopContext, AdvanceFromRest
  <2> QED BY <2>1, <2>2
<1>4. IteratorOK' /\ \A b \in Filled' : b > c => b >= it'.bucket
  BY <1>0, <1>2, <1>3, LoopContext, IteratorWentOn
<1>5. Judged'
  <2>1. ASSUME NEW b \in Filled, pairs[b].first \notin seen' PROVE b >= it'.bucket
    <3>1. b >= c /\ b # c /\ b \in Nat
      BY <1>0, <1>c, <2>1, LoopContext DEF Judged, Here
    <3> QED BY <1>2, <1>c, <1>4, <3>1
  <2> QED BY <2>1, <1>0, <1>2 DEF Judged
<1> QED BY <1>0, <1>1, <1>4, <1>5 DEF IterInv

LEMMA EraseHereOK ==
  ASSUME IterInv, EraseHere
  PROVE  IterInv'
<1>0. /\ loop = "erase_if" /\ loop' = loop /\ it.bucket # End /\ Here \in want
      /\ EraseBucket(it.bucket)
      /\ it' = AfterErase(it, CHOOSE b \in bitmask' : b \notin bitmask)
      /\ UNCHANGED <<ret, want, start, seen>>
      /\ Inv /\ Judged /\ IteratorOK /\ pc = "ready"
  BY DEF EraseHere, IterInv
<1>c. PICK c \in Filled : c = it.bucket /\ c \in Nat
  BY <1>0, LoopHere
<1>1. Inv' /\ TableElements' = TableElements \ {<<pairs[c].first, pairs[c].second>>}
  <2>1. ret' \in BOOLEAN
    BY <1>0 DEF Inv, TypeOK
  <2>2. TableOK
    BY <1>0, InvTable
  <2>3. Removed(c)
    BY <1>0, <1>c, <2>2, EraseBucketOK
  <2>4. Inv'
    BY <1>0, <1>c, <2>1, EraseOK
  <2> QED BY <2>3, <2>4 DEF Removed
<1>2. num_buckets' = num_buckets /\ pc' = "ready"
  BY <1>0 DEF EraseBucket
<1>3. PICK f \in Filled :
        /\ bitmask' = bitmask \cup {f}
        /\ \A b \in Filled \ {f, c} : pairs'[b].first = pairs[b].first
  BY <1>0, <1>c, InvTable, EraseMoves
<1>4. f \notin bitmask /\ Filled' = Filled \ {f}
  BY <1>2, <1>3 DEF Filled, Buckets
<1>5. it' = AfterErase(it, f)
  BY <1>0, <1>3, <1>4, FreedIs
<1>6. /\ IteratorOK'
      /\ f # c => it'.bucket = c
      /\ f = c => \A b \in Filled' : b > c => b >= it'.bucket
  BY <1>0, <1>c, <1>2, <1>3, <1>5, LoopContext, AfterEraseOK DEF End
<1>7. ASSUME NEW b \in Filled', pairs'[b].first \notin seen' PROVE b >= it'.bucket
  <2>1. b \in Filled /\ b # f /\ b \in Nat
    BY <1>4, LoopContext
  <2>2. b = c \/ b >= c
    BY <1>0, <1>c, <1>3, <1>7, <2>1 DEF Judged
  <2> QED BY <1>c, <1>6, <2>1, <2>2
<1>8. TableElements' \subseteq start' /\ \A e \in start' : e[1] \notin want' => e \in TableElements'
  <2>1. \A e \in start : e[1] \notin want => e # <<pairs[c].first, pairs[c].second>>
    BY <1>0, <1>c DEF Here
  <2> QED BY <2>1, <1>0, <1>1 DEF Judged
<1>9. Judged'
  BY <1>7, <1>8 DEF Judged
<1> QED BY <1>0, <1>1, <1>2, <1>6, <1>9 DEF IterInv

LEMMA ClearHereOK ==
  ASSUME IterInv, ClearHere
  PROVE  IterInv'
<1>0. /\ loop = "clearkv" /\ loop' = loop /\ num_filled > 0
      /\ bitmask' = bitmask \cup {it.bucket}
      /\ pairs' = [pairs EXCEPT ![it.bucket] = NoPair]
      /\ num_filled' = num_filled - 1
      /\ it' = Advance(InitIterator(it, bitmask), bitmask')
      /\ UNCHANGED <<last, num_buckets, mlf, old, old_filled, todo, ret, pc>>
      /\ Clearing /\ IteratorOK /\ pc = "ready"
  BY DEF ClearHere, IterInv, moving
<1>1. IsFiniteSet(Filled) /\ num_filled = Cardinality(Filled) /\ Filled # {}
  <2>1. IsFiniteSet(Filled) /\ num_filled = Cardinality(Filled)
    BY <1>0, NothingFilled DEF Clearing, CountsAgree
  <2> QED BY <2>1, <1>0, FS_EmptySet
<1>2. it.bucket # End
  <2>1. \A b \in Filled : b < num_buckets /\ b >= it.bucket /\ b \in Nat
    BY <1>0, LoopContext DEF Clearing, Buckets
  <2>2. it.bucket \in Nat /\ num_buckets \in Nat
    BY <1>0, LoopContext DEF IteratorOK
  <2> QED BY <2>1, <2>2, <1>1 DEF End
<1>c. PICK c \in Buckets : c = it.bucket /\ c \in Filled /\ c \in Nat /\ c \notin bitmask
                           /\ InitIterator(it, bitmask) = Iterator(c, First(c), Rest(bitmask, c))
  BY <1>0, <1>2, LoopHere
<1>3. Filled' = Filled \ {c}
  BY <1>0, <1>c DEF Filled, Buckets
<1>4. IteratorOK' /\ \A b \in Filled' : b > c => b >= it'.bucket
  <2> DEFINE j == Iterator(c, First(c), Rest(bitmask, c))
  <2>1. InitIterator(j, bitmask') = j
    <3>1. j.from = First(c)
      BY IteratorFields
    <3>2. First(c) # Lazy
      BY <1>c, FirstType
    <3> QED BY <3>1, <3>2 DEF InitIterator
  <2>2. it' = Advance(j, bitmask \cup {c}) /\ bitmask' = bitmask \cup {c}
    BY <1>0, <1>c
  <2>3. InitIterator(j, bitmask \cup {c}) = Iterator(c, First(c), Rest(bitmask, c))
    BY <2>1, <2>2
  <2> HIDE DEF j
  <2>4. \A g \in {c} : g \in Buckets /\ g =< c
    BY <1>c
  <2>5. IsNext(it', bitmask', c)
    BY <1>c, <2>2, <2>3, <2>4, LoopContext, AdvanceFromRest
  <2> QED BY <1>0, <2>5, LoopContext, IteratorWentOn
<1>5. CountsAgree'
  <2>1. \A b \in Buckets' : b \in bitmask' <=> pairs'[b] = NoPair
    <3>1. Buckets' = Buckets
      BY <1>0 DEF Buckets
    <3>2. \A b \in Buckets : pairs'[b] = IF b = c THEN NoPair ELSE pairs[b]
      BY <1>0, <1>c DEF Clearing, TypeOK
    <3> QED BY <3>1, <3>2, <1>0, <1>c DEF Clearing, CountsAgree
  <2>2. Cardinality(Filled') = Cardinality(Filled) - 1
    BY <1>1, <1>3, <1>c, FS_RemoveElement
  <2> QED BY <2>1, <2>2, <1>0, <1>1 DEF CountsAgree
<1>6. TypeOK'
  <2>1. Buckets' = Buckets /\ QMask' = QMask
    BY <1>0 DEF Buckets, QMask
  <2>2. bitmask' \subseteq Buckets' /\ pairs' \in [Buckets' -> Entry \cup {NoPair}]
    BY <1>0, <1>c, <2>1 DEF Clearing, TypeOK
  <2>3. num_filled' \in Nat
    BY <1>0 DEF Clearing, TypeOK
  <2> QED BY <2>1, <2>2, <2>3, <1>0 DEF Clearing, TypeOK
<1>7. RehashLosesNothing' /\ OldBounded' /\ TodoMatches'
  BY <1>0 DEF Clearing, RehashLosesNothing, OldBounded, TodoMatches
<1>8. \A b \in Filled' : b >= it'.bucket
  <2>1. \A b \in Filled' : b >= c /\ b # c /\ b \in Nat
    BY <1>0, <1>3, <1>c, LoopContext DEF Clearing
  <2> QED BY <2>1, <1>4, <1>c
<1>9. Clearing'
  BY <1>5, <1>6, <1>7, <1>8 DEF Clearing
<1> QED BY <1>0, <1>4, <1>9 DEF IterInv

LEMMA LoopDoneOK ==
  ASSUME IterInv, LoopDone
  PROVE  IterInv'
<1>0. loop' = "none" /\ UNCHANGED vars
  BY DEF LoopDone
<1>1. Inv
  <2>1. CASE loop = "erase_if"
    BY <2>1 DEF IterInv
  <2>2. CASE loop = "clearkv" /\ num_filled = 0
    <3>1. Clearing /\ pc = "ready"
      BY <2>2 DEF IterInv
    <3>2. EmptyTable /\ Filled = {}
      BY <2>2, <3>1, NothingFilled DEF Clearing
    <3>3. TableOK
      BY <3>2, EmptyTableOK
    <3>4. DOMAIN old = {}
      BY <3>1 DEF Clearing, RehashLosesNothing
    <3>5. KeysUnique
      BY <3>2, <3>4 DEF KeysUnique
    <3>6. todo = <<>>
      BY <3>1 DEF Clearing, TodoMatches
    <3>7. UniqueIsNew /\ Room
      BY <3>1, <3>6 DEF UniqueIsNew, Room
    <3> QED BY <3>1, <3>3, <3>5, <3>7 DEF Inv, Clearing, TableOK
  <2> QED BY <2>1, <2>2 DEF LoopDone
<1>2. Inv'
  BY <1>0, <1>1, StutterOK
<1> QED BY <1>0, <1>2 DEF IterInv

LEMMA IterStutterOK ==
  ASSUME IterInv, UNCHANGED iterVars
  PROVE  IterInv'
<1>0. /\ UNCHANGED vars /\ UNCHANGED <<loop, it, want, start, seen>>
      /\ UNCHANGED <<bitmask, pairs, num_filled, last, num_buckets, mlf, old, old_filled, todo, ret, pc>>
  BY DEF iterVars, iterating, vars, table, probe, moving
<1>1. loop # "clearkv" => Inv'
  BY <1>0, StutterOK DEF IterInv
<1>2. Filled' = Filled /\ TableElements' = TableElements /\ Buckets' = Buckets /\ QMask' = QMask
  BY <1>0 DEF Filled, Buckets, TableElements, QMask
<1>3. Clearing => Clearing'
  BY <1>0, <1>2 DEF Clearing, TypeOK, CountsAgree, RehashLosesNothing, OldBounded, TodoMatches
<1>4. (IteratorOK => IteratorOK') /\ (Judged => Judged')
  BY <1>0, <1>2 DEF IteratorOK, Judged
<1> QED BY <1>0, <1>1, <1>3, <1>4 DEF IterInv

LEMMA IterNextOK ==
  ASSUME IterInv, IterNext
  PROVE  IterInv'
<1>1. CASE loop = "none" /\ Next /\ UNCHANGED iterating
  <2>1. loop' = "none" /\ Inv
    BY <1>1 DEF iterating, IterInv
  <2> QED BY <1>1, <2>1, NextOK DEF IterInv
<1>2. CASE \E keys \in SUBSET Key : EraseIf(keys)
  BY <1>2, LoopStartOK DEF EraseIf
<1>3. CASE ClearKV
  BY <1>3, LoopStartOK DEF ClearKV
<1>4. CASE LoopStep
  BY <1>4, KeepOK, EraseHereOK, ClearHereOK, LoopDoneOK DEF LoopStep
<1> QED BY <1>1, <1>2, <1>3, <1>4 DEF IterNext

-----------------------------------------------------------------------------
(* The theorems.                                                           *)

\* Every step of every call and of every loop keeps the invariant.
THEOREM IterInvHolds == FairIterSpec => []IterInv
<1>1. IterInit => IterInv
  BY InitOK DEF IterInit, IterInv
<1>2. IterInv /\ [IterNext]_iterVars => IterInv'
  BY IterNextOK, IterStutterOK
<1> QED BY <1>1, <1>2, PTL DEF FairIterSpec, IterSpec

\* A loop only ever reads or destroys an element that is alive, and its copy of
\* a word says what the bitmask says, whatever its erasures move.
THEOREM IteratorAlwaysLive == FairIterSpec => []IteratorIsLive
<1>1. IterInv => IteratorIsLive
  <2> SUFFICES ASSUME IterInv, loop # "none" PROVE IteratorIsLive
    BY DEF IteratorIsLive, IterInv
  <2>1. it.bucket = End \/ it.bucket \in Filled
    BY LoopHere
  <2>2. loop = "clearkv" /\ num_filled > 0 => it.bucket \in Filled
    <3> SUFFICES ASSUME loop = "clearkv", num_filled > 0 PROVE it.bucket # End
      BY LoopHere
    <3>1. Clearing /\ IteratorOK
      BY DEF IterInv
    <3>2. Filled # {}
      BY <3>1, FS_EmptySet DEF Clearing, CountsAgree
    <3>3. \A b \in Filled : b < num_buckets /\ b >= it.bucket /\ b \in Nat
      BY <3>1, LoopContext DEF Clearing, Buckets
    <3>4. it.bucket \in Nat /\ num_buckets \in Nat
      BY <3>1, LoopContext DEF IteratorOK
    <3> QED BY <3>2, <3>3, <3>4 DEF End
  <2>3. ASSUME it.from # Lazy
        PROVE  it.bmask = { b \in FilledBits(bitmask, it.from \div SizeBit) : b >= it.bucket }
    <3>1. it.bucket \in Nat /\ it.from = First(it.bucket) /\ it.bmask = Rest(bitmask, it.bucket)
      BY <2>3, LoopContext DEF IterInv, IteratorOK
    <3>2. it.from \div SizeBit = it.bucket \div SizeBit
      BY <3>1, FirstType
    <3> QED BY <3>1, <3>2 DEF Rest
  <2> QED BY <2>1, <2>2, <2>3 DEF IteratorIsLive
<1> QED BY <1>1, IterInvHolds, PTL

\* erase_if judges every element, whatever its erasures move on the way, keeps
\* every element the predicate does not hold for, and leaves sound chains.
THEOREM EraseIfAlwaysExact == FairIterSpec => []EraseIfExact
<1>1. IterInv => EraseIfExact
  <2> SUFFICES ASSUME IterInv, loop = "erase_if"
               PROVE  it.bucket =< End /\ Judged /\ ChainsSound
    BY DEF EraseIfExact, Judged
  <2>1. Judged /\ ChainsSound /\ it.bucket \in 0 .. num_buckets
    BY DEF IterInv, Inv, IteratorOK
  <2> QED BY <2>1, LoopContext DEF End
<1> QED BY <1>1, IterInvHolds, PTL
=============================================================================
