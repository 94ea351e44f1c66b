------------------------- MODULE HashTable8Theorems -------------------------
(***************************************************************************)
(* HashTable8, for every set of keys, hash function, size, load factor and *)
(* order of calls: what the steps do to the index and to the array of      *)
(* elements, the inductive invariant, and the theorems it gives.           *)
(***************************************************************************)
EXTENDS HashTable8, ChainsProofs, FiniteSetTheorems, WellFoundedInduction, TLAPS

-----------------------------------------------------------------------------
(* Arithmetic of the sizes and of the probe.                               *)

LEMMA LowestIsIn ==
  ASSUME NEW S \in SUBSET Nat, S # {}
  PROVE  Lowest(S) \in S /\ \A y \in S : Lowest(S) =< y
<1> DEFINE R == { ss \in Nat \X Nat : ss[1] < ss[2] }
<1>1. IsWellFoundedOn(R, Nat)
  BY NatLessThanWellFounded, Zenon DEF OpToRel
<1>2. \A a, b \in Nat : a < b => <<a, b>> \in R
  OBVIOUS
<1> HIDE DEF R
<1>3. PICK x \in S : \A y \in S : ~ (<<y, x>> \in R)
  BY <1>1, WFMin
<1>4. \A y \in S : x =< y
  <2> SUFFICES ASSUME NEW y \in S PROVE ~ (y < x)
    OBVIOUS
  <2> QED BY <1>2, <1>3
<1> QED BY <1>4 DEF Lowest

LEMMA ModInRange ==
  ASSUME NEW h \in Nat, NEW n \in Nat \ {0}
  PROVE  h % n \in 0 .. n - 1
OBVIOUS

LEMMA ModOfSmall ==
  ASSUME NEW n \in Nat \ {0}, NEW x \in 0 .. n - 1
  PROVE  x % n = x /\ (x + n) % n = x
OBVIOUS

\* With a load factor of at most 1, reserve asks for a bucket per element.
LEMMA RequiredSuffices ==
  ASSUME NEW n \in Nat, NEW m \in Nat, NEW f \in Nat \ {0}, m >= f
  PROVE  (n * m) \div f \in Nat /\ (n * m) \div f >= n
<1> DEFINE q == (n * m) \div f
<1>1. n * m \in Nat /\ n * m >= n * f
  OBVIOUS
<1>2. q \in Int /\ f * q =< n * m /\ n * m < f * (q + 1)
  OBVIOUS
<1>3. n * f < f * (q + 1)
  BY <1>1, <1>2
<1>4. n < q + 1
  BY <1>2, <1>3
<1> QED BY <1>2, <1>4

-----------------------------------------------------------------------------
(* The table between two steps, whatever call is running.                  *)

Sizes == num_buckets \in Nat \ {0} /\ last \in 0 .. num_buckets

\* The elements lie without gaps, each key once.
Array ==
  /\ num_filled \in Nat /\ pairs_capacity \in Nat /\ num_filled =< pairs_capacity
  /\ pairs \in [0 .. pairs_capacity - 1 -> Entry \cup {NoPair}]
  /\ \A s \in 0 .. pairs_capacity - 1 : pairs[s] # NoPair <=> s < num_filled
  /\ \A s, t \in 0 .. num_filled - 1 : pairs[s].first = pairs[t].first => s = t

\* The index names the first n slots, each in one bucket, in sound chains.
Names(n) ==
  /\ index \in [Buckets -> Index \cup {NoIndex}]
  /\ \A s \in 0 .. n - 1 : pairs[s] \in Entry
  /\ \A b \in Filled : index[b].slot \in 0 .. n - 1 /\ index[b].tag = Tag(KeyAt(b))
  /\ \A b, c \in Filled : index[b].slot = index[c].slot => b = c
  /\ \A s \in 0 .. n - 1 : \E b \in Filled : index[b].slot = s
  /\ Cardinality(Filled) = n
  /\ WellChained(Filled, Link, Home)

LEMMA MainInRange ==
  ASSUME num_buckets \in Nat \ {0}, NEW k \in Key
  PROVE  Main(k) \in Buckets /\ Tag(k) \in Nat
<1>1. Hash[k] \in Nat
  BY HashAssumption
<1>2. Hash[k] \div num_buckets \in Nat
  BY <1>1
<1> QED BY <1>1, <1>2, ModInRange DEF Main, Tag, Buckets

LEMMA FilledType ==
  ASSUME Sizes, NEW n \in Nat, Names(n)
  PROVE  /\ IsFiniteSet(Filled) /\ Filled \subseteq Buckets
         /\ \A b \in Filled : /\ index[b] \in Index /\ index[b] # NoIndex
                              /\ KeyAt(b) \in Key
                              /\ Home[b] = Main(KeyAt(b)) /\ Home[b] \in Filled
                              /\ Link[b] = index[b].next /\ Link[b] \in Filled
<1>1. IsFiniteSet(Buckets)
  BY FS_Interval DEF Sizes, Buckets
<1>2. IsFiniteSet(Filled) /\ Filled \subseteq Buckets
  BY <1>1, FS_Subset DEF Filled
<1>3. ASSUME NEW b \in Filled
      PROVE  /\ index[b] \in Index /\ index[b] # NoIndex /\ KeyAt(b) \in Key
             /\ Home[b] = Main(KeyAt(b)) /\ Home[b] \in Filled
             /\ Link[b] = index[b].next /\ Link[b] \in Filled
  <2>1. index[b] \in Index /\ index[b] # NoIndex
    BY DEF Names, Filled
  <2>2. Home[b] \in Filled /\ Link[b] \in Filled
    BY DEF Names, WellChained, HeadsAtHome, LinksStayInChain
  <2>3. KeyAt(b) \in Key
    BY DEF Names, KeyAt, Entry
  <2> QED BY <2>1, <2>2, <2>3 DEF Home, Link
<1> QED BY <1>2, <1>3

\* An index of fewer names than buckets has an empty bucket.
LEMMA RoomLeft ==
  ASSUME Sizes, NEW n \in Nat, Names(n)
  PROVE  /\ n =< num_buckets
         /\ n < num_buckets => Filled # Buckets
<1>1. IsFiniteSet(Buckets) /\ Cardinality(Buckets) = num_buckets
  BY FS_Interval DEF Sizes, Buckets
<1>2. Cardinality(Filled) =< num_buckets
  BY <1>1, FilledType, FS_Subset
<1> QED BY <1>1, <1>2 DEF Names, Sizes

\* find_empty_bucket: the probe ends, at an empty bucket, with the hint on a
\* bucket or on the sentinel behind the last one.
LEMMA ProbeFinds ==
  ASSUME Sizes, Filled # Buckets, NEW from, NEW csize
  PROVE  /\ FindEmptyBucket(from, csize) \in Buckets
         /\ index[FindEmptyBucket(from, csize)] = NoIndex
         /\ LastAfter(from, csize) \in 0 .. num_buckets
<1> DEFINE nb == num_buckets
<1>0. nb \in Nat \ {0} /\ last \in 0 .. nb
  BY DEF Sizes
<1>1. \A i \in Buckets : Turn(i) \in 1 .. nb
  <2> SUFFICES ASSUME NEW i \in Buckets PROVE Turn(i) \in 1 .. nb
    OBVIOUS
  <2>1. last + i \in Nat
    BY <1>0 DEF Buckets
  <2>2. (last + i) % nb \in 0 .. nb - 1
    BY <2>1, <1>0, ModInRange
  <2> QED BY <2>2, <1>0 DEF Turn
<1>2. ASSUME NEW t \in 1 .. nb PROVE \E i \in Buckets : Turn(i) = t
  <2> DEFINE x == t - 1
             i == IF x >= last THEN x - last ELSE x - last + nb
  <2>1. x \in 0 .. nb - 1
    BY <1>0
  <2>2. i \in Buckets /\ (last + i = x \/ last + i = x + nb)
    BY <2>1, <1>0 DEF Buckets
  <2> HIDE DEF i
  <2>3. (last + i) % nb = x
    BY <2>1, <2>2, <1>0, ModOfSmall
  <2> QED BY <2>2, <2>3, <1>0 DEF Turn
<1> DEFINE hits == { i \in Buckets : IsEmpty(Turn(i)) \/ IsEmpty(Medium(i)) }
<1>3. hits # {}
  <2>1. PICK e \in Buckets : IsEmpty(e)
    BY DEF Filled, IsEmpty
  <2>2. CASE e # 0
    <3>1. e \in 1 .. nb
      BY <2>2, <1>0 DEF Buckets
    <3>2. PICK i \in Buckets : Turn(i) = e
      BY <3>1, <1>2
    <3> QED BY <3>2, <2>1
  <2>3. CASE e = 0
    <3> DEFINE h == nb \div 2
    <3>1. h \in Nat /\ nb - h \in 1 .. nb
      BY <1>0
    <3>2. PICK i \in Buckets : Turn(i) = nb - h
      BY <3>1, <1>2
    <3>3. h + (nb - h) = 0 + nb
      BY <3>1, <1>0
    <3>4. (0 + nb) % nb = 0
      BY <1>0, ModOfSmall
    <3>5. Medium(i) = 0
      BY <3>2, <3>3, <3>4 DEF Medium
    <3> QED BY <3>5, <2>1, <2>3
  <2> QED BY <2>2, <2>3
<1>4. FirstTurn \in hits
  <2>1. hits \in SUBSET Nat
    BY <1>0 DEF Buckets
  <2> HIDE DEF hits
  <2>2. Lowest(hits) \in hits
    BY <2>1, <1>3, LowestIsIn
  <2> QED BY <2>2 DEF FirstTurn, hits
<1>5. FirstTurn \in Buckets /\ (IsEmpty(Turn(FirstTurn)) \/ IsEmpty(Medium(FirstTurn)))
  BY <1>4
<1>6. Turn(FirstTurn) \in 0 .. nb
  BY <1>5, <1>1
<1>7. ASSUME NearHits(from, csize) # {}
      PROVE  IsEmpty(Near(from, csize)[Lowest(NearHits(from, csize))])
  <2>1. NearHits(from, csize) \in SUBSET Nat
    <3>1. DOMAIN Near(from, csize) = 1 .. 2 * QuadraticProbeLength - 4
      BY DEF Near
    <3> QED BY <3>1, InputAssumption DEF NearHits
  <2>2. Lowest(NearHits(from, csize)) \in NearHits(from, csize)
    BY <2>1, <1>7, LowestIsIn
  <2> QED BY <2>2 DEF NearHits
<1>8. IsEmpty(FindEmptyBucket(from, csize))
  BY <1>5, <1>7 DEF FindEmptyBucket
<1>9. LastAfter(from, csize) \in 0 .. nb
  BY <1>0, <1>6 DEF LastAfter
<1> QED BY <1>8, <1>9 DEF IsEmpty

\* A search finds exactly the keys the index names, each in its own bucket.
LEMMA SearchExact ==
  ASSUME Sizes, Array, Names(num_filled), NEW k \in Key
  PROVE  /\ \A s \in 0 .. num_filled - 1 : pairs[s].first = k =>
              /\ FindFilledBucket(k) \in Filled /\ Meets(k)
              /\ index[FindFilledBucket(k)].slot = s
         /\ (\A s \in 0 .. num_filled - 1 : pairs[s].first # k)
              => FindFilledBucket(k) = num_buckets /\ ~ Meets(k)
<1> DEFINE hits == IF Main(k) \notin Filled THEN {} ELSE { b \in Chain(Main(k)) : Hits(k, b) }
<1>0. num_filled \in Nat /\ num_buckets \in Nat \ {0}
  BY DEF Sizes, Array
<1>1. \A b \in hits : b \in Filled /\ KeyAt(b) = k
  BY DEF Chain, Reach, Hits
<1>2. ASSUME NEW s \in 0 .. num_filled - 1, pairs[s].first = k
      PROVE  /\ FindFilledBucket(k) \in Filled /\ Meets(k)
             /\ index[FindFilledBucket(k)].slot = s
  <2>0. PICK c \in Filled : index[c].slot = s
    BY DEF Names
  <2>1. KeyAt(c) = k /\ index[c].tag = Tag(k)
    BY <1>2, <2>0 DEF Names, KeyAt
  <2>2. Home[c] = Main(k) /\ Main(k) \in Filled
    BY <2>1, <1>0, FilledType
  <2>3. c \in Chain(Main(k)) /\ Home[Main(k)] = Main(k)
    BY <2>2 DEF Names, WellChained, AllReachable, HeadsAtHome, Chain
  <2>4. c \in hits
    BY <2>1, <2>2, <2>3 DEF Hits
  <2>5. \A b \in hits : b = c
    <3> SUFFICES ASSUME NEW b \in hits PROVE b = c
      OBVIOUS
    <3>1. b \in Filled /\ pairs[index[b].slot].first = k /\ index[b].slot \in 0 .. num_filled - 1
      BY <1>1 DEF Names, KeyAt
    <3>2. index[b].slot = s
      BY <3>1, <1>2 DEF Array
    <3> QED BY <3>1, <3>2, <2>0 DEF Names
  <2>6. FindFilledBucket(k) = c
    BY <2>4, <2>5 DEF FindFilledBucket
  <2>7. c # num_buckets
    BY <1>0 DEF Filled, Buckets
  <2> QED BY <2>0, <2>3, <2>6, <2>7 DEF Meets
<1>3. ASSUME \A s \in 0 .. num_filled - 1 : pairs[s].first # k
      PROVE  FindFilledBucket(k) = num_buckets /\ ~ Meets(k)
  <2>1. hits = {}
    BY <1>1, <1>3 DEF Names, KeyAt
  <2>2. FindFilledBucket(k) = num_buckets
    BY <2>1 DEF FindFilledBucket
  <2> QED BY <2>2 DEF Meets
<1> QED BY <1>2, <1>3

\* find_slot_bucket finds the bucket that names a slot.
LEMMA SlotToBucketExact ==
  ASSUME Sizes, NEW n \in Nat, Names(n), NEW s \in 0 .. n - 1
  PROVE  SlotToBucket(s) \in Filled /\ index[SlotToBucket(s)].slot = s
<1>1. PICK c \in Filled : index[c].slot = s
  BY DEF Names
<1>2. Home[c] = Main(pairs[s].first) /\ Home[c] \in Filled
  BY <1>1, FilledType DEF KeyAt
<1>3. c \in Chain(Main(pairs[s].first))
  BY <1>2 DEF Names, WellChained, AllReachable, Chain
<1>4. Chain(Main(pairs[s].first)) \subseteq Filled
  BY DEF Chain, Reach
<1> QED BY <1>1, <1>3, <1>4 DEF SlotToBucket

-----------------------------------------------------------------------------
(* Indexing one more slot.                                                 *)

LEMMA NodeType ==
  ASSUME NEW b \in Nat, NEW s \in Nat, NEW t \in Nat
  PROVE  /\ Node(b, s, t) \in Index /\ Node(b, s, t) # NoIndex
         /\ Node(b, s, t).next = b /\ Node(b, s, t).slot = s /\ Node(b, s, t).tag = t
BY NothingAssumption DEF Node, Index

LEMMA NodeUpdated ==
  ASSUME NEW e \in Index, NEW x
  PROVE  /\ [e EXCEPT !.next = x] = Node(x, e.slot, e.tag)
         /\ [e EXCEPT !.slot = x] = Node(e.next, x, e.tag)
BY DEF Node, Index

\* A bucket that keeps what it names and gets another link, or the reverse.
LEMMA NodeKept ==
  ASSUME NEW e \in Index, NEW x \in Nat
  PROVE  /\ Node(x, e.slot, e.tag) \in Index /\ Node(x, e.slot, e.tag) # NoIndex
         /\ Node(x, e.slot, e.tag).next = x
         /\ Node(x, e.slot, e.tag).slot = e.slot /\ Node(x, e.slot, e.tag).tag = e.tag
         /\ Node(e.next, x, e.tag) \in Index /\ Node(e.next, x, e.tag) # NoIndex
         /\ Node(e.next, x, e.tag).next = e.next
         /\ Node(e.next, x, e.tag).slot = x /\ Node(e.next, x, e.tag).tag = e.tag
<1>1. e.slot \in Nat /\ e.tag \in Nat /\ e.next \in Nat
  BY DEF Index
<1> QED BY <1>1, NothingAssumption DEF Node, Index

\* Bucket x is filled and bucket y names slot n; what y named before, if
\* anything, x names now.
OneMoreName(n, x, y) ==
  /\ index' \in [Buckets -> Index \cup {NoIndex}]
  /\ Filled' = Filled \cup {x}
  /\ \A c \in Filled \ {y} : index'[c].slot = index[c].slot /\ index'[c].tag = index[c].tag
  /\ x # y => index'[x].slot = index[y].slot /\ index'[x].tag = index[y].tag
  /\ index'[y].slot = n /\ index'[y].tag = Tag(pairs'[n].first)

\* The elements named are those named before and the one of slot n.
Extends(n) ==
  /\ num_buckets' = num_buckets
  /\ \A t \in 0 .. n - 1 : pairs'[t] = pairs[t]
  /\ pairs'[n] \in Entry

LEMMA KeysStay ==
  ASSUME Sizes, NEW n \in Nat, Names(n), Extends(n),
         NEW x \in Buckets, x \notin Filled, NEW y \in Filled \cup {x},
         OneMoreName(n, x, y)
  PROVE  /\ \A c \in Filled \ {y} : KeyAt(c)' = KeyAt(c) /\ Home'[c] = Home[c]
         /\ x # y => KeyAt(x)' = KeyAt(y) /\ Home'[x] = Home[y]
         /\ KeyAt(y)' = pairs'[n].first /\ Home'[y] = Main(pairs'[n].first)
         /\ \A c \in Filled' : Link'[c] = index'[c].next
<1>1. \A c \in Filled \ {y} : KeyAt(c)' = KeyAt(c)
  BY DEF Names, Extends, OneMoreName, KeyAt
<1>2. x # y => KeyAt(x)' = KeyAt(y)
  BY DEF Names, Extends, OneMoreName, KeyAt
<1>3. KeyAt(y)' = pairs'[n].first
  BY DEF OneMoreName, KeyAt
<1>4. \A c \in Filled' : Home'[c] = Main(KeyAt(c)')
  BY DEF Home, Main, Extends
<1>5. \A c \in Filled : Home[c] = Main(KeyAt(c))
  BY DEF Home
<1>6. \A c \in Filled' : Link'[c] = index'[c].next
  BY DEF Link
<1> QED BY <1>1, <1>2, <1>3, <1>4, <1>5, <1>6 DEF OneMoreName

LEMMA NamesOneMore ==
  ASSUME Sizes, NEW n \in Nat, Names(n), Extends(n),
         NEW x \in Buckets, x \notin Filled, NEW y \in Filled \cup {x},
         OneMoreName(n, x, y), WellChained(Filled', Link', Home')
  PROVE  Names(n + 1)'
<1> DEFINE from(c) == IF c = x THEN y ELSE c
<1>0. /\ Buckets' = Buckets /\ Filled' = Filled \cup {x}
      /\ \A c \in Filled : index[c].slot \in 0 .. n - 1
  BY DEF Buckets, Extends, OneMoreName, Names
<1>1. \A c \in Filled' \ {y} :
        /\ from(c) \in Filled /\ index'[c].slot = index[from(c)].slot
        /\ index'[c].tag = index[from(c)].tag /\ KeyAt(c)' = KeyAt(from(c))
  BY <1>0, KeysStay DEF OneMoreName
<1>2. index'[y].slot = n /\ index'[y].tag = Tag(KeyAt(y)') /\ y \in Filled'
  BY <1>0, KeysStay DEF OneMoreName
<1>3. index' \in [Buckets' -> Index \cup {NoIndex}]
  BY <1>0 DEF OneMoreName
<1>4. \A s \in 0 .. n : pairs'[s] \in Entry
  BY DEF Extends, Names
<1>5. \A c \in Filled' : index'[c].slot \in 0 .. n /\ index'[c].tag = Tag(KeyAt(c)')
  BY <1>0, <1>1, <1>2 DEF Names
<1>6. \A c, d \in Filled' : index'[c].slot = index'[d].slot => c = d
  BY <1>0, <1>1, <1>2 DEF Names
<1>7. \A s \in 0 .. n : \E c \in Filled' : index'[c].slot = s
  <2> SUFFICES ASSUME NEW s \in 0 .. n PROVE \E c \in Filled' : index'[c].slot = s
    OBVIOUS
  <2>1. CASE s = n
    BY <1>2, <2>1
  <2>2. CASE s # n
    <3>1. PICK d \in Filled : index[d].slot = s
      BY <2>2 DEF Names
    <3> DEFINE c == IF d = y THEN x ELSE d
    <3>2. c \in Filled' /\ c # y
      BY <1>0
    <3>3. from(c) = d
      BY <1>0
    <3> QED BY <1>1, <3>1, <3>2, <3>3
  <2> QED BY <2>1, <2>2
<1>8. Cardinality(Filled') = n + 1
  BY <1>0, FilledType, FS_AddElement DEF Names
<1>9. \A c \in Filled' : index'[c].tag = Tag(KeyAt(c))'
  BY <1>5 DEF Tag, Extends
<1> QED BY <1>3, <1>4, <1>5, <1>6, <1>7, <1>8, <1>9 DEF Names

LEMMA AtMainNames ==
  ASSUME Sizes, NEW n \in Nat, Names(n), Extends(n),
         NEW k \in Key, pairs'[n].first = k, IndexAtMain(k, n)
  PROVE  Names(n + 1)' /\ last' \in 0 .. num_buckets
<1>1. PICK b \in Buckets : b = Main(k)
  BY MainInRange DEF Sizes
<1>2. b \notin Filled /\ index' = [index EXCEPT ![b] = Node(b, n, Tag(k))] /\ last' = last
  BY <1>1 DEF IndexAtMain
<1>3. b \in Nat /\ Tag(k) \in Nat /\ index \in [Buckets -> Index \cup {NoIndex}] /\ Buckets' = Buckets
  BY MainInRange DEF Buckets, Sizes, Names, Extends
<1>4. /\ index' \in [Buckets -> Index \cup {NoIndex}]
      /\ index'[b] = Node(b, n, Tag(k)) /\ \A c \in Buckets \ {b} : index'[c] = index[c]
  BY <1>2, <1>3, NodeType
<1>5. index'[b] # NoIndex /\ index'[b].next = b /\ index'[b].slot = n /\ index'[b].tag = Tag(k)
  BY <1>3, <1>4, NodeType
<1>6. Filled' = Filled \cup {b}
  BY <1>3, <1>4, <1>5 DEF Filled
<1>7. OneMoreName(n, b, b)
  BY <1>4, <1>5, <1>6, FilledType DEF OneMoreName
<1>8. WellChained(Filled', Link', Home')
  <2>1. /\ \A c \in Filled : Home'[c] = Home[c]
        /\ Home'[b] = b /\ Link'[b] = b
        /\ \A c \in Filled' : Link'[c] = index'[c].next
    BY <1>1, <1>2, <1>5, <1>6, <1>7, KeysStay
  <2>2. \A c \in Filled : Link'[c] = Link[c]
    BY <2>1, <1>2, <1>4, <1>6, FilledType
  <2>3. WellChained(Filled, Link, Home) /\ b \notin Filled
    BY <1>2 DEF Names
  <2>4. WellChained(Filled \cup {b}, Link', Home')
    BY <2>1, <2>2, <2>3, AddHead
  <2> QED BY <2>4, <1>6
<1>9. Names(n + 1)'
  BY <1>2, <1>7, <1>8, NamesOneMore
<1> QED BY <1>2, <1>9 DEF Sizes

LEMMA AtTailNames ==
  ASSUME Sizes, NEW n \in Nat, Names(n), Extends(n),
         NEW k \in Key, pairs'[n].first = k, NEW csize, IndexAtTail(k, n, csize)
  PROVE  Names(n + 1)' /\ last' \in 0 .. num_buckets
<1>1. PICK b \in Buckets : b = Main(k)
  BY MainInRange DEF Sizes
<1>2. b \in Filled /\ Home[b] = b /\ Filled # Buckets
  BY <1>1 DEF IndexAtTail
<1>3. PICK t \in Filled : t = FindLastBucket(b) /\ Home[t] = b /\ Link[t] = t
  <2>1. WellChained(Filled, Link, Home)
    BY DEF Names
  <2>2. \E x \in Reach(Filled, Link, b) : Link[x] = x
    BY <2>1, <1>2, LastExists
  <2>3. FindLastBucket(b) \in Reach(Filled, Link, b) /\ Link[FindLastBucket(b)] = FindLastBucket(b)
    BY <2>2 DEF FindLastBucket, Chain
  <2> QED BY <2>1, <2>3, <1>2, ReachStaysHome
<1>4. PICK x \in Buckets : x = FindEmptyBucket(t, csize) /\ index[x] = NoIndex
                             /\ LastAfter(t, csize) \in 0 .. num_buckets
  BY <1>2, ProbeFinds
<1>5. /\ index' = [index EXCEPT ![t].next = x, ![x] = Node(x, n, Tag(k))]
      /\ last' = LastAfter(t, csize)
  BY <1>1, <1>3, <1>4 DEF IndexAtTail
<1>6. /\ x \notin Filled /\ x # t /\ x \in Nat /\ Tag(k) \in Nat /\ Buckets' = Buckets
      /\ index \in [Buckets -> Index \cup {NoIndex}]
      /\ t \in Buckets /\ index[t] \in Index /\ Home[t] = Main(k)
  BY <1>1, <1>3, <1>4, MainInRange, FilledType DEF Buckets, Sizes, Names, Extends, Filled
<1>7. /\ index' \in [Buckets -> Index \cup {NoIndex}]
      /\ index'[x] = Node(x, n, Tag(k))
      /\ index'[t] = Node(x, index[t].slot, index[t].tag)
      /\ \A c \in Buckets \ {t, x} : index'[c] = index[c]
  <2>1. Node(x, n, Tag(k)) \in Index /\ Node(x, index[t].slot, index[t].tag) \in Index
    BY <1>6, NodeType DEF Index
  <2>2. [index[t] EXCEPT !.next = x] = Node(x, index[t].slot, index[t].tag)
    BY <1>6, NodeUpdated
  <2>3. index' = [index EXCEPT ![t] = Node(x, index[t].slot, index[t].tag), ![x] = Node(x, n, Tag(k))]
    BY <1>5, <2>2
  <2> QED BY <1>6, <2>1, <2>3
<1>8. /\ index'[x] # NoIndex /\ index'[x].next = x /\ index'[x].slot = n /\ index'[x].tag = Tag(k)
      /\ index'[t] # NoIndex /\ index'[t].next = x
      /\ index'[t].slot = index[t].slot /\ index'[t].tag = index[t].tag
  <2>1. index[t].slot \in Nat /\ index[t].tag \in Nat
    BY <1>6 DEF Index
  <2> QED BY <1>6, <1>7, <2>1, NodeType
<1>9. Filled' = Filled \cup {x}
  BY <1>3, <1>6, <1>7, <1>8 DEF Filled
<1>10. OneMoreName(n, x, x)
  <2>1. \A c \in Filled \ {x} : index'[c].slot = index[c].slot /\ index'[c].tag = index[c].tag
    BY <1>6, <1>7, <1>8, FilledType
  <2> QED BY <2>1, <1>7, <1>8, <1>9 DEF OneMoreName
<1>11. WellChained(Filled', Link', Home')
  <2>1. /\ \A c \in Filled : Home'[c] = Home[c]
        /\ Home'[x] = Home[t] /\ Link'[x] = x /\ Link'[t] = x
        /\ \A c \in Filled' : Link'[c] = index'[c].next
    BY <1>6, <1>8, <1>9, <1>10, KeysStay
  <2>2. \A c \in Filled \ {t} : Link'[c] = Link[c]
    BY <2>1, <1>6, <1>7, <1>9, FilledType
  <2>3. WellChained(Filled, Link, Home) /\ x \notin Filled /\ Link[t] = t
    BY <1>3, <1>6 DEF Names
  <2>4. WellChained(Filled \cup {x}, Link', Home')
    BY <2>1, <2>2, <2>3, AppendTail
  <2> QED BY <2>4, <1>9
<1>12. Names(n + 1)'
  BY <1>6, <1>10, <1>11, NamesOneMore
<1> QED BY <1>4, <1>5, <1>12

LEMMA ByKickoutNames ==
  ASSUME Sizes, NEW n \in Nat, Names(n), Extends(n),
         NEW k \in Key, pairs'[n].first = k, IndexByKickout(k, n)
  PROVE  Names(n + 1)' /\ last' \in 0 .. num_buckets
<1>1. PICK b \in Buckets : b = Main(k)
  BY MainInRange DEF Sizes
<1>2. b \in Filled /\ Home[b] # b /\ Filled # Buckets /\ WellChained(Filled, Link, Home)
  BY <1>1 DEF IndexByKickout, Names
<1>3. PICK p \in Filled : p = FindPrevBucket(Home[b], b) /\ p # b /\ Link[p] = b
  <2>1. \E q \in Reach(Filled, Link, Home[b]) : q # b /\ Link[q] = b
    BY <1>2, PrevExists
  <2>2. \A q \in Reach(Filled, Link, Home[b]) : q \in Filled
    BY DEF Reach
  <2> QED BY <2>1, <2>2 DEF FindPrevBucket, Chain
<1>4. PICK x \in Buckets : x = FindEmptyBucket(Link[b], 2) /\ index[x] = NoIndex
                             /\ LastAfter(Link[b], 2) \in 0 .. num_buckets
  BY <1>2, ProbeFinds
<1> DEFINE after == IF Link[b] = b THEN x ELSE Link[b]
           guest == Node(after, index[b].slot, index[b].tag)
           relinked == Node(x, index[p].slot, index[p].tag)
           new == Node(b, n, Tag(k))
<1>5. /\ index' = [index EXCEPT ![x] = guest, ![p].next = x, ![b] = new]
      /\ last' = LastAfter(Link[b], 2)
  BY <1>1, <1>3, <1>4 DEF IndexByKickout
<1>6. /\ x \notin Filled /\ x # b /\ x # p /\ x \in Nat /\ b \in Nat /\ Tag(k) \in Nat
      /\ Buckets' = Buckets /\ index \in [Buckets -> Index \cup {NoIndex}]
      /\ p \in Buckets /\ index[p] \in Index /\ index[b] \in Index
      /\ Link[b] \in Nat /\ Link[b] = index[b].next
  <2>1. x \notin Filled /\ x # b /\ x # p
    BY <1>2, <1>3, <1>4 DEF Filled
  <2>2. x \in Nat /\ b \in Nat /\ Tag(k) \in Nat /\ Buckets' = Buckets
    BY MainInRange DEF Buckets, Sizes, Extends
  <2>3. index \in [Buckets -> Index \cup {NoIndex}]
    BY DEF Names
  <2>4. /\ p \in Buckets /\ index[p] \in Index /\ index[b] \in Index
        /\ Link[b] \in Buckets /\ Link[b] = index[b].next
    BY <1>2, <1>3, FilledType
  <2>5. Link[b] \in Nat
    BY <2>4 DEF Buckets, Sizes
  <2> QED BY <2>1, <2>2, <2>3, <2>4, <2>5
<1>7. guest \in Index /\ relinked \in Index /\ new \in Index
  BY <1>6, NodeType DEF Index
<1>8. /\ index' \in [Buckets -> Index \cup {NoIndex}]
      /\ index'[x] = guest /\ index'[p] = relinked /\ index'[b] = new
      /\ \A c \in Buckets \ {x, p, b} : index'[c] = index[c]
  <2>1. [index[p] EXCEPT !.next = x] = relinked
    BY <1>6, NodeUpdated
  <2> HIDE DEF guest, relinked, new
  <2>2. index' = [index EXCEPT ![x] = guest, ![p] = relinked, ![b] = new]
    BY <1>5, <1>6, <2>1
  <2> QED BY <1>3, <1>6, <1>7, <2>2
<1>9. /\ index'[x] # NoIndex /\ index'[x].next = after
      /\ index'[x].slot = index[b].slot /\ index'[x].tag = index[b].tag
      /\ index'[p] # NoIndex /\ index'[p].next = x
      /\ index'[p].slot = index[p].slot /\ index'[p].tag = index[p].tag
      /\ index'[b] # NoIndex /\ index'[b].next = b /\ index'[b].slot = n /\ index'[b].tag = Tag(k)
  <2>1. /\ index[b].slot \in Nat /\ index[b].tag \in Nat
        /\ index[p].slot \in Nat /\ index[p].tag \in Nat /\ after \in Nat
    BY <1>6 DEF Index
  <2>2. /\ guest # NoIndex /\ guest.next = after
        /\ guest.slot = index[b].slot /\ guest.tag = index[b].tag
    <3> HIDE DEF after
    <3> QED BY <1>6, <2>1, NodeKept
  <2>3. /\ relinked # NoIndex /\ relinked.next = x
        /\ relinked.slot = index[p].slot /\ relinked.tag = index[p].tag
    BY <1>6, NodeKept
  <2>4. new # NoIndex /\ new.next = b /\ new.slot = n /\ new.tag = Tag(k)
    BY <1>6, NodeType
  <2> HIDE DEF guest, relinked, new, after
  <2> QED BY <1>8, <2>2, <2>3, <2>4
<1> HIDE DEF guest, relinked, new
<1>10. Filled' = Filled \cup {x}
  BY <1>2, <1>3, <1>6, <1>8, <1>9 DEF Filled
<1>11. OneMoreName(n, x, b)
  <2>1. \A c \in Filled \ {b} : index'[c].slot = index[c].slot /\ index'[c].tag = index[c].tag
    BY <1>6, <1>8, <1>9, FilledType
  <2> QED BY <2>1, <1>8, <1>9, <1>10 DEF OneMoreName
<1>12. /\ \A c \in Filled \ {b} : Home'[c] = Home[c]
       /\ Home'[x] = Home[b] /\ Home'[b] = b
       /\ \A c \in Filled' : Link'[c] = index'[c].next
  <2>1. x \notin Filled /\ b \in Filled \cup {x} /\ x # b
    BY <1>2, <1>6
  <2>2. /\ \A c \in Filled \ {b} : KeyAt(c)' = KeyAt(c) /\ Home'[c] = Home[c]
        /\ x # b => KeyAt(x)' = KeyAt(b) /\ Home'[x] = Home[b]
        /\ KeyAt(b)' = pairs'[n].first /\ Home'[b] = Main(pairs'[n].first)
        /\ \A c \in Filled' : Link'[c] = index'[c].next
    BY <2>1, <1>11, KeysStay
  <2> QED BY <1>1, <2>1, <2>2
<1>13. /\ \A c \in Filled \ {b, p} : Link'[c] = Link[c]
       /\ Link'[x] = (IF Link[b] = b THEN x ELSE Link[b]) /\ Link'[p] = x /\ Link'[b] = b
  BY <1>2, <1>3, <1>6, <1>8, <1>9, <1>10, <1>12, FilledType
<1>14. WellChained(Filled', Link', Home')
  <2> DEFINE F == (Filled \ {b}) \cup {x}
  <2>1. /\ b \in Filled /\ Home[b] # b /\ p # b /\ Link[p] = b /\ x \notin Filled
        /\ WellChained(Filled, Link, Home)
    BY <1>2, <1>3, <1>6
  <2>2. WellChained((Filled \ {b}) \cup {x}, Link', Home')
    BY <2>1, <1>12, <1>13, Relocate
  <2>3. b \notin F /\ Filled' = F \cup {b} /\ Link'[b] = b /\ Home'[b] = b
    BY <1>2, <1>6, <1>10, <1>12, <1>13
  <2>4. WellChained(F, Link', Home')
    BY <2>2
  <2> HIDE DEF F
  <2>5. WellChained(F \cup {b}, Link', Home')
    BY <2>3, <2>4, AddHead
  <2> QED BY <2>3, <2>5
<1>15. Names(n + 1)'
  BY <1>2, <1>6, <1>11, <1>14, NamesOneMore
<1> QED BY <1>4, <1>5, <1>15

LEMMA IndexSlotNames ==
  ASSUME Sizes, NEW n \in Nat, Names(n), Extends(n),
         NEW k \in Key, pairs'[n].first = k, NEW csize, IndexSlot(k, n, csize)
  PROVE  Names(n + 1)' /\ last' \in 0 .. num_buckets
BY AtMainNames, ByKickoutNames, AtTailNames DEF IndexSlot

-----------------------------------------------------------------------------
(* Erasing: the chain, the index, the array.                               *)

\* The chain of f closes behind p.
Closed(f, p, u) ==
  /\ p # f /\ Link[p] = f /\ Home[f] # f
  /\ \A c \in Filled \ {f, p} : u[c].next = index[c].next
  /\ u[p].next = IF Link[f] = f THEN p ELSE Link[f]

\* What erase_bucket has done before it empties the bucket f it gives up: what
\* f named, if that is not what is erased, b names now.
GivenUp(b, f, u) ==
  /\ u \in [Buckets -> Index \cup {NoIndex}]
  /\ \A c \in Buckets : u[c] = NoIndex <=> index[c] = NoIndex
  /\ \A c \in Filled \ {b, f} : u[c].slot = index[c].slot /\ u[c].tag = index[c].tag
  /\ f # b => /\ Home[b] = b /\ Home[f] = b
              /\ u[b].slot = index[f].slot /\ u[b].tag = index[f].tag
  /\ \/ f = b /\ Home[b] = b /\ Link[b] = b /\ u = index
     \/ \E p \in Filled : (p = b \/ f = b) /\ Closed(f, p, u)

LEMMA UnlinkInside ==
  ASSUME Sizes, NEW n \in Nat, Names(n), NEW b \in Filled, Home[b] # b
  PROVE  Freed(b) = b /\ GivenUp(b, b, Unlinked(b))
<1>1. PICK p \in Filled : p = FindPrevBucket(Home[b], b) /\ p # b /\ Link[p] = b
  <2>1. \E q \in Reach(Filled, Link, Home[b]) : q # b /\ Link[q] = b
    BY PrevExists DEF Names
  <2>2. \A q \in Reach(Filled, Link, Home[b]) : q \in Filled
    BY DEF Reach
  <2> QED BY <2>1, <2>2 DEF FindPrevBucket, Chain
<1> DEFINE u == Unlinked(b)
           after == IF Link[b] = b THEN p ELSE Link[b]
<1>2. u = [index EXCEPT ![p].next = after]
  BY <1>1 DEF Unlinked
<1>3. /\ p \in Buckets /\ index[p] \in Index /\ index[p] # NoIndex
      /\ Link[b] \in Buckets /\ \A c \in Buckets : c \in Nat
      /\ index \in [Buckets -> Index \cup {NoIndex}]
  BY FilledType DEF Names, Buckets, Sizes
<1>4. after \in Nat
  BY <1>3
<1> HIDE DEF u, after
<1>5. [index[p] EXCEPT !.next = after] = Node(after, index[p].slot, index[p].tag)
  BY <1>3, NodeUpdated
<1> DEFINE e == Node(after, index[p].slot, index[p].tag)
<1>7. /\ e \in Index /\ e # NoIndex /\ e.next = after
      /\ e.slot = index[p].slot /\ e.tag = index[p].tag
  BY <1>3, <1>4, NodeKept
<1> HIDE DEF e
<1>8. /\ u \in [Buckets -> Index \cup {NoIndex}]
      /\ u[p] = e /\ \A c \in Buckets \ {p} : u[c] = index[c]
  BY <1>2, <1>3, <1>5, <1>7 DEF e
<1>9. \A c \in Filled \ {p} : u[c] = index[c]
  BY <1>8, FilledType
<1>10. Closed(b, p, u)
  BY <1>1, <1>7, <1>8, <1>9 DEF Closed, after
<1>11. GivenUp(b, b, u)
  BY <1>3, <1>7, <1>8, <1>9, <1>10 DEF GivenUp
<1> QED BY <1>11 DEF u, Freed

LEMMA UnlinkHead ==
  ASSUME Sizes, NEW n \in Nat, Names(n), NEW b \in Filled, Home[b] = b
  PROVE  Freed(b) = Link[b] /\ GivenUp(b, Link[b], Unlinked(b))
<1>1. PICK f \in Filled : f = Link[b]
  BY FilledType
<1>2. CASE f = b
  <2>1. Unlinked(b) = index
    BY <1>1, <1>2 DEF Unlinked
  <2>2. index \in [Buckets -> Index \cup {NoIndex}]
    BY DEF Names
  <2> QED BY <1>1, <1>2, <2>1, <2>2 DEF GivenUp, Freed
<1>3. CASE f # b
  <2> DEFINE u == Unlinked(b)
             after == IF Link[f] = f THEN b ELSE Link[f]
             e == Node(after, index[f].slot, index[f].tag)
  <2>1. u = [index EXCEPT ![b] = e]
    BY <1>1, <1>3 DEF Unlinked
  <2>2. /\ b \in Buckets /\ f \in Buckets /\ index[f] \in Index /\ index[b] # NoIndex
        /\ Link[f] \in Buckets /\ \A c \in Buckets : c \in Nat
        /\ index \in [Buckets -> Index \cup {NoIndex}]
    BY FilledType DEF Names, Buckets, Sizes
  <2>3. after \in Nat
    BY <2>2
  <2> HIDE DEF u, after
  <2>5. /\ e \in Index /\ e # NoIndex /\ e.next = after
        /\ e.slot = index[f].slot /\ e.tag = index[f].tag
    BY <2>2, <2>3, NodeKept
  <2> HIDE DEF e
  <2>6. /\ u \in [Buckets -> Index \cup {NoIndex}]
        /\ u[b] = e /\ \A c \in Buckets \ {b} : u[c] = index[c]
    BY <2>1, <2>2, <2>5
  <2>7. \A c \in Filled \ {b} : u[c] = index[c]
    BY <2>6, FilledType
  <2>8. Home[f] = b
    BY <1>1 DEF Names, WellChained, LinksStayInChain
  <2>9. Closed(f, b, u)
    BY <1>1, <1>3, <2>5, <2>6, <2>7, <2>8 DEF Closed, after
  <2>10. GivenUp(b, f, u)
    BY <1>3, <2>2, <2>5, <2>6, <2>7, <2>8, <2>9 DEF GivenUp
  <2> QED BY <1>1, <2>10 DEF u, Freed
<1> QED BY <1>2, <1>3

LEMMA UnlinkedShape ==
  ASSUME Sizes, NEW n \in Nat, Names(n), NEW b \in Filled
  PROVE  Freed(b) \in Filled /\ GivenUp(b, Freed(b), Unlinked(b))
BY UnlinkInside, UnlinkHead, FilledType

\* What EraseSlot does to the array: the last element fills the gap.
FillGap(s, n) ==
  /\ num_filled' = n
  /\ pairs' = [pairs EXCEPT ![s] = pairs[n], ![n] = NoPair]
  /\ UNCHANGED <<num_buckets, pairs_capacity>>

LEMMA AloneChained ==
  ASSUME WellChained(Filled, Link, Home),
         NEW b \in Filled, Home[b] = b, Link[b] = b,
         \A c \in Filled \ {b} : Link'[c] = Link[c],
         \A c \in Filled \ {b} : Home'[c] = Home[c]
  PROVE  WellChained(Filled \ {b}, Link', Home')
BY DropAlone

LEMMA ClosedChained ==
  ASSUME WellChained(Filled, Link, Home),
         NEW f \in Filled, Home[f] # f,
         NEW p \in Filled, p # f, Link[p] = f,
         \A c \in Filled \ {f, p} : Link'[c] = Link[c],
         \A c \in Filled \ {f} : Home'[c] = Home[c],
         Link'[p] = (IF Link[f] = f THEN p ELSE Link[f])
  PROVE  WellChained(Filled \ {f}, Link', Home')
BY DropNext

LEMMA EraseSlotNames ==
  ASSUME Sizes, Array, NEW n \in Nat, num_filled = n + 1, Names(n + 1),
         NEW b \in Filled, EraseSlot(b)
  PROVE  Names(n)' /\ FillGap(index[b].slot, n)
<1>0. n + 1 \in Nat /\ num_filled - 1 = n
  OBVIOUS
<1>1. PICK s \in 0 .. n : s = index[b].slot
  BY DEF Names
<1>2. PICK f \in Filled : f = Freed(b) /\ GivenUp(b, f, Unlinked(b))
  BY <1>0, UnlinkedShape
<1>3. PICK l \in Filled : l = SlotToBucket(n) /\ index[l].slot = n
  BY <1>0, SlotToBucketExact
<1> DEFINE u == Unlinked(b)
           to(c) == IF c = f THEN b ELSE c
           from(d) == IF d = b THEN f ELSE d
<1>4. s # n => l # b /\ UpdateBucket(b) = to(l)
  BY <1>0, <1>1, <1>2, <1>3 DEF UpdateBucket, Freed
<1>5. /\ u \in [Buckets -> Index \cup {NoIndex}] /\ Filled \subseteq Buckets
      /\ \A c \in Filled : u[c] \in Index /\ u[c] # NoIndex
      /\ \A c \in Buckets \ Filled : u[c] = NoIndex
  BY <1>0, <1>2, FilledType DEF GivenUp, Filled
<1>6. ASSUME NEW d \in Filled \ {f}
      PROVE  /\ from(d) \in Filled \ {b} /\ to(from(d)) = d /\ Home[from(d)] = Home[d]
             /\ u[d].slot = index[from(d)].slot /\ u[d].tag = index[from(d)].tag
  BY <1>2 DEF GivenUp
<1>7. ASSUME NEW c \in Filled \ {b} PROVE to(c) \in Filled \ {f} /\ from(to(c)) = c
  OBVIOUS
<1>8. index' = [(IF s = n THEN u ELSE [u EXCEPT ![to(l)].slot = s]) EXCEPT ![f] = NoIndex]
      /\ FillGap(s, n)
  BY <1>0, <1>1, <1>2, <1>4 DEF EraseSlot, FillGap, layout
<1> HIDE DEF u
<1>9. /\ index' \in [Buckets -> Index \cup {NoIndex}]
      /\ index'[f] = NoIndex
      /\ \A d \in Buckets \ {f} :
           index'[d] = IF s # n /\ d = to(l) THEN Node(u[d].next, s, u[d].tag) ELSE u[d]
  <2>1. CASE s = n
    BY <1>5, <1>8, <2>1
  <2>2. CASE s # n
    <3>1. PICK m \in Filled \ {f} : m = to(l)
      BY <1>4, <1>7, <2>2
    <3>2. [u[m] EXCEPT !.slot = s] = Node(u[m].next, s, u[m].tag)
      BY <1>5, NodeUpdated
    <3>3. Node(u[m].next, s, u[m].tag) \in Index
      BY <1>5, NodeKept
    <3>4. index' = [[u EXCEPT ![m] = Node(u[m].next, s, u[m].tag)] EXCEPT ![f] = NoIndex]
      BY <1>8, <2>2, <3>1, <3>2
    <3> HIDE DEF to, from
    <3> QED BY <1>5, <2>2, <3>1, <3>3, <3>4
  <2> QED BY <2>1, <2>2
<1>10. Filled' = Filled \ {f} /\ Buckets' = Buckets
  <2>1. \A d \in Filled \ {f} : Node(u[d].next, s, u[d].tag) # NoIndex
    BY <1>5, NodeKept
  <2>2. Buckets' = Buckets
    BY <1>8 DEF FillGap, Buckets
  <2>3. \A d \in Buckets : index'[d] # NoIndex <=> d \in Filled \ {f}
    BY <1>5, <1>9, <2>1
  <2> QED BY <1>5, <2>2, <2>3 DEF Filled
<1>11. ASSUME NEW d \in Filled \ {f}
       PROVE  /\ index'[d].next = u[d].next /\ index'[d].tag = index[from(d)].tag
              /\ index'[d].slot = IF index[from(d)].slot = n THEN s ELSE index[from(d)].slot
              /\ index[from(d)].slot = n => s # n
  <2>1. u[d] \in Index /\ s \in Nat
    BY <1>5
  <2>2. index[from(d)].slot = n <=> from(d) = l
    BY <1>3, <1>6 DEF Names
  <2>3. d = to(l) /\ s # n <=> from(d) = l
    <3>1. from(d) = l => d = to(l)
      BY <1>6
    <3>2. from(d) = l => s # n
      BY <1>1, <1>3, <1>6 DEF Names
    <3>3. d = to(l) /\ s # n => from(d) = l
      BY <1>4, <1>7
    <3> QED BY <3>1, <3>2, <3>3
  <2>4. CASE from(d) = l
    <3>1. index'[d] = Node(u[d].next, s, u[d].tag)
      BY <1>5, <1>9, <2>3, <2>4
    <3> QED BY <1>6, <2>1, <2>2, <2>3, <2>4, <3>1, NodeKept
  <2>5. CASE from(d) # l
    <3>1. index'[d] = u[d]
      BY <1>5, <1>9, <2>3, <2>5
    <3> QED BY <1>6, <2>2, <2>5, <3>1
  <2> QED BY <2>4, <2>5
<1>12. /\ \A t \in 0 .. n - 1 : t # s => pairs'[t] = pairs[t]
       /\ s # n => pairs'[s] = pairs[n]
  <2>1. s \in 0 .. pairs_capacity - 1 /\ n \in 0 .. pairs_capacity - 1
    BY DEF Array
  <2> QED BY <1>8, <2>1 DEF FillGap, Array
<1>13. ASSUME NEW d \in Filled \ {f}
       PROVE  /\ index'[d].slot \in 0 .. n - 1 /\ KeyAt(d)' = KeyAt(from(d))
              /\ index'[d].tag = Tag(KeyAt(d)')
  <2>1. /\ index[from(d)].slot \in 0 .. n /\ index[from(d)].tag = Tag(KeyAt(from(d)))
        /\ index[from(d)].slot # s
    BY <1>1, <1>6 DEF Names
  <2>2. CASE index[from(d)].slot = n
    <3>1. index'[d].slot = s /\ s # n
      BY <1>11, <2>2
    <3>2. KeyAt(d)' = KeyAt(from(d))
      BY <1>12, <2>2, <3>1 DEF KeyAt
    <3> QED BY <1>11, <2>1, <3>1, <3>2
  <2>3. CASE index[from(d)].slot # n
    <3>1. index'[d].slot = index[from(d)].slot /\ index[from(d)].slot \in 0 .. n - 1
      BY <1>11, <2>1, <2>3
    <3>2. KeyAt(d)' = KeyAt(from(d))
      BY <1>12, <2>1, <3>1 DEF KeyAt
    <3> QED BY <1>11, <2>1, <3>1, <3>2
  <2> QED BY <2>2, <2>3
<1>14. \A c, d \in Filled' : index'[c].slot = index'[d].slot => c = d
  <2> SUFFICES ASSUME NEW c \in Filled \ {f}, NEW d \in Filled \ {f},
                      index'[c].slot = index'[d].slot
               PROVE  c = d
    BY <1>10
  <2>1. index[from(c)].slot # s /\ index[from(d)].slot # s
    BY <1>1, <1>6 DEF Names
  <2>2. index[from(c)].slot = index[from(d)].slot
    BY <1>11, <2>1
  <2>3. from(c) = from(d)
    BY <1>6, <2>2 DEF Names
  <2> QED BY <1>6, <2>3
<1>15. \A t \in 0 .. n - 1 : \E d \in Filled' : index'[d].slot = t
  <2> SUFFICES ASSUME NEW t \in 0 .. n - 1 PROVE \E d \in Filled \ {f} : index'[d].slot = t
    BY <1>10
  <2>1. CASE t = s
    <3>1. s # n /\ l \in Filled \ {b}
      BY <1>4, <2>1
    <3> QED BY <1>3, <1>7, <1>11, <2>1, <3>1
  <2>2. CASE t # s
    <3>1. PICK c \in Filled : index[c].slot = t
      BY DEF Names
    <3>2. c \in Filled \ {b}
      BY <1>1, <2>2, <3>1
    <3> QED BY <1>7, <1>11, <3>1, <3>2
  <2> QED BY <2>1, <2>2
<1>16. \A t \in 0 .. n - 1 : pairs'[t] \in Entry
  BY <1>12 DEF Names
<1>17. Cardinality(Filled') = n
  <2>1. IsFiniteSet(Filled)
    BY <1>0, FilledType
  <2>2. Cardinality(Filled \ {f}) = Cardinality(Filled) - 1
    BY <2>1, FS_RemoveElement
  <2> QED BY <1>10, <2>2 DEF Names
<1>18. WellChained(Filled', Link', Home')
  <2>1. \A d \in Filled \ {f} : Home'[d] = Home[d]
    <3> SUFFICES ASSUME NEW d \in Filled \ {f} PROVE Home'[d] = Home[d]
      OBVIOUS
    <3>1. Home'[d] = Main(KeyAt(from(d)))
      BY <1>8, <1>10, <1>13 DEF Home, Main, FillGap
    <3>2. Home[from(d)] = Main(KeyAt(from(d)))
      BY <1>6 DEF Home
    <3> QED BY <1>6, <3>1, <3>2
  <2>2. \A d \in Filled \ {f} : Link'[d] = u[d].next
    BY <1>10, <1>11 DEF Link
  <2>3. WellChained(Filled, Link, Home)
    BY DEF Names
  <2>4. CASE f = b /\ Home[b] = b /\ Link[b] = b /\ u = index
    <3>1. \A d \in Filled \ {f} : Link'[d] = Link[d]
      BY <2>2, <2>4 DEF Link
    <3>2. WellChained(Filled \ {f}, Link', Home')
      BY <2>1, <2>3, <2>4, <3>1, AloneChained
    <3> QED BY <1>10, <3>2
  <2>5. CASE \E p \in Filled : (p = b \/ f = b) /\ Closed(f, p, u)
    <3>1. PICK p \in Filled : Closed(f, p, u)
      BY <2>5
    <3>2. /\ p # f /\ Link[p] = f /\ Home[f] # f
          /\ \A d \in Filled \ {f, p} : Link'[d] = Link[d]
          /\ Link'[p] = (IF Link[f] = f THEN p ELSE Link[f])
      BY <2>2, <3>1 DEF Closed, Link
    <3>3. WellChained(Filled \ {f}, Link', Home')
      BY <2>1, <2>3, <3>2, ClosedChained
    <3> QED BY <1>10, <3>3
  <2> QED BY <1>2, <2>4, <2>5 DEF GivenUp, u
<1>19. \A d \in Filled' : index'[d].tag = Tag(KeyAt(d))'
  BY <1>8, <1>10, <1>13 DEF Tag, FillGap
<1>20. Names(n)'
  BY <1>9, <1>10, <1>13, <1>14, <1>15, <1>16, <1>17, <1>18, <1>19 DEF Names
<1> QED BY <1>1, <1>8, <1>20

-----------------------------------------------------------------------------
(* The array of elements.                                                  *)

LEMMA ElementIsEntry ==
  ASSUME Array
  PROVE  /\ \A s \in 0 .. num_filled - 1 : pairs[s] \in Entry /\ s \in 0 .. pairs_capacity - 1
         /\ Elements \subseteq Key \X Value
         /\ \A e, f \in Elements : e[1] = f[1] => e = f
<1>1. \A s \in 0 .. num_filled - 1 : pairs[s] \in Entry /\ s \in 0 .. pairs_capacity - 1
  BY DEF Array
<1>2. Elements \subseteq Key \X Value
  BY <1>1 DEF Elements, Entry
<1>3. \A e, f \in Elements : e[1] = f[1] => e = f
  BY DEF Elements, Array
<1> QED BY <1>1, <1>2, <1>3

LEMMA PairType ==
  ASSUME NEW k \in Key, NEW v \in Value
  PROVE  /\ Pair(k, v) \in Entry /\ Pair(k, v) # NoPair
         /\ Pair(k, v).first = k /\ Pair(k, v).second = v
BY NothingAssumption DEF Pair, Entry

LEMMA ArrayAppended ==
  ASSUME Array, num_filled < pairs_capacity, NEW k \in Key, NEW v \in Value,
         \A s \in 0 .. num_filled - 1 : pairs[s].first # k,
         pairs' = [pairs EXCEPT ![num_filled] = Pair(k, v)],
         num_filled' = num_filled + 1, UNCHANGED <<num_buckets, pairs_capacity>>
  PROVE  /\ Array' /\ Elements' = Elements \cup {<<k, v>>}
         /\ \A t \in 0 .. num_filled - 1 : pairs'[t] = pairs[t]
         /\ pairs'[num_filled] = Pair(k, v)
<1>1. /\ num_filled \in Nat /\ pairs_capacity \in Nat /\ num_filled \in 0 .. pairs_capacity - 1
      /\ pairs \in [0 .. pairs_capacity - 1 -> Entry \cup {NoPair}]
  BY DEF Array
<1>2. /\ pairs' \in [0 .. pairs_capacity - 1 -> Entry \cup {NoPair}]
      /\ pairs'[num_filled] = Pair(k, v)
      /\ \A s \in 0 .. pairs_capacity - 1 : s # num_filled => pairs'[s] = pairs[s]
  BY <1>1, PairType
<1>3. pairs'[num_filled] # NoPair /\ pairs'[num_filled].first = k /\ pairs'[num_filled].second = v
  BY <1>2, PairType
<1>4. \A t \in 0 .. num_filled - 1 : pairs'[t] = pairs[t]
  BY <1>1, <1>2
<1>5. \A s \in 0 .. pairs_capacity - 1 : pairs'[s] # NoPair <=> s < num_filled + 1
  <2> SUFFICES ASSUME NEW s \in 0 .. pairs_capacity - 1
               PROVE  pairs'[s] # NoPair <=> s < num_filled + 1
    OBVIOUS
  <2>1. pairs[s] # NoPair <=> s < num_filled
    BY DEF Array
  <2>2. CASE s = num_filled
    BY <1>1, <1>3, <2>2
  <2>3. CASE s # num_filled
    BY <1>1, <1>2, <2>1, <2>3
  <2> QED BY <2>2, <2>3
<1>6. \A s, t \in 0 .. num_filled : pairs'[s].first = pairs'[t].first => s = t
  <2> SUFFICES ASSUME NEW s \in 0 .. num_filled, NEW t \in 0 .. num_filled,
                      pairs'[s].first = pairs'[t].first
               PROVE  s = t
    OBVIOUS
  <2>1. \A r \in 0 .. num_filled : r # num_filled => r \in 0 .. num_filled - 1
    BY <1>1
  <2> QED BY <1>3, <1>4, <2>1 DEF Array
<1>7. Array'
  BY <1>1, <1>2, <1>5, <1>6 DEF Array
<1>8. Elements' = Elements \cup {<<k, v>>}
  <2>1. \A r \in 0 .. num_filled' - 1 : r = num_filled \/ r \in 0 .. num_filled - 1
    BY <1>1
  <2>2. num_filled \in 0 .. num_filled' - 1 /\ 0 .. num_filled - 1 \subseteq 0 .. num_filled' - 1
    BY <1>1
  <2> QED BY <1>3, <1>4, <2>1, <2>2 DEF Elements
<1> QED BY <1>2, <1>4, <1>7, <1>8

LEMMA ArrayWritten ==
  ASSUME Array, NEW s \in 0 .. num_filled - 1, NEW v \in Value,
         pairs' = [pairs EXCEPT ![s] = Pair(pairs[s].first, v)],
         UNCHANGED <<num_filled, pairs_capacity>>
  PROVE  /\ Array'
         /\ Elements' = (Elements \ {<<pairs[s].first, pairs[s].second>>})
                          \cup {<<pairs[s].first, v>>}
         /\ \A t \in 0 .. num_filled - 1 : pairs'[t] \in Entry /\ pairs'[t].first = pairs[t].first
<1>1. /\ s \in 0 .. pairs_capacity - 1 /\ pairs[s] \in Entry /\ pairs[s].first \in Key
      /\ pairs \in [0 .. pairs_capacity - 1 -> Entry \cup {NoPair}]
  BY ElementIsEntry DEF Array, Entry
<1>2. /\ pairs' \in [0 .. pairs_capacity - 1 -> Entry \cup {NoPair}]
      /\ pairs'[s] = Pair(pairs[s].first, v)
      /\ \A t \in 0 .. pairs_capacity - 1 : t # s => pairs'[t] = pairs[t]
  BY <1>1, PairType
<1>3. pairs'[s] # NoPair /\ pairs'[s].first = pairs[s].first /\ pairs'[s].second = v
  BY <1>1, <1>2, PairType
<1>4. \A t \in 0 .. num_filled - 1 : /\ pairs'[t] \in Entry /\ pairs'[t].first = pairs[t].first
                                     /\ t # s => pairs'[t] = pairs[t]
  BY <1>1, <1>2, <1>3, ElementIsEntry, PairType
<1>5. \A t \in 0 .. pairs_capacity - 1 : pairs'[t] # NoPair <=> t < num_filled
  BY <1>2, <1>3 DEF Array
<1>6. Array'
  <2>1. \A t, r \in 0 .. num_filled - 1 : pairs'[t].first = pairs'[r].first => t = r
    BY <1>4 DEF Array
  <2>2. num_filled' = num_filled /\ pairs_capacity' = pairs_capacity
    OBVIOUS
  <2>3. num_filled \in Nat /\ pairs_capacity \in Nat /\ num_filled =< pairs_capacity
    BY DEF Array
  <2> QED BY <1>2, <1>5, <2>1, <2>2, <2>3, Zenon DEF Array
<1>7. Elements' = (Elements \ {<<pairs[s].first, pairs[s].second>>}) \cup {<<pairs[s].first, v>>}
  <2>1. \A t \in 0 .. num_filled - 1 : t # s => pairs[t].first # pairs[s].first
    BY DEF Array
  <2> QED BY <1>3, <1>4, <2>1 DEF Elements
<1> QED BY <1>4, <1>6, <1>7

LEMMA ArrayGapFilled ==
  ASSUME Array, NEW n \in Nat, num_filled = n + 1, NEW s \in 0 .. n, FillGap(s, n)
  PROVE  /\ Array' /\ Elements' = Elements \ {<<pairs[s].first, pairs[s].second>>}
         /\ \A t \in 0 .. n - 1 : pairs'[t] = IF t = s THEN pairs[n] ELSE pairs[t]
<1>1. /\ s \in 0 .. pairs_capacity - 1 /\ n \in 0 .. pairs_capacity - 1
      /\ pairs_capacity \in Nat /\ num_filled' = n /\ pairs_capacity' = pairs_capacity
      /\ pairs[n] \in Entry /\ pairs[n] # NoPair
      /\ pairs \in [0 .. pairs_capacity - 1 -> Entry \cup {NoPair}]
      /\ 0 .. num_filled - 1 = 0 .. n
  BY ElementIsEntry, NothingAssumption DEF Array, FillGap
<1>2. /\ pairs' \in [0 .. pairs_capacity - 1 -> Entry \cup {NoPair}]
      /\ pairs'[n] = NoPair
      /\ \A t \in 0 .. pairs_capacity - 1 :
           t # n => pairs'[t] = IF t = s THEN pairs[n] ELSE pairs[t]
  BY <1>1 DEF FillGap
<1>3. \A t \in 0 .. n - 1 : pairs'[t] = IF t = s THEN pairs[n] ELSE pairs[t]
  BY <1>1, <1>2
<1>4. \A t \in 0 .. pairs_capacity - 1 : pairs'[t] # NoPair <=> t < n
  <2> SUFFICES ASSUME NEW t \in 0 .. pairs_capacity - 1 PROVE pairs'[t] # NoPair <=> t < n
    OBVIOUS
  <2>1. pairs[t] # NoPair <=> t < n + 1
    BY DEF Array
  <2> QED BY <1>1, <1>2, <2>1
<1>5. \A t, r \in 0 .. n - 1 : pairs'[t].first = pairs'[r].first => t = r
  <2> DEFINE old(t) == IF t = s THEN n ELSE t
  <2>1. \A t \in 0 .. n - 1 : old(t) \in 0 .. n /\ pairs'[t] = pairs[old(t)]
    BY <1>3
  <2>2. \A t, r \in 0 .. n - 1 : old(t) = old(r) => t = r
    OBVIOUS
  <2> HIDE DEF old
  <2> QED BY <1>1, <2>1, <2>2 DEF Array
<1>6. Array'
  BY <1>1, <1>2, <1>4, <1>5 DEF Array
<1>7. Elements' = Elements \ {<<pairs[s].first, pairs[s].second>>}
  <2> DEFINE elem(t) == <<pairs[t].first, pairs[t].second>>
             old(t) == IF t = s THEN n ELSE t
  <2>1. \A t \in 0 .. n - 1 : /\ old(t) \in (0 .. n) \ {s}
                              /\ <<pairs'[t].first, pairs'[t].second>> = elem(old(t))
    BY <1>3
  <2>2. \A r \in (0 .. n) \ {s} : \E t \in 0 .. n - 1 : old(t) = r
    <3> SUFFICES ASSUME NEW r \in (0 .. n) \ {s} PROVE \E t \in 0 .. n - 1 : old(t) = r
      OBVIOUS
    <3>1. CASE r = n
      <4>1. s \in 0 .. n - 1 /\ old(s) = r
        BY <3>1
      <4> QED BY <4>1
    <3>2. CASE r # n
      <4>1. r \in 0 .. n - 1 /\ old(r) = r
        BY <3>2
      <4> QED BY <4>1
    <3> QED BY <3>1, <3>2
  <2>3. \A r \in (0 .. n) \ {s} : elem(r) # elem(s)
    BY <1>1 DEF Array
  <2>4. Elements' = { <<pairs'[t].first, pairs'[t].second>> : t \in 0 .. n - 1 }
    BY <1>1 DEF Elements
  <2>5. Elements = { elem(r) : r \in 0 .. n }
    BY <1>1 DEF Elements
  <2>6. s \in 0 .. n
    OBVIOUS
  <2> HIDE DEF old, elem
  <2>7. Elements' \subseteq Elements \ {elem(s)}
    BY <2>1, <2>3, <2>4, <2>5
  <2>8. Elements \ {elem(s)} \subseteq Elements'
    BY <2>1, <2>2, <2>4, <2>5
  <2>9. Elements' = Elements \ {elem(s)}
    BY <2>7, <2>8
  <2> QED BY <2>9 DEF elem
<1> QED BY <1>3, <1>6, <1>7

\* The index goes on naming what it named when only values change.
LEMMA NamesKept ==
  ASSUME NEW n \in Nat, Names(n), UNCHANGED <<num_buckets, index>>,
         \A t \in 0 .. n - 1 : pairs'[t] \in Entry /\ pairs'[t].first = pairs[t].first
  PROVE  Names(n)'
<1>1. Filled' = Filled /\ Buckets' = Buckets /\ \A k : Main(k)' = Main(k) /\ Tag(k)' = Tag(k)
  BY DEF Filled, Buckets, Main, Tag
<1>2. \A b \in Filled : KeyAt(b)' = KeyAt(b)
  BY DEF Names, KeyAt
<1>3. Link' = Link
  BY <1>1 DEF Link
<1>4. Home' = Home
  BY <1>1, <1>2 DEF Home, Main
<1>5. \A b \in Filled : index'[b].tag = Tag(KeyAt(b))'
  BY <1>2 DEF Names, Tag
<1> QED BY <1>1, <1>3, <1>4, <1>5 DEF Names

-----------------------------------------------------------------------------
(* The invariant.                                                          *)

Request == [op : {"insert", "assign", "unique"}, key : Key, val : Value]

\* A call is over exactly when it has nothing left to insert.
TodoMatches ==
  /\ pc = "ready" => todo = <<>>
  /\ pc = "insert" => todo # <<>>

\* A key that insert_unique is given is not stored when its turn comes.
UniqueIsNew ==
  \A i \in 1 .. Len(todo) : todo[i].op = "unique" =>
    Len(todo) = 1 /\ \A e \in Elements : e[1] # todo[i].key

\* The growth a call decided on suffices for all that it has still to insert.
Room == num_filled + Len(todo) =< num_buckets

Types ==
  /\ mlf \in Nat /\ mlf >= FixedOne
  /\ todo \in Seq(Request) /\ ret \in BOOLEAN /\ pc \in {"ready", "rehash", "insert"}
  /\ slot \in Nat /\ (pc = "rehash" => slot =< num_filled)

\* Between two steps the index names what it has come to, which is all there is
\* but in a rehash.
Inv ==
  /\ Sizes /\ Array /\ Names(Indexed)
  /\ Types /\ TodoMatches /\ UniqueIsNew /\ Room

LEMMA IndexedType ==
  Inv => /\ Indexed \in Nat /\ num_filled \in Nat /\ Indexed =< num_filled
         /\ (pc # "rehash" => Indexed = num_filled)
BY DEF Inv, Types, Array, Indexed

LEMMA NamesAll ==
  ASSUME Inv, pc # "rehash"
  PROVE  Sizes /\ Array /\ Names(num_filled) /\ num_filled \in Nat
<1>1. Indexed = num_filled
  BY DEF Indexed
<1> QED BY <1>1, IndexedType DEF Inv

\* The names after a step, whatever the program counter says they are.
LEMMA NamesNow ==
  ASSUME NEW n, Names(n)', Indexed' = n
  PROVE  Names(Indexed)'
BY DEF Names

\* Nothing is indexed yet.
EmptyIndex == num_buckets \in Nat \ {0} /\ index = [b \in Buckets |-> NoIndex]

LEMMA EmptyNames == EmptyIndex => Names(0)
<1> SUFFICES ASSUME EmptyIndex PROVE Names(0)
  OBVIOUS
<1>1. Filled = {}
  BY DEF EmptyIndex, Filled
<1>2. WellChained(Filled, Link, Home)
  BY <1>1 DEF WellChained, LinksStayInChain, HeadsAtHome, AllReachable, NoSharedTails, TailsExist
<1>3. index \in [Buckets -> Index \cup {NoIndex}]
  BY DEF EmptyIndex
<1> QED BY <1>1, <1>2, <1>3, FS_EmptySet DEF Names

\* The same table after a step that leaves it alone.
LEMMA TableKept ==
  ASSUME Sizes, Array, NEW n \in Nat, Names(n), n =< num_filled,
         UNCHANGED <<num_buckets, num_filled, pairs_capacity, index, pairs>>
  PROVE  Array' /\ Names(n)' /\ Elements' = Elements
<1>1. Array' /\ Elements' = Elements
  BY DEF Array, Elements
<1>2. \A t \in 0 .. n - 1 : pairs'[t] \in Entry /\ pairs'[t].first = pairs[t].first
  BY DEF Names
<1> QED BY <1>1, <1>2, NamesKept

-----------------------------------------------------------------------------
(* Growing.                                                                *)

LEMMA NeedSizeType ==
  ASSUME mlf \in Nat, mlf >= FixedOne, NEW b \in Nat, NEW r \in Nat
  PROVE  /\ NeedSize(b, r) \in Nat /\ NeedSize(b, r) >= r + 2
         /\ (b * FixedOne) \div mlf \in Nat
         /\ NeedSize(b, r) >= (b * FixedOne) \div mlf + PAIRS_CAPACITY_BUFFER
<1>1. mlf \in Nat \ {0} /\ b * FixedOne \in Nat
  BY LoadAssumption
<1>2. (b * FixedOne) \div mlf \in Nat
  BY <1>1
<1> QED BY <1>2, BufferAssumption DEF NeedSize, RESERVE_SLOTS

LEMMA BucketsForEnough ==
  ASSUME NEW n \in Nat, Allocatable(n)
  PROVE  BucketsFor(n) \in BucketCounts /\ BucketsFor(n) \in Nat \ {0} /\ BucketsFor(n) >= n
<1> DEFINE S == { s \in BucketCounts : s >= n }
<1>1. S \in SUBSET Nat /\ S # {}
  BY BucketAssumption DEF Allocatable
<1>2. Lowest(S) \in S
  <2> HIDE DEF S
  <2> QED BY <1>1, LowestIsIn
<1> QED BY <1>2, BucketAssumption DEF BucketsFor

LEMMA StartRehashOK ==
  ASSUME Inv, pc = "ready", NEW n \in Nat, NEW reqs \in Seq(Request),
         StartRehash(n), todo' = reqs, ret' = ret,
         num_filled + Len(reqs) =< n,
         \A i \in 1 .. Len(reqs) : reqs[i].op = "unique" =>
            Len(reqs) = 1 /\ \A e \in Elements : e[1] # reqs[i].key
  PROVE  Inv' /\ Elements' = Elements
<1>1. num_buckets' \in Nat \ {0} /\ num_buckets' >= n
  BY BucketsForEnough DEF StartRehash
<1>2. /\ num_filled' = num_filled /\ mlf' = mlf /\ num_filled \in Nat /\ Len(reqs) \in Nat
      /\ last' = 0 /\ slot' = 0 /\ pc' = "rehash"
  BY IndexedType DEF StartRehash, StartIndexing
<1>3. pairs_capacity' \in Nat /\ num_filled =< pairs_capacity'
  <2>1. pairs_capacity' = NeedSize(num_buckets', n)
    BY DEF StartRehash
  <2>2. PICK b \in Nat : b = num_buckets'
    BY <1>1
  <2>3. NeedSize(b, n) \in Nat /\ NeedSize(b, n) >= n + 2
    BY NeedSizeType DEF Inv, Types
  <2> QED BY <1>2, <2>1, <2>2, <2>3
<1>4. \A s \in 0 .. pairs_capacity' - 1 : pairs'[s] = IF s < num_filled THEN pairs[s] ELSE NoPair
  BY DEF StartRehash
<1>5. \A s \in 0 .. num_filled - 1 : pairs'[s] = pairs[s] /\ pairs[s] \in Entry
  BY <1>2, <1>3, <1>4, ElementIsEntry DEF Inv
<1>6. Array' /\ Elements' = Elements
  <2>1. pairs' \in [0 .. pairs_capacity' - 1 -> Entry \cup {NoPair}]
    <3>1. pairs' = [s \in 0 .. pairs_capacity' - 1 |-> IF s < num_filled THEN pairs[s] ELSE NoPair]
      BY DEF StartRehash
    <3>2. \A s \in 0 .. pairs_capacity' - 1 : s < num_filled => pairs[s] \in Entry
      BY <1>2, <1>5
    <3> QED BY <3>1, <3>2
  <2>2. \A s \in 0 .. pairs_capacity' - 1 : pairs'[s] # NoPair <=> s < num_filled
    BY <1>2, <1>4, <1>5, NothingAssumption
  <2>3. \A s, t \in 0 .. num_filled - 1 : pairs'[s].first = pairs'[t].first => s = t
    BY <1>5 DEF Inv, Array
  <2>4. Elements' = Elements
    BY <1>2, <1>5 DEF Elements
  <2> QED BY <1>2, <1>3, <2>1, <2>2, <2>3, <2>4 DEF Array
<1>7. Names(0)'
  <2>1. EmptyIndex'
    BY <1>1 DEF EmptyIndex, Buckets, StartRehash, StartIndexing
  <2> QED BY <2>1, EmptyNames, PTL
<1>8. Names(Indexed)'
  <2>1. Indexed' = 0
    BY <1>2 DEF Indexed
  <2> QED BY <1>7, <2>1, NamesNow
<1>9. Sizes' /\ Room'
  BY <1>1, <1>2 DEF Sizes, Room
<1>10. Types' /\ TodoMatches' /\ UniqueIsNew'
  <2>1. Types'
    BY <1>2 DEF Types, Inv
  <2>2. TodoMatches' /\ UniqueIsNew'
    BY <1>2, <1>6 DEF TodoMatches, UniqueIsNew
  <2> QED BY <2>1, <2>2
<1> QED BY <1>6, <1>8, <1>9, <1>10 DEF Inv

LEMMA RequiredEnough ==
  ASSUME Inv, NEW n \in Nat
  PROVE  RequiredBuckets(n) \in Nat /\ RequiredBuckets(n) >= n
<1>1. mlf \in Nat /\ mlf >= FixedOne
  BY DEF Inv, Types
<1> QED BY <1>1, LoadAssumption, RequiredSuffices DEF RequiredBuckets

LEMMA CallOK ==
  ASSUME Inv, NEW n \in Nat, NEW reqs \in Seq(Request), Call(n, reqs),
         num_filled + Len(reqs) =< n + 1,
         \A i \in 1 .. Len(reqs) : reqs[i].op = "unique" =>
            Len(reqs) = 1 /\ \A e \in Elements : e[1] # reqs[i].key
  PROVE  Inv' /\ Elements' = Elements /\ ret' = ret
<1> DEFINE m == RequiredBuckets(n)
<1>1. pc = "ready" /\ todo' = reqs /\ ret' = ret
  BY DEF Call
<1>2. m \in Nat /\ m >= n
  BY RequiredEnough
<1>3. num_filled \in Nat /\ num_buckets \in Nat /\ Len(reqs) \in Nat
  BY IndexedType DEF Inv, Sizes
<1>4. CASE NeedsRehash(n)
  <2>1. StartRehash(m + 2)
    BY <1>4 DEF Call, RESERVE_SLOTS
  <2> HIDE DEF m
  <2>2. num_filled + Len(reqs) =< m + 2 /\ m + 2 \in Nat
    BY <1>2, <1>3
  <2> QED BY <1>1, <2>1, <2>2, StartRehashOK
<1>5. CASE ~ NeedsRehash(n)
  <2>1. /\ pc' = Resume(reqs) /\ pc' \in {"ready", "insert"}
        /\ UNCHANGED <<num_buckets, pairs_capacity, num_filled, mlf, index, pairs, last, slot>>
    BY <1>5 DEF Call, Resume, layout
  <2>2. m < num_buckets
    BY <1>2, <1>3, <1>5 DEF NeedsRehash
  <2>3. Array' /\ Names(num_filled)' /\ Elements' = Elements
    <3>1. Sizes /\ Array /\ Names(num_filled) /\ num_filled \in Nat
      BY <1>1, NamesAll
    <3>2. PICK f \in Nat : f = num_filled
      BY <3>1
    <3>3. Array' /\ Names(f)' /\ Elements' = Elements
      BY <2>1, <3>1, <3>2, TableKept
    <3> QED BY <2>1, <3>2, <3>3 DEF Names
  <2>4. Names(Indexed)'
    BY <2>1, <2>3 DEF Indexed, Names
  <2>5. Sizes' /\ Room'
    <3> HIDE DEF m
    <3> QED BY <1>1, <1>2, <1>3, <2>1, <2>2 DEF Inv, Sizes, Room
  <2>6. Types'
    BY <1>1, <2>1 DEF Inv, Types
  <2>7. TodoMatches' /\ UniqueIsNew'
    BY <1>1, <2>1, <2>3 DEF TodoMatches, UniqueIsNew, Resume
  <2> QED BY <1>1, <2>3, <2>4, <2>5, <2>6, <2>7 DEF Inv
<1> QED BY <1>4, <1>5

LEMMA RehashOK ==
  ASSUME Inv, NEW n \in Nat, Rehash(n)
  PROVE  Inv' /\ Elements' = Elements /\ ret' = ret
<1>1. pc = "ready" /\ todo' = todo /\ ret' = ret /\ todo = <<>>
  BY DEF Rehash, Inv, TodoMatches
<1>2. CASE n < num_filled
  <2>1. UNCHANGED <<num_buckets, pairs_capacity, num_filled, mlf, index, pairs, last, slot, todo, ret, pc>>
    BY <1>1, <1>2 DEF Rehash, layout
  <2>2. PICK f \in Nat : f = Indexed
    BY IndexedType
  <2>3. Array' /\ Names(f)' /\ Elements' = Elements
    BY <2>1, <2>2, IndexedType, TableKept DEF Inv
  <2>4. Indexed' = f
    BY <2>1, <2>2 DEF Indexed
  <2>5. Names(Indexed)'
    BY <2>3, <2>4, NamesNow
  <2>6. Sizes' /\ Types' /\ TodoMatches' /\ Room'
    BY <2>1 DEF Inv, Sizes, Types, TodoMatches, Room
  <2>7. UniqueIsNew'
    BY <2>1, <2>3 DEF Inv, UniqueIsNew
  <2> QED BY <1>1, <2>3, <2>5, <2>6, <2>7 DEF Inv
<1>3. CASE ~ (n < num_filled)
  <2>1. StartRehash(n)
    BY <1>3 DEF Rehash
  <2>2. PICK reqs \in Seq(Request) : reqs = todo /\ Len(reqs) = 0
    BY <1>1 DEF Inv, Types
  <2>3. num_filled + Len(reqs) =< n
    BY <1>3, <2>2, IndexedType
  <2>4. \A i \in 1 .. Len(reqs) : reqs[i].op = "unique" =>
            Len(reqs) = 1 /\ \A e \in Elements : e[1] # reqs[i].key
    BY <2>2
  <2> QED BY <1>1, <2>1, <2>2, <2>3, <2>4, StartRehashOK
<1> QED BY <1>2, <1>3

\* The index is built anew where it is.
LEMMA ReserveOK ==
  ASSUME Inv, NEW n \in Requests, Reserve(n)
  PROVE  Inv' /\ Elements' = Elements /\ ret' = ret
<1>1. CASE n # num_filled
  <2>1. n \in Nat
    BY InputAssumption
  <2>2. RequiredBuckets(n) + RESERVE_SLOTS \in Nat
    BY <2>1, RequiredEnough DEF RESERVE_SLOTS
  <2> QED BY <1>1, <2>2, RehashOK DEF Reserve
<1>2. CASE n = num_filled
  <2>1. /\ pc = "ready" /\ pc' = "rehash" /\ last' = 0 /\ slot' = 0
        /\ index' = [b \in 0 .. num_buckets' - 1 |-> NoIndex]
        /\ UNCHANGED <<num_buckets, pairs_capacity, num_filled, mlf, pairs, todo, ret>>
    BY <1>2 DEF Reserve, StartIndexing, layout
  <2>2. Array' /\ Elements' = Elements
    BY <2>1 DEF Inv, Array, Elements
  <2>3. Names(0)'
    <3>1. EmptyIndex'
      BY <2>1 DEF EmptyIndex, Buckets, Inv, Sizes
    <3> QED BY <3>1, EmptyNames, PTL
  <2>4. Names(Indexed)'
    <3>1. Indexed' = 0
      BY <2>1 DEF Indexed
    <3> QED BY <2>3, <3>1, NamesNow
  <2>5. Sizes' /\ Room' /\ Types' /\ TodoMatches'
    BY <2>1, IndexedType DEF Inv, Sizes, Room, Types, TodoMatches
  <2>6. UniqueIsNew'
    BY <2>1, <2>2 DEF Inv, UniqueIsNew
  <2> QED BY <2>1, <2>2, <2>4, <2>5, <2>6 DEF Inv
<1> QED BY <1>1, <1>2

-----------------------------------------------------------------------------
(* The steps of a running call.                                            *)

Kept == Elements' = Elements /\ ret' = ret

\* The step writes nothing but what indexing one more slot writes.
LEMMA RehashStepOK ==
  ASSUME Inv, RehashStep
  PROVE  Inv' /\ Kept
<1>1. /\ pc = "rehash" /\ slot < num_filled /\ slot' = slot + 1
      /\ IndexSlot(pairs[slot].first, slot, 2)
      /\ UNCHANGED <<num_buckets, pairs_capacity, num_filled, mlf, pairs, todo, ret, pc>>
  BY DEF RehashStep, layout
<1>2. PICK n \in Nat : n = slot /\ n \in 0 .. num_filled - 1
  BY <1>1, IndexedType DEF Inv, Types
<1>3. pairs[n] \in Entry
  BY <1>2, ElementIsEntry DEF Inv
<1>4. PICK k \in Key : k = pairs[n].first
  BY <1>3 DEF Entry
<1>5. Names(n) /\ Sizes
  <2>1. Indexed = n
    BY <1>1, <1>2 DEF Indexed
  <2> QED BY <2>1 DEF Inv
<1>6. Extends(n) /\ pairs'[n].first = k /\ IndexSlot(k, n, 2)
  BY <1>1, <1>2, <1>3, <1>4 DEF Extends
<1>7. Names(n + 1)' /\ last' \in 0 .. num_buckets
  BY <1>5, <1>6, IndexSlotNames
<1>8. Names(Indexed)'
  <2>1. Indexed' = n + 1
    BY <1>1, <1>2 DEF Indexed
  <2> QED BY <1>7, <2>1, NamesNow
<1>9. Array' /\ Elements' = Elements
  BY <1>1 DEF Inv, Array, Elements
<1>10. Sizes' /\ Room' /\ TodoMatches'
  BY <1>1, <1>7 DEF Inv, Sizes, Room, TodoMatches
<1>11. Types'
  BY <1>1, IndexedType DEF Inv, Types
<1>12. UniqueIsNew'
  BY <1>1, <1>9 DEF Inv, UniqueIsNew
<1> QED BY <1>1, <1>8, <1>9, <1>10, <1>11, <1>12 DEF Inv, Kept

LEMMA RehashDoneOK ==
  ASSUME Inv, RehashDone
  PROVE  Inv' /\ Kept
<1>1. /\ pc = "rehash" /\ slot = num_filled /\ slot' = 0 /\ pc' = Resume(todo)
      /\ UNCHANGED <<num_buckets, pairs_capacity, num_filled, mlf, index, pairs, last, todo, ret>>
  BY DEF RehashDone, layout
<1>2. PICK n \in Nat : n = num_filled
  BY IndexedType
<1>3. Names(n) /\ Sizes /\ Array
  <2>1. Indexed = n
    BY <1>1, <1>2 DEF Indexed
  <2> QED BY <2>1 DEF Inv
<1>4. Array' /\ Names(n)' /\ Elements' = Elements
  BY <1>1, <1>2, <1>3, TableKept
<1>5. pc' \in {"ready", "insert"} /\ TodoMatches'
  BY <1>1 DEF Resume, TodoMatches
<1>6. Names(Indexed)'
  <2>1. Indexed' = n
    BY <1>1, <1>2, <1>5 DEF Indexed
  <2> QED BY <1>4, <2>1, NamesNow
<1>7. Sizes' /\ Room' /\ Types'
  BY <1>1, <1>5 DEF Inv, Sizes, Room, Types
<1>8. UniqueIsNew'
  BY <1>1, <1>4 DEF Inv, UniqueIsNew
<1> QED BY <1>1, <1>4, <1>5, <1>6, <1>7, <1>8 DEF Inv, Kept

\* What every insertion starts from: the request at hand and the table.
LEMMA InsertContext ==
  ASSUME Inv, pc = "insert"
  PROVE  /\ Sizes /\ Array /\ Names(num_filled) /\ num_filled \in Nat
         /\ todo # <<>> /\ Head(todo) \in Request /\ Head(todo) = todo[1]
         /\ Head(todo).key \in Key /\ Head(todo).val \in Value
         /\ Tail(todo) \in Seq(Request) /\ Len(todo) \in Nat \ {0}
         /\ Len(Tail(todo)) = Len(todo) - 1
         /\ \A i \in 1 .. Len(Tail(todo)) : Tail(todo)[i] = todo[i + 1]
<1>1. Sizes /\ Array /\ Names(num_filled) /\ num_filled \in Nat
  BY NamesAll
<1>2. todo # <<>> /\ todo \in Seq(Request)
  BY DEF Inv, TodoMatches, Types
<1>3. /\ Head(todo) \in Request /\ Head(todo) = todo[1] /\ Tail(todo) \in Seq(Request)
      /\ Len(todo) \in Nat \ {0} /\ Len(Tail(todo)) = Len(todo) - 1
      /\ \A i \in 1 .. Len(Tail(todo)) : Tail(todo)[i] = todo[i + 1]
  BY <1>2
<1>4. Head(todo).key \in Key /\ Head(todo).val \in Value
  BY <1>3 DEF Request
<1> QED BY <1>1, <1>2, <1>3, <1>4

\* An insertion is done: what is left of the call keeps the invariant.
LEMMA InsertionDone ==
  ASSUME Inv, pc = "insert", Array', NEW n \in Nat, Names(n)', num_filled' = n,
         last' \in 0 .. num_buckets, UNCHANGED <<num_buckets, mlf, slot>>,
         todo' = Tail(todo), pc' = Resume(Tail(todo)), ret' \in BOOLEAN,
         n =< num_filled + 1
  PROVE  Inv'
<1>1. /\ todo' \in Seq(Request) /\ Len(todo) \in Nat /\ Len(todo') = Len(todo) - 1
      /\ \A i \in 1 .. Len(todo') : todo'[i] = todo[i + 1]
  BY InsertContext
<1>2. pc' \in {"ready", "insert"} /\ TodoMatches'
  BY DEF Resume, TodoMatches
<1>3. UniqueIsNew'
  <2>1. \A i \in 1 .. Len(todo') : todo'[i].op # "unique"
    <3> SUFFICES ASSUME NEW i \in 1 .. Len(todo'), todo'[i].op = "unique" PROVE FALSE
      OBVIOUS
    <3>1. i + 1 \in 1 .. Len(todo) /\ todo[i + 1].op = "unique" /\ Len(todo) # 1
      BY <1>1
    <3> QED BY <3>1 DEF Inv, UniqueIsNew
  <2> QED BY <2>1 DEF UniqueIsNew
<1>4. Room'
  <2>1. num_filled \in Nat /\ num_buckets \in Nat
    BY IndexedType DEF Inv, Sizes
  <2> QED BY <1>1, <2>1 DEF Inv, Room
<1>5. Names(Indexed)'
  <2>1. Indexed' = n
    BY <1>2 DEF Indexed
  <2> QED BY <2>1, NamesNow
<1>6. Sizes' /\ Types'
  BY <1>1, <1>2 DEF Inv, Sizes, Types
<1> QED BY <1>2, <1>3, <1>4, <1>5, <1>6 DEF Inv

\* The request at hand, and the step that leaves the rest of them.
Req == Head(todo)
RequestTaken == todo # <<>> /\ todo' = Tail(todo) /\ Req.key \in Key /\ Req.val \in Value

\* The map has u for k, and has v for it afterwards.
Overwritten(k, u, v) ==
  /\ <<k, u>> \in Elements
  /\ Elements' = (Elements \ {<<k, u>>}) \cup {<<k, v>>}

LEMMA InsertHitOK ==
  ASSUME Inv, InsertHit
  PROVE  /\ Inv' /\ ret' = FALSE
         /\ RequestTaken /\ \E u \in Value :
               Overwritten(Req.key, u, IF Req.op = "assign" THEN Req.val ELSE u)
<1>1. /\ pc = "insert" /\ Meets(Head(todo).key) /\ ret' = FALSE /\ todo' = Tail(todo)
      /\ pc' = Resume(Tail(todo))
      /\ UNCHANGED <<num_buckets, pairs_capacity, num_filled, mlf, index, last, slot>>
  BY DEF InsertHit, layout
<1>2. /\ Sizes /\ Array /\ Names(num_filled) /\ num_filled \in Nat
      /\ Head(todo).key \in Key /\ Head(todo).val \in Value
  BY <1>1, InsertContext
<1>3. PICK k \in Key : k = Head(todo).key
  BY <1>2
<1>4. PICK s \in 0 .. num_filled - 1 : index[FindFilledBucket(k)].slot = s /\ pairs[s].first = k
  BY <1>1, <1>2, <1>3, SearchExact
<1>5. pairs[s] \in Entry /\ s \in 0 .. pairs_capacity - 1
  BY <1>2, <1>4, ElementIsEntry
<1>6. PICK v \in Value : v = IF Head(todo).op = "assign" THEN Head(todo).val ELSE pairs[s].second
  BY <1>2, <1>5 DEF Entry
<1>7. pairs' = [pairs EXCEPT ![s] = Pair(pairs[s].first, v)]
  <2>1. pairs[s] = Pair(pairs[s].first, pairs[s].second)
    BY <1>5 DEF Entry, Pair
  <2>2. [pairs[s] EXCEPT !.second = v] = Pair(pairs[s].first, v)
    BY <1>5 DEF Entry, Pair
  <2>3. CASE Head(todo).op = "assign"
    <3>1. pairs' = [pairs EXCEPT ![s].second = v]
      BY <1>3, <1>4, <1>6, <2>3 DEF InsertHit
    <3> QED BY <2>2, <3>1
  <2>4. CASE Head(todo).op # "assign"
    <3>1. pairs' = pairs /\ v = pairs[s].second
      BY <1>6, <2>4 DEF InsertHit
    <3>2. pairs = [pairs EXCEPT ![s] = pairs[s]]
      BY <1>2 DEF Array
    <3> QED BY <2>1, <3>1, <3>2
  <2> QED BY <2>3, <2>4
<1>8. /\ Array'
      /\ Elements' = (Elements \ {<<pairs[s].first, pairs[s].second>>}) \cup {<<pairs[s].first, v>>}
      /\ \A t \in 0 .. num_filled - 1 : pairs'[t] \in Entry /\ pairs'[t].first = pairs[t].first
  BY <1>1, <1>2, <1>4, <1>7, ArrayWritten
<1>9. PICK n \in Nat : n = num_filled
  BY <1>2
<1>10. Names(n)'
  BY <1>1, <1>2, <1>8, <1>9, NamesKept
<1>11. Inv'
  <2>1. last' \in 0 .. num_buckets /\ ret' \in BOOLEAN /\ num_filled' = n /\ n =< num_filled + 1
    <3>1. last \in 0 .. num_buckets
      BY <1>2 DEF Sizes
    <3>2. num_filled' = n /\ n =< num_filled + 1
      BY <1>1, <1>9
    <3>3. last' = last /\ num_buckets' = num_buckets /\ ret' \in BOOLEAN
      BY <1>1
    <3> QED BY <3>1, <3>2, <3>3
  <2> QED BY <1>1, <1>8, <1>10, <2>1, InsertionDone
<1>12. RequestTaken
  BY <1>1, InsertContext DEF RequestTaken, Req
<1>13. <<k, pairs[s].second>> \in Elements /\ pairs[s].second \in Value
  BY <1>4, <1>5 DEF Elements, Entry
<1>14. Overwritten(Req.key, pairs[s].second,
                   IF Req.op = "assign" THEN Req.val ELSE pairs[s].second)
  BY <1>3, <1>4, <1>6, <1>8, <1>13 DEF Overwritten, Req
<1> QED BY <1>1, <1>11, <1>12, <1>13, <1>14

\* The map has nothing for k, and has v for it afterwards.
Added(k, v) ==
  /\ \A e \in Elements : e[1] # k
  /\ Elements' = Elements \cup {<<k, v>>}

LEMMA InsertMissOK ==
  ASSUME Inv, InsertMiss
  PROVE  Inv' /\ ret' = TRUE /\ RequestTaken /\ Added(Req.key, Req.val)
<1>1. /\ pc = "insert" /\ Misses(Head(todo)) /\ num_filled < pairs_capacity
      /\ IndexSlot(Head(todo).key, num_filled, Walked(Head(todo)))
      /\ pairs' = [pairs EXCEPT ![num_filled] = Pair(Head(todo).key, Head(todo).val)]
      /\ num_filled' = num_filled + 1
      /\ todo' = Tail(todo) /\ pc' = Resume(Tail(todo)) /\ ret' = TRUE
      /\ UNCHANGED <<num_buckets, pairs_capacity, mlf, slot>>
  BY DEF InsertMiss, layout
<1>2. /\ Sizes /\ Array /\ Names(num_filled) /\ num_filled \in Nat
      /\ Head(todo).key \in Key /\ Head(todo).val \in Value
      /\ Head(todo) = todo[1] /\ Len(todo) \in Nat \ {0}
  BY <1>1, InsertContext
<1>3. PICK k \in Key, v \in Value, n \in Nat :
        k = Head(todo).key /\ v = Head(todo).val /\ n = num_filled
  BY <1>2
<1>4. \A s \in 0 .. num_filled - 1 : pairs[s].first # k
  <2>1. CASE Head(todo).op = "unique"
    <3>1. 1 \in 1 .. Len(todo) /\ todo[1].op = "unique"
      BY <2>1, <1>2
    <3>2. \A e \in Elements : e[1] # k
      BY <3>1, <1>2, <1>3 DEF Inv, UniqueIsNew
    <3>3. \A s \in 0 .. num_filled - 1 : <<pairs[s].first, pairs[s].second>> \in Elements
      BY DEF Elements
    <3> QED BY <3>2, <3>3
  <2>2. CASE ~ Meets(k)
    BY <2>2, <1>2, SearchExact
  <2> QED BY <2>1, <2>2, <1>1, <1>3 DEF Misses
<1>5. /\ Array' /\ Elements' = Elements \cup {<<k, v>>}
      /\ \A t \in 0 .. num_filled - 1 : pairs'[t] = pairs[t]
      /\ pairs'[num_filled] = Pair(k, v)
  BY <1>1, <1>2, <1>3, <1>4, ArrayAppended
<1>6. Extends(n) /\ pairs'[n].first = k
  BY <1>1, <1>3, <1>5, PairType DEF Extends
<1>7. PICK csize : IndexSlot(k, n, csize)
  BY <1>1, <1>3
<1>8. Names(n + 1)' /\ last' \in 0 .. num_buckets
  BY <1>2, <1>3, <1>6, <1>7, IndexSlotNames
<1>9. Inv'
  <2>1. n + 1 \in Nat /\ num_filled' = n + 1 /\ n + 1 =< num_filled + 1 /\ ret' \in BOOLEAN
    BY <1>1, <1>3
  <2> QED BY <1>1, <1>5, <1>8, <2>1, InsertionDone
<1>10. RequestTaken /\ Added(Req.key, Req.val)
  <2>1. \A e \in Elements : e[1] # k
    BY <1>4 DEF Elements
  <2> QED BY <1>1, <1>3, <1>5, <2>1, InsertContext DEF RequestTaken, Req, Added
<1> QED BY <1>1, <1>9, <1>10

-----------------------------------------------------------------------------
(* The calls that do not insert.                                           *)

\* A step that ends in "ready" where it began in it.
LEMMA ReadyStep ==
  ASSUME Inv, pc = "ready", pc' = "ready", Array', NEW n \in Nat, Names(n)', num_filled' = n,
         n =< num_filled, last' \in 0 .. num_buckets,
         UNCHANGED <<num_buckets, slot, todo>>,
         mlf' \in Nat, mlf' >= FixedOne, ret' \in BOOLEAN
  PROVE  Inv'
<1>1. todo = <<>> /\ TodoMatches'
  BY DEF Inv, TodoMatches
<1>2. UniqueIsNew'
  BY <1>1 DEF UniqueIsNew
<1>3. Names(Indexed)'
  <2>1. Indexed' = n
    BY DEF Indexed
  <2> QED BY <2>1, NamesNow
<1>4. Sizes' /\ Types'
  BY DEF Inv, Sizes, Types
<1>5. Room'
  <2>1. num_filled \in Nat /\ num_buckets \in Nat /\ Len(todo) \in Nat
    BY IndexedType DEF Inv, Sizes, Types
  <2> QED BY <2>1 DEF Inv, Room
<1> QED BY <1>1, <1>2, <1>3, <1>4, <1>5 DEF Inv

\* The map has u for k, and nothing afterwards.
Dropped(k, u) ==
  /\ <<k, u>> \in Elements
  /\ Elements' = Elements \ {<<k, u>>}

LEMMA EraseSlotOK ==
  ASSUME Inv, pc = "ready", ret' \in BOOLEAN, NEW b \in Filled, EraseSlot(b)
  PROVE  /\ Inv' /\ index[b].slot \in 0 .. num_filled - 1 /\ pairs[index[b].slot] \in Entry
         /\ Dropped(pairs[index[b].slot].first, pairs[index[b].slot].second)
         /\ num_filled' = num_filled - 1
         /\ \A t \in 0 .. num_filled' - 1 :
              pairs'[t] = IF t = index[b].slot THEN pairs[num_filled - 1] ELSE pairs[t]
<1>1. Sizes /\ Array /\ Names(num_filled) /\ num_filled \in Nat
  BY NamesAll
<1>2. PICK s \in 0 .. num_filled - 1 : s = index[b].slot
  BY <1>1 DEF Names
<1>3. PICK n \in Nat : num_filled = n + 1
  <2>1. num_filled - 1 \in Nat /\ num_filled = (num_filled - 1) + 1
    BY <1>1, <1>2
  <2> QED BY <2>1
<1>4. Names(n + 1)
  BY <1>1, <1>3
<1>5. Names(n)' /\ FillGap(s, n)
  BY <1>1, <1>2, <1>3, <1>4, EraseSlotNames
<1>6. s \in 0 .. n
  BY <1>2, <1>3
<1>7. /\ Array' /\ Elements' = Elements \ {<<pairs[s].first, pairs[s].second>>}
      /\ \A t \in 0 .. n - 1 : pairs'[t] = IF t = s THEN pairs[n] ELSE pairs[t]
  BY <1>1, <1>3, <1>5, <1>6, ArrayGapFilled
<1>8. Inv'
  <2>1. pc' = "ready" /\ num_filled' = n /\ n =< num_filled
        /\ UNCHANGED <<num_buckets, slot, todo, mlf, last>>
    BY <1>3, <1>5 DEF EraseSlot, FillGap
  <2>2. last' \in 0 .. num_buckets /\ mlf' \in Nat /\ mlf' >= FixedOne
    BY <2>1 DEF Inv, Sizes, Types
  <2> QED BY <1>5, <1>7, <2>1, <2>2, ReadyStep
<1>9. pairs[s] \in Entry /\ <<pairs[s].first, pairs[s].second>> \in Elements
  BY <1>1, <1>2, ElementIsEntry DEF Elements
<1>10. num_filled' = n /\ num_filled - 1 = n
  BY <1>3, <1>5 DEF FillGap
<1> QED BY <1>2, <1>7, <1>8, <1>9, <1>10 DEF Dropped

LEMMA EraseKeyOK ==
  ASSUME Inv, NEW k \in Key, EraseKey(k)
  PROVE  /\ Inv'
         /\ \/ Elements' = Elements /\ ret' = FALSE /\ \A e \in Elements : e[1] # k
            \/ \E u \in Value : Dropped(k, u) /\ ret' = TRUE
<1>1. pc = "ready" /\ ret' = (FindFilledBucket(k) # num_buckets) /\ ret' \in BOOLEAN
  BY DEF EraseKey
<1>2. Sizes /\ Array /\ Names(num_filled) /\ num_filled \in Nat
  BY <1>1, NamesAll
<1>3. CASE \A s \in 0 .. num_filled - 1 : pairs[s].first # k
  <2>1. FindFilledBucket(k) = num_buckets
    BY <1>2, <1>3, SearchExact
  <2>2. /\ pc' = "ready"
        /\ UNCHANGED <<num_buckets, pairs_capacity, num_filled, mlf, index, pairs, last, slot, todo>>
    BY <1>1, <2>1 DEF EraseKey, layout
  <2>3. PICK n \in Nat : n = num_filled
    BY <1>2
  <2>4. Array' /\ Names(n)' /\ Elements' = Elements
    BY <1>2, <2>2, <2>3, TableKept
  <2>5. last' \in 0 .. num_buckets /\ mlf' \in Nat /\ mlf' >= FixedOne
    BY <2>2 DEF Inv, Sizes, Types
  <2>6. Inv'
    BY <1>1, <2>2, <2>3, <2>4, <2>5, ReadyStep
  <2>7. \A e \in Elements : e[1] # k
    BY <1>3 DEF Elements
  <2> QED BY <1>1, <2>1, <2>4, <2>6, <2>7
<1>4. CASE ~ \A s \in 0 .. num_filled - 1 : pairs[s].first # k
  <2>1. PICK s \in 0 .. num_filled - 1 : pairs[s].first = k
    BY <1>4
  <2>2. PICK b \in Filled : b = FindFilledBucket(k) /\ index[b].slot = s
    BY <1>2, <2>1, SearchExact
  <2>3. b # num_buckets
    BY <1>2, FilledType DEF Sizes, Buckets
  <2>4. EraseSlot(b) /\ ret' = TRUE
    BY <1>1, <2>2, <2>3 DEF EraseKey
  <2>5. Inv' /\ pairs[s] \in Entry /\ Dropped(k, pairs[s].second)
    BY <1>1, <2>1, <2>2, <2>4, EraseSlotOK
  <2>6. pairs[s].second \in Value
    BY <2>5 DEF Entry
  <2> QED BY <2>4, <2>5, <2>6
<1> QED BY <1>3, <1>4

\* An erasure at a position takes out the element that lies there.
LEMMA EraseAtOK ==
  ASSUME Inv, pc = "ready", ret' \in BOOLEAN, NEW s \in 0 .. num_filled - 1, EraseAt(s)
  PROVE  /\ Inv' /\ pairs[s] \in Entry /\ Dropped(pairs[s].first, pairs[s].second)
         /\ num_filled' = num_filled - 1
         /\ \A t \in 0 .. num_filled' - 1 :
              pairs'[t] = IF t = s THEN pairs[num_filled - 1] ELSE pairs[t]
<1>1. Sizes /\ Array /\ Names(num_filled) /\ num_filled \in Nat
  BY NamesAll
<1>2. PICK b \in Filled : b = SlotToBucket(s) /\ index[b].slot = s
  BY <1>1, SlotToBucketExact
<1>3. EraseSlot(b)
  BY <1>2 DEF EraseAt
<1> QED BY <1>2, <1>3, EraseSlotOK

\* clear leaves the index alone when the map holds nothing: it is empty then.
LEMMA ClearOK ==
  ASSUME Inv, Clear
  PROVE  Inv' /\ Elements' = {} /\ ret' = ret /\ todo' = todo
<1>1. /\ pc = "ready" /\ pc' = "ready" /\ num_filled' = 0 /\ last' = 0
      /\ index' = IF num_filled > 0 THEN [b \in Buckets |-> NoIndex] ELSE index
      /\ pairs' = [s \in DOMAIN pairs |-> NoPair]
      /\ UNCHANGED <<num_buckets, pairs_capacity, mlf, slot, todo, ret>>
  BY DEF Clear, layout
<1>2. Sizes /\ Array /\ Names(num_filled) /\ num_filled \in Nat
  BY <1>1, NamesAll
<1>3. index' = [b \in Buckets |-> NoIndex]
  <2>1. CASE num_filled = 0
    <3>1. Filled = {}
      BY <1>2, <2>1, FilledType, FS_EmptySet DEF Names
    <3>2. \A b \in Buckets : index[b] = NoIndex
      BY <3>1 DEF Filled
    <3>3. index = [b \in Buckets |-> index[b]]
      BY <1>2 DEF Names
    <3> QED BY <1>1, <2>1, <3>2, <3>3
  <2>2. CASE num_filled # 0
    BY <1>1, <1>2, <2>2
  <2> QED BY <2>1, <2>2
<1>4. Names(0)'
  <2>1. EmptyIndex'
    BY <1>1, <1>2, <1>3 DEF EmptyIndex, Sizes, Buckets
  <2> QED BY <2>1, EmptyNames, PTL
<1>5. Array' /\ Elements' = {}
  <2>1. \A s \in 0 .. pairs_capacity - 1 : pairs'[s] = NoPair
    BY <1>1, <1>2 DEF Array
  <2>2. Array'
    BY <1>1, <1>2, <2>1 DEF Array
  <2> QED BY <1>1, <2>2 DEF Elements
<1>6. Inv'
  <2>1. /\ last' \in 0 .. num_buckets /\ 0 =< num_filled
        /\ mlf' \in Nat /\ mlf' >= FixedOne /\ ret' \in BOOLEAN
    BY <1>1, <1>2 DEF Sizes, Inv, Types
  <2> QED BY <1>1, <1>4, <1>5, <2>1, ReadyStep
<1> QED BY <1>1, <1>5, <1>6

\* An accepted load factor is below one: the fixed point of its inverse is not.
LEMMA InverseAboveOne ==
  ASSUME NEW lf \in Nat, lf =< 999, lf > 250
  PROVE  (FixedOne * 1000) \div lf \in Nat /\ (FixedOne * 1000) \div lf >= FixedOne
<1>1. lf \in Nat \ {0} /\ 1000 >= lf /\ 1000 \in Nat
  OBVIOUS
<1> QED BY <1>1, LoadAssumption, RequiredSuffices

LEMMA MaxLoadFactorOK ==
  ASSUME Inv, NEW lf \in LoadFactors, MaxLoadFactor(lf)
  PROVE  Inv' /\ Kept
<1>1. /\ pc = "ready" /\ pc' = "ready"
      /\ UNCHANGED <<num_buckets, pairs_capacity, num_filled, index, pairs, last, slot, todo, ret>>
  BY DEF MaxLoadFactor, layout
<1>2. Sizes /\ Array /\ Names(num_filled) /\ num_filled \in Nat
  BY <1>1, NamesAll
<1>3. PICK n \in Nat : n = num_filled
  BY <1>2
<1>4. Array' /\ Names(n)' /\ Elements' = Elements
  BY <1>1, <1>2, <1>3, TableKept
<1>5. mlf' \in Nat /\ mlf' >= FixedOne
  <2>1. lf \in Nat /\ mlf \in Nat /\ mlf >= FixedOne
    BY LoadAssumption DEF Inv, Types
  <2>2. mlf' = IF Accepted(lf) THEN (FixedOne * 1000) \div lf ELSE mlf
    BY DEF MaxLoadFactor
  <2>3. CASE Accepted(lf)
    BY <2>1, <2>2, <2>3, InverseAboveOne DEF Accepted
  <2> QED BY <2>1, <2>2, <2>3
<1>6. last' \in 0 .. num_buckets /\ ret' \in BOOLEAN /\ num_filled' = n /\ n =< num_filled
  <2>1. last' = last /\ ret' = ret /\ num_filled' = n /\ n =< num_filled
    BY <1>1, <1>3
  <2> QED BY <1>2, <2>1 DEF Sizes, Inv, Types
<1>7. Inv'
  BY <1>1, <1>4, <1>5, <1>6, ReadyStep
<1> QED BY <1>1, <1>4, <1>7 DEF Kept

LEMMA TrySetOK ==
  ASSUME Inv, NEW k \in Key, NEW v \in Value, TrySet(k, v)
  PROVE  /\ Inv'
         /\ \/ Elements' = Elements /\ ret' = FALSE /\ \A e \in Elements : e[1] # k
            \/ \E u \in Value : Overwritten(k, u, v) /\ ret' = TRUE
<1>1. /\ pc = "ready" /\ pc' = "ready"
      /\ ret' = (FindFilledBucket(k) # num_buckets) /\ ret' \in BOOLEAN
      /\ UNCHANGED <<num_buckets, pairs_capacity, num_filled, mlf, index, last, slot, todo>>
  BY DEF TrySet, layout
<1>2. Sizes /\ Array /\ Names(num_filled) /\ num_filled \in Nat
  BY <1>1, NamesAll
<1>3. PICK n \in Nat : n = num_filled
  BY <1>2
<1>4. ASSUME Array', Names(n)' PROVE Inv'
  <2>1. /\ last' = last /\ mlf' = mlf /\ num_filled' = n /\ n =< num_filled
    BY <1>1, <1>3
  <2>2. last' \in 0 .. num_buckets /\ mlf' \in Nat /\ mlf' >= FixedOne
    BY <2>1 DEF Inv, Sizes, Types
  <2> QED BY <1>1, <1>4, <2>1, <2>2, ReadyStep
<1>5. CASE \A s \in 0 .. num_filled - 1 : pairs[s].first # k
  <2>1. FindFilledBucket(k) = num_buckets
    BY <1>2, <1>5, SearchExact
  <2>2. pairs' = pairs
    BY <2>1 DEF TrySet
  <2>3. Array' /\ Names(n)' /\ Elements' = Elements
    BY <1>1, <1>2, <1>3, <2>2, TableKept
  <2>4. \A e \in Elements : e[1] # k
    BY <1>5 DEF Elements
  <2> QED BY <1>1, <1>4, <2>1, <2>3, <2>4
<1>6. CASE ~ \A s \in 0 .. num_filled - 1 : pairs[s].first # k
  <2>1. PICK s \in 0 .. num_filled - 1 : pairs[s].first = k
    BY <1>6
  <2>2. FindFilledBucket(k) \in Filled /\ index[FindFilledBucket(k)].slot = s
    BY <1>2, <2>1, SearchExact
  <2>3. FindFilledBucket(k) # num_buckets
    BY <1>2, <2>2, FilledType DEF Sizes, Buckets
  <2>4. pairs' = [pairs EXCEPT ![s] = Pair(pairs[s].first, v)]
    BY <2>1, <2>2, <2>3 DEF TrySet
  <2>5. /\ Array'
        /\ Elements' = (Elements \ {<<pairs[s].first, pairs[s].second>>}) \cup {<<pairs[s].first, v>>}
        /\ \A t \in 0 .. num_filled - 1 : pairs'[t] \in Entry /\ pairs'[t].first = pairs[t].first
    BY <1>1, <1>2, <2>4, ArrayWritten
  <2>6. Names(n)'
    BY <1>1, <1>2, <1>3, <2>5, NamesKept
  <2>7. pairs[s] \in Entry /\ <<pairs[s].first, pairs[s].second>> \in Elements
    BY <1>2, ElementIsEntry DEF Elements
  <2>8. pairs[s].second \in Value
    BY <2>7 DEF Entry
  <2>9. Overwritten(k, pairs[s].second, v)
    BY <2>1, <2>5, <2>7 DEF Overwritten
  <2> QED BY <1>1, <1>4, <2>3, <2>5, <2>6, <2>8, <2>9
<1> QED BY <1>5, <1>6

-----------------------------------------------------------------------------
(* The calls that insert.                                                  *)

LEMMA OneCallOK ==
  ASSUME Inv, NEW r \in Request, Call(num_filled, <<r>>),
         r.op = "unique" => \A e \in Elements : e[1] # r.key
  PROVE  Inv' /\ Kept
<1> DEFINE reqs == <<r>>
<1>1. reqs \in Seq(Request) /\ Len(reqs) = 1 /\ reqs[1] = r
  OBVIOUS
<1>2. num_filled \in Nat /\ num_filled + Len(reqs) =< num_filled + 1
  BY <1>1, IndexedType
<1>3. \A i \in 1 .. Len(reqs) : reqs[i].op = "unique" =>
            Len(reqs) = 1 /\ \A e \in Elements : e[1] # reqs[i].key
  BY <1>1
<1>4. Call(num_filled, reqs)
  OBVIOUS
<1> HIDE DEF reqs
<1>5. Inv' /\ Elements' = Elements /\ ret' = ret
  BY <1>1, <1>2, <1>3, <1>4, CallOK
<1> QED BY <1>5 DEF Kept

LEMMA RangeRequestsType ==
  ASSUME NEW keys \in Seq(Key), NEW v \in Value
  PROVE  /\ RangeRequests(keys, v) \in Seq(Request)
         /\ Len(RangeRequests(keys, v)) = Len(keys) /\ Len(keys) \in Nat
         /\ \A i \in 1 .. Len(keys) : RangeRequests(keys, v)[i].op # "unique"
<1>1. DOMAIN keys = 1 .. Len(keys) /\ Len(keys) \in Nat /\ \A i \in 1 .. Len(keys) : keys[i] \in Key
  OBVIOUS
<1>2. \A i \in 1 .. Len(keys) : [op |-> "insert", key |-> keys[i], val |-> v] \in Request
  BY <1>1 DEF Request
<1>3. RangeRequests(keys, v) =
        [i \in 1 .. Len(keys) |-> [op |-> "insert", key |-> keys[i], val |-> v]]
  BY <1>1 DEF RangeRequests
<1>4. PICK f \in [1 .. Len(keys) -> Request] : f = RangeRequests(keys, v)
  BY <1>2, <1>3
<1>5. f \in Seq(Request) /\ Len(f) = Len(keys)
  BY <1>1, <1>4
<1>6. \A i \in 1 .. Len(keys) : RangeRequests(keys, v)[i].op = "insert"
  BY <1>3
<1> QED BY <1>1, <1>4, <1>5, <1>6

LEMMA RangeCallOK ==
  ASSUME Inv, NEW keys \in Batches, NEW v \in Value, InsertRange(keys, v)
  PROVE  Inv' /\ Kept
<1>1. keys \in Seq(Key)
  BY InputAssumption
<1>2. PICK reqs \in Seq(Request) :
        /\ reqs = RangeRequests(keys, v) /\ Len(reqs) = Len(keys) /\ Len(keys) \in Nat
        /\ \A i \in 1 .. Len(reqs) : reqs[i].op # "unique"
  BY <1>1, RangeRequestsType
<1>3. num_filled \in Nat
  BY IndexedType
<1>4. num_filled + Len(keys) \in Nat /\ num_filled + Len(reqs) =< (num_filled + Len(keys)) + 1
  BY <1>2, <1>3
<1>5. Call(num_filled + Len(keys), reqs)
  BY <1>2 DEF InsertRange
<1>6. Inv' /\ Elements' = Elements /\ ret' = ret
  BY <1>2, <1>4, <1>5, CallOK
<1> QED BY <1>6 DEF Kept

-----------------------------------------------------------------------------
(* Every step does one of seven things to the map, and keeps the invariant. *)

Effect ==
  \/ Kept /\ (todo = <<>> \/ todo' = todo)
  \/ RequestTaken /\ ret' = TRUE /\ Added(Req.key, Req.val)
  \/ RequestTaken /\ ret' = FALSE /\ \E u \in Value :
        Overwritten(Req.key, u, IF Req.op = "assign" THEN Req.val ELSE u)
  \/ /\ todo = <<>> /\ todo' = todo
     /\ \/ \E k \in Key : Elements' = Elements /\ (\A e \in Elements : e[1] # k) /\ ret' = FALSE
        \/ \E k \in Key, u \in Value : Dropped(k, u) /\ (ret' = TRUE \/ ret' = ret)
        \/ \E k \in Key, u, v \in Value : Overwritten(k, u, v) /\ ret' = TRUE
        \/ Elements' = {} /\ ret' = ret

LEMMA InternalOK == ASSUME Inv, Internal PROVE Inv' /\ Effect
<1>1. CASE RehashStep
  <2>1. todo' = todo
    BY <1>1 DEF RehashStep
  <2> QED BY <2>1, <1>1, RehashStepOK DEF Effect
<1>2. CASE RehashDone
  <2>1. todo' = todo
    BY <1>2 DEF RehashDone
  <2> QED BY <2>1, <1>2, RehashDoneOK DEF Effect
<1>3. CASE InsertHit
  BY <1>3, InsertHitOK DEF Effect
<1>4. CASE InsertMiss
  BY <1>4, InsertMissOK DEF Effect
<1> QED BY <1>1, <1>2, <1>3, <1>4 DEF Internal

\* A call is made when none is running.
LEMMA ExternalWhenReady == External => pc = "ready"
<1>1. \A n, reqs : Call(n, reqs) => pc = "ready"
  BY DEF Call
<1>2. \A n : Rehash(n) => pc = "ready"
  BY DEF Rehash
<1>3. \A k, v : Insert(k, v) \/ InsertOrAssign(k, v) \/ InsertUnique(k, v) => pc = "ready"
  BY <1>1 DEF Insert, InsertOrAssign, InsertUnique
<1>4. \A k, v : TrySet(k, v) => pc = "ready"
  BY DEF TrySet
<1>5. \A k : OperatorIndex(k) \/ EraseKey(k) => pc = "ready"
  BY <1>3 DEF OperatorIndex, EraseKey
<1>6. \A keys, v : InsertRange(keys, v) => pc = "ready"
  BY <1>1 DEF InsertRange
<1>7. \A n : Reserve(n) => pc = "ready"
  BY <1>2 DEF Reserve
<1>8. ShrinkToFit \/ Clear => pc = "ready"
  BY <1>2 DEF ShrinkToFit, Clear
<1>9. \A x : MaxLoadFactor(x) \/ EraseIterator(x) => pc = "ready"
  BY DEF MaxLoadFactor, EraseIterator
<1> QED BY <1>2, <1>3, <1>4, <1>5, <1>6, <1>7, <1>8, <1>9 DEF External

LEMMA ExternalOK == ASSUME Inv, External PROVE Inv' /\ Effect
<1>0. todo = <<>> /\ pc = "ready"
  BY ExternalWhenReady DEF Inv, TodoMatches
<1>1. ASSUME NEW k \in Key, NEW v \in Value, Insert(k, v) PROVE Inv' /\ Kept
  <2> DEFINE r == [op |-> "insert", key |-> k, val |-> v]
  <2>1. r \in Request /\ r.op = "insert"
    BY DEF Request
  <2>2. Call(num_filled, <<r>>)
    BY <1>1 DEF Insert
  <2> HIDE DEF r
  <2> QED BY <2>1, <2>2, OneCallOK
<1>2. ASSUME NEW k \in Key, NEW v \in Value, InsertOrAssign(k, v) PROVE Inv' /\ Kept
  <2> DEFINE r == [op |-> "assign", key |-> k, val |-> v]
  <2>1. r \in Request /\ r.op = "assign"
    BY DEF Request
  <2>2. Call(num_filled, <<r>>)
    BY <1>2 DEF InsertOrAssign
  <2> HIDE DEF r
  <2> QED BY <2>1, <2>2, OneCallOK
<1>3. ASSUME NEW k \in Key, NEW v \in Value, InsertUnique(k, v) PROVE Inv' /\ Kept
  <2> DEFINE r == [op |-> "unique", key |-> k, val |-> v]
  <2>1. r \in Request /\ r.key = k
    BY DEF Request
  <2>2. Call(num_filled, <<r>>) /\ FindFilledBucket(k) = num_buckets
    BY <1>3 DEF InsertUnique
  <2> HIDE DEF r
  <2>3. Sizes /\ Array /\ Names(num_filled) /\ num_filled \in Nat
    BY <1>0, NamesAll
  <2>4. \A s \in 0 .. num_filled - 1 : pairs[s].first # k
    <3>1. num_buckets \notin Filled
      BY <2>3, FilledType DEF Sizes, Buckets
    <3> QED BY <2>2, <2>3, <3>1, SearchExact
  <2>5. \A e \in Elements : e[1] # r.key
    BY <2>1, <2>4 DEF Elements
  <2> QED BY <2>1, <2>2, <2>5, OneCallOK
<1>4. ASSUME NEW k \in Key, OperatorIndex(k) PROVE Inv' /\ Kept
  BY <1>1, <1>4, ValueAssumption DEF OperatorIndex
<1>5. ASSUME NEW k \in Key, EraseKey(k) PROVE Inv' /\ Effect
  <2>1. /\ Inv'
        /\ \/ Elements' = Elements /\ ret' = FALSE /\ \A e \in Elements : e[1] # k
           \/ \E u \in Value : Dropped(k, u) /\ ret' = TRUE
    BY <1>5, EraseKeyOK
  <2>2. todo' = todo
    BY <1>5 DEF EraseKey, EraseSlot
  <2> QED BY <2>1, <2>2, <1>0 DEF Effect
<1>6. ASSUME NEW s \in 0 .. num_filled - 1, EraseIterator(s) PROVE Inv' /\ Effect
  <2>1. pc = "ready" /\ ret' = ret /\ ret' \in BOOLEAN /\ EraseAt(s)
    BY <1>6 DEF EraseIterator, Inv, Types
  <2>2. Inv' /\ pairs[s] \in Entry /\ Dropped(pairs[s].first, pairs[s].second)
    BY <2>1, EraseAtOK
  <2>3. todo' = todo
    BY <2>1 DEF EraseAt, EraseSlot
  <2>4. pairs[s].first \in Key /\ pairs[s].second \in Value
    BY <2>2 DEF Entry
  <2> QED BY <2>1, <2>2, <2>3, <2>4, <1>0 DEF Effect
<1>7. ASSUME NEW n \in Nat, Rehash(n) PROVE Inv' /\ Kept
  BY <1>7, RehashOK DEF Kept
<1>8. CASE ShrinkToFit
  <2>1. num_filled + 1 \in Nat
    BY IndexedType
  <2> QED BY <2>1, <1>0, <1>7, <1>8 DEF ShrinkToFit, Effect
<1>9. CASE Clear
  BY <1>0, <1>9, ClearOK DEF Effect
<1>10. ASSUME NEW k \in Key, NEW v \in Value, TrySet(k, v) PROVE Inv' /\ Effect
  <2>1. /\ Inv'
        /\ \/ Elements' = Elements /\ ret' = FALSE /\ \A e \in Elements : e[1] # k
           \/ \E u \in Value : Overwritten(k, u, v) /\ ret' = TRUE
    BY <1>10, TrySetOK
  <2>2. todo' = todo
    BY <1>10 DEF TrySet
  <2> QED BY <2>1, <2>2, <1>0 DEF Effect
<1>11. CASE \E n \in Requests : Reserve(n) \/ Rehash(n)
  <2>1. PICK n \in Requests : Reserve(n) \/ Rehash(n)
    BY <1>11
  <2>2. n \in Nat
    BY InputAssumption
  <2>3. Inv' /\ Kept
    BY <2>1, <2>2, <1>7, ReserveOK DEF Kept
  <2> QED BY <1>0, <2>3 DEF Effect
<1>12. CASE \E k \in Key, v \in Value :
              Insert(k, v) \/ InsertOrAssign(k, v) \/ InsertUnique(k, v) \/ TrySet(k, v)
  BY <1>0, <1>1, <1>2, <1>3, <1>10, <1>12 DEF Effect
<1>13. CASE \E k \in Key : OperatorIndex(k) \/ EraseKey(k)
  BY <1>0, <1>4, <1>5, <1>13 DEF Effect
<1>14. CASE \E keys \in Batches, v \in Value : InsertRange(keys, v)
  BY <1>0, <1>14, RangeCallOK DEF Effect
<1>15. CASE \E lf \in LoadFactors : MaxLoadFactor(lf)
  BY <1>0, <1>15, MaxLoadFactorOK DEF Effect
<1>16. CASE \E s \in 0 .. num_filled - 1 : EraseIterator(s)
  BY <1>6, <1>16
<1> QED BY <1>8, <1>9, <1>11, <1>12, <1>13, <1>14, <1>15, <1>16 DEF External

\* The constructors: a map without elements, whatever the load factor asked for.
Constructed(asked, load, keys, v) ==
  /\ Allocatable(asked)
  /\ num_buckets = BucketsFor(asked)
  /\ num_filled = 0
  /\ mlf = (FixedOne * 1000) \div load
  /\ pairs_capacity = NeedSize(num_buckets, asked)
  /\ index = [b \in Buckets |-> NoIndex]
  /\ pairs = [s \in 0 .. pairs_capacity - 1 |-> NoPair]
  /\ last = 0 /\ slot = 0
  /\ todo = RangeRequests(keys, v)
  /\ ret = FALSE
  /\ pc = Resume(todo)

LEMMA InitTable ==
  ASSUME NEW n \in Requests, NEW lf \in InitialLoads, NEW keys \in Batches \cup {<<>>},
         NEW v \in Value, NEW asked \in Nat, NEW load \in Nat,
         asked = IF keys = <<>> THEN n ELSE Len(keys),
         load = IF keys = <<>> /\ Accepted(lf) THEN lf ELSE DefaultLoad,
         Constructed(asked, load, keys, v)
  PROVE  Inv /\ Elements = {} /\ ret = FALSE
<1>0. /\ Allocatable(asked) /\ num_buckets = BucketsFor(asked) /\ num_filled = 0
      /\ index = [b \in Buckets |-> NoIndex]
      /\ pairs = [s \in 0 .. pairs_capacity - 1 |-> NoPair]
      /\ last = 0 /\ slot = 0 /\ todo = RangeRequests(keys, v) /\ ret = FALSE
      /\ pc = Resume(todo)
  BY DEF Constructed
<1>1. num_buckets \in Nat \ {0} /\ num_buckets >= asked
  BY <1>0, BucketsForEnough
<1>2. mlf \in Nat /\ mlf >= FixedOne
  <2>1. load =< 999 /\ load > 250
    BY LoadAssumption DEF Accepted
  <2> QED BY <2>1, InverseAboveOne DEF Constructed
<1>3. pairs_capacity \in Nat
  <2>1. PICK b \in Nat : b = num_buckets
    BY <1>1
  <2>2. pairs_capacity = NeedSize(b, asked)
    BY <2>1 DEF Constructed
  <2>3. NeedSize(b, asked) \in Nat
    BY <1>2, NeedSizeType, Zenon
  <2> QED BY <2>2, <2>3
<1>4. keys \in Seq(Key)
  <2>1. <<>> \in Seq(Key)
    OBVIOUS
  <2> QED BY <2>1, InputAssumption
<1>5. /\ todo \in Seq(Request) /\ Len(todo) = Len(keys) /\ Len(keys) \in Nat
      /\ \A i \in 1 .. Len(todo) : todo[i].op # "unique"
  BY <1>0, <1>4, RangeRequestsType
<1>6. num_buckets >= Len(todo)
  <2>1. CASE keys = <<>>
    <3>1. Len(keys) = 0
      BY <2>1
    <3> QED BY <1>1, <1>5, <3>1
  <2>2. CASE keys # <<>>
    BY <1>1, <1>5, <2>2
  <2> QED BY <2>1, <2>2
<1>7. Array /\ Elements = {}
  BY <1>0, <1>3 DEF Array, Elements
<1>8. Names(0)
  BY <1>0, <1>1, EmptyNames DEF EmptyIndex
<1>9. pc \in {"ready", "insert"} /\ TodoMatches
  BY <1>0 DEF Resume, TodoMatches
<1>10. Names(Indexed)
  <2>1. Indexed = 0
    BY <1>0, <1>9 DEF Indexed
  <2> QED BY <1>8, <2>1
<1>11. Sizes /\ Types /\ Room
  <2>1. Sizes
    BY <1>0, <1>1 DEF Sizes
  <2>2. Types
    BY <1>0, <1>2, <1>5, <1>9 DEF Types
  <2> QED BY <1>0, <1>1, <1>5, <1>6, <2>1, <2>2 DEF Room
<1>12. UniqueIsNew
  BY <1>5 DEF UniqueIsNew
<1> QED BY <1>0, <1>7, <1>9, <1>10, <1>11, <1>12 DEF Inv

LEMMA InitOK == Init => Inv /\ Elements = {} /\ ret = FALSE
<1> SUFFICES ASSUME Init PROVE Inv /\ Elements = {} /\ ret = FALSE
  OBVIOUS
<1>1. PICK n \in Requests, lf \in InitialLoads, keys \in Batches \cup {<<>>}, v \in Value :
        Constructed(IF keys = <<>> THEN n ELSE Len(keys),
                    IF keys = <<>> /\ Accepted(lf) THEN lf ELSE DefaultLoad, keys, v)
  BY Zenon DEF Init, Constructed
<1>2. n \in Nat /\ lf \in Nat /\ DefaultLoad \in Nat
  BY InputAssumption, LoadAssumption
<1>3. PICK asked \in Nat : asked = IF keys = <<>> THEN n ELSE Len(keys)
  <2>1. keys # <<>> => keys \in Seq(Key)
    BY InputAssumption
  <2>2. keys # <<>> => Len(keys) \in Nat
    BY <2>1
  <2> QED BY <1>2, <2>2
<1>4. PICK load \in Nat : load = IF keys = <<>> /\ Accepted(lf) THEN lf ELSE DefaultLoad
  BY <1>2
<1>5. Constructed(asked, load, keys, v)
  BY <1>1, <1>3, <1>4
<1> QED BY <1>3, <1>4, <1>5, InitTable

-----------------------------------------------------------------------------
(* The theorems.                                                           *)

LEMMA StutterOK == ASSUME Inv, UNCHANGED vars PROVE Inv' /\ Kept
<1>1. UNCHANGED <<num_buckets, pairs_capacity, num_filled, mlf, index, pairs, last, slot, todo, ret, pc>>
  BY DEF vars, layout
<1>2. PICK n \in Nat : n = Indexed
  BY IndexedType
<1>3. Array' /\ Names(n)' /\ Elements' = Elements
  BY <1>1, <1>2, IndexedType, TableKept DEF Inv
<1>4. Names(Indexed)'
  <2>1. Indexed' = n
    BY <1>1, <1>2 DEF Indexed
  <2> QED BY <1>3, <2>1, NamesNow
<1>5. Sizes' /\ Types' /\ TodoMatches' /\ Room'
  BY <1>1 DEF Inv, Sizes, Types, TodoMatches, Room
<1>6. UniqueIsNew'
  BY <1>1, <1>3 DEF Inv, UniqueIsNew
<1> QED BY <1>1, <1>3, <1>4, <1>5, <1>6 DEF Inv, Kept

LEMMA NextOK == ASSUME Inv, Next PROVE Inv' /\ Effect
<1>1. CASE Overrun
  <2>1. UNCHANGED vars /\ todo' = todo
    BY <1>1 DEF Overrun, vars
  <2> QED BY <2>1, StutterOK DEF Effect
<1> QED BY <1>1, InternalOK, ExternalOK DEF Next

\* Every step of every call keeps the invariant.
THEOREM InvHolds == Spec => []Inv
<1>1. Init => Inv
  BY InitOK
<1>2. Inv /\ [Next]_vars => Inv'
  BY NextOK, StutterOK
<1> QED BY <1>1, <1>2, PTL DEF Spec

\* The elements lie without gaps in the array, and the index names each of them
\* in exactly one bucket, with the tag of its key, however often erase_slot
\* fills a gap and kickout_bucket relinks a guest.
THEOREM DenseAlwaysExact == Spec => []DenseExact
<1>1. Inv => DenseExact
  <2> SUFFICES ASSUME Inv PROVE DenseExact
    OBVIOUS
  <2>1. PICK n \in Nat : n = Indexed /\ Names(n)
    BY IndexedType DEF Inv
  <2>2. \A s \in DOMAIN pairs : pairs[s] # NoPair <=> s < num_filled
    BY DEF Inv, Array
  <2>3. { index[b].slot : b \in Filled } = 0 .. n - 1
    BY <2>1 DEF Names
  <2> QED BY <2>1, <2>2, <2>3 DEF DenseExact, Names
<1> QED BY <1>1, InvHolds, PTL

\* find_filled_bucket finds a key exactly when it is stored, and
\* slot_to_bucket the bucket of every position.
THEOREM LookupAlwaysExact == Spec => []LookupExact
<1>1. Inv => LookupExact
  <2> SUFFICES ASSUME Inv, pc = "ready" PROVE LookupExact
    BY DEF LookupExact
  <2>1. Sizes /\ Array /\ Names(num_filled) /\ num_filled \in Nat
    BY NamesAll
  <2>2. ASSUME NEW k \in Key
        PROVE  LET b == FindFilledBucket(k)
               IN  IF \E s \in 0 .. num_filled - 1 : pairs[s].first = k
                   THEN b \in Filled /\ KeyAt(b) = k
                   ELSE b = num_buckets
    <3>1. CASE \E s \in 0 .. num_filled - 1 : pairs[s].first = k
      <4>1. PICK s \in 0 .. num_filled - 1 : pairs[s].first = k
        BY <3>1
      <4>2. FindFilledBucket(k) \in Filled /\ index[FindFilledBucket(k)].slot = s
        BY <2>1, <4>1, SearchExact
      <4> QED BY <3>1, <4>1, <4>2 DEF KeyAt
    <3>2. CASE ~ \E s \in 0 .. num_filled - 1 : pairs[s].first = k
      BY <2>1, <3>2, SearchExact
    <3> QED BY <3>1, <3>2
  <2>3. ASSUME NEW s \in 0 .. num_filled - 1
        PROVE  index[SlotToBucket(s)].slot = s
    BY <2>1, SlotToBucketExact
  <2> QED BY <2>2, <2>3 DEF LookupExact
<1> QED BY <1>1, InvHolds, PTL

\* Whatever the load factor, the range or the number reserved, a probe for an
\* empty bucket has one to find.
THEOREM ProbeAlwaysHasRoom == Spec => []ProbeHasRoom
<1>1. Inv => ProbeHasRoom
  <2> SUFFICES ASSUME Inv, NeedsProbe PROVE Filled # Buckets
    BY DEF ProbeHasRoom
  <2>1. /\ num_filled \in Nat /\ num_buckets \in Nat /\ Len(todo) \in Nat
        /\ num_filled + Len(todo) =< num_buckets
    BY IndexedType DEF Inv, Sizes, Types, Room
  <2>2. PICK n \in Nat : n = Indexed /\ Names(n) /\ Sizes
    BY IndexedType DEF Inv
  <2>3. n < num_buckets
    <3>1. CASE pc = "rehash" /\ slot < num_filled
      BY <2>1, <2>2, <3>1 DEF Indexed
    <3>2. CASE pc = "insert"
      <4>1. Len(todo) \in Nat \ {0}
        BY <3>2, InsertContext
      <4> QED BY <2>1, <2>2, <3>2, <4>1 DEF Indexed
    <3> QED BY <3>1, <3>2 DEF NeedsProbe
  <2> QED BY <2>2, <2>3, RoomLeft
<1> QED BY <1>1, InvHolds, PTL

-----------------------------------------------------------------------------
(* The table implements the map.                                           *)

\* Each key has one value.
LEMMA ElementsAreAMap ==
  ASSUME Array, NEW k, NEW v, NEW w, <<k, v>> \in Elements, <<k, w>> \in Elements
  PROVE  v = w
<1>1. PICK s \in 0 .. num_filled - 1 : pairs[s].first = k /\ pairs[s].second = v
  BY DEF Elements
<1>2. PICK t \in 0 .. num_filled - 1 : pairs[t].first = k /\ pairs[t].second = w
  BY DEF Elements
<1> QED BY <1>1, <1>2 DEF Array

ContentsFaithful ==
  /\ Contents \in [Key -> Value \cup {NoValue}]
  /\ \A k \in Key, v \in Value : <<k, v>> \in Elements <=> Contents[k] = v
  /\ \A k \in Key : (\A e \in Elements : e[1] # k) => Contents[k] = NoValue

LEMMA ContentsOK == Inv => ContentsFaithful
<1> SUFFICES ASSUME Inv PROVE ContentsFaithful
  OBVIOUS
<1>1. Contents \in [Key -> Value \cup {NoValue}]
  BY DEF Contents
<1>2. ASSUME NEW k \in Key, NEW v \in Value, <<k, v>> \in Elements
      PROVE  Contents[k] = v
  <2>1. \A w \in Value : <<k, w>> \in Elements => w = v
    BY <1>2, ElementsAreAMap DEF Inv
  <2> QED BY <2>1, <1>2 DEF Contents
<1>3. ASSUME NEW k \in Key, NEW v \in Value, Contents[k] = v
      PROVE  <<k, v>> \in Elements
  <2>1. Contents[k] # NoValue
    BY <1>3, ValueAssumption
  <2>2. PICK w \in Value : <<k, w>> \in Elements
    BY <2>1 DEF Contents
  <2> QED BY <1>2, <1>3, <2>2
<1>4. ASSUME NEW k \in Key, \A e \in Elements : e[1] # k
      PROVE  Contents[k] = NoValue
  <2>1. ~ \E v \in Value : <<k, v>> \in Elements
    BY <1>4
  <2> QED BY <2>1 DEF Contents
<1> QED BY <1>1, <1>2, <1>3, <1>4 DEF ContentsFaithful

\* Two maps that agree on every value they hold are one.
LEMMA SameContents ==
  ASSUME NEW f \in [Key -> Value \cup {NoValue}], NEW g \in [Key -> Value \cup {NoValue}],
         \A k \in Key, v \in Value : f[k] = v <=> g[k] = v
  PROVE  f = g
<1>1. \A k \in Key : f[k] = g[k]
  BY ValueAssumption
<1> QED BY <1>1

LEMMA StepImplements ==
  ASSUME Inv, Inv', Effect
  PROVE  Abstract!Next \/ UNCHANGED <<Contents, todo, ret>>
<1>0. ContentsFaithful /\ ContentsFaithful'
  BY ContentsOK, PTL
<1>t. /\ Contents \in [Key -> Value \cup {NoValue}] /\ Contents' \in [Key -> Value \cup {NoValue}]
      /\ \A k \in Key, v \in Value : <<k, v>> \in Elements <=> Contents[k] = v
      /\ \A k \in Key, v \in Value : <<k, v>> \in Elements' <=> Contents'[k] = v
      /\ \A k \in Key : (\A e \in Elements : e[1] # k) => Contents[k] = NoValue
      /\ NoValue \notin Value
  BY <1>0, ValueAssumption DEF ContentsFaithful
<1>s. ASSUME Elements' = Elements PROVE Contents' = Contents
  <2>1. \A k \in Key, v \in Value : Contents'[k] = v <=> Contents[k] = v
    BY <1>s, <1>t
  <2> QED BY <2>1, <1>t, SameContents
<1>1. ASSUME Kept, todo = <<>> \/ todo' = todo
      PROVE  Abstract!Ask \/ UNCHANGED <<Contents, todo, ret>>
  <2>1. Contents' = Contents /\ ret' = ret
    BY <1>1, <1>s DEF Kept
  <2>2. todo' \in Seq(Abstract!Request)
    BY DEF Inv, Types, Request, Abstract!Request
  <2> QED BY <2>1, <2>2, <1>1 DEF Abstract!Ask
<1>2. ASSUME NEW k \in Key, NEW v \in Value, Added(k, v), ret' = TRUE
      PROVE  ret' = ~Abstract!Stored(k) /\ Contents' = [Contents EXCEPT ![k] = v]
  <2>1. Contents[k] = NoValue
    BY <1>2, <1>t DEF Added
  <2>2. [Contents EXCEPT ![k] = v] = Contents'
    <3> DEFINE g == [Contents EXCEPT ![k] = v]
    <3>1. g \in [Key -> Value \cup {NoValue}]
      BY <1>t
    <3>2. \A j \in Key, w \in Value : Contents'[j] = w <=> g[j] = w
      <4>1. \A j \in Key, w \in Value :
              <<j, w>> \in Elements' <=> (<<j, w>> \in Elements \/ (j = k /\ w = v))
        BY <1>2 DEF Added
      <4>2. \A j \in Key, w \in Value : g[j] = w <=> IF j = k THEN w = v ELSE Contents[j] = w
        BY <1>t
      <4>3. \A w \in Value : ~ (<<k, w>> \in Elements)
        BY <1>t, <2>1
      <4> HIDE DEF g
      <4> QED BY <4>1, <4>2, <4>3, <1>t
    <3> HIDE DEF g
    <3>3. Contents' = g
      BY <3>1, <3>2, <1>t, SameContents
    <3> QED BY <3>3 DEF g
  <2> QED BY <2>1, <2>2, <1>2 DEF Abstract!Stored
<1>3. ASSUME NEW k \in Key, NEW u \in Value, NEW v \in Value, Overwritten(k, u, v)
      PROVE  /\ Abstract!Stored(k)
             /\ Contents' = [Contents EXCEPT ![k] = v]
             /\ u = v => Contents' = Contents
  <2>1. Contents[k] = u /\ Contents[k] # NoValue
    BY <1>3, <1>t DEF Overwritten
  <2>2. [Contents EXCEPT ![k] = v] = Contents'
    <3> DEFINE g == [Contents EXCEPT ![k] = v]
    <3>1. g \in [Key -> Value \cup {NoValue}]
      BY <1>t
    <3>2. \A j \in Key, w \in Value : Contents'[j] = w <=> g[j] = w
      <4>1. \A j \in Key, w \in Value :
              <<j, w>> \in Elements' <=>
                ((<<j, w>> \in Elements /\ ~ (j = k /\ w = u)) \/ (j = k /\ w = v))
        BY <1>3 DEF Overwritten
      <4>2. \A j \in Key, w \in Value : g[j] = w <=> IF j = k THEN w = v ELSE Contents[j] = w
        BY <1>t
      <4>3. \A w \in Value : <<k, w>> \in Elements => w = u
        BY <1>t, <2>1
      <4> HIDE DEF g
      <4> QED BY <4>1, <4>2, <4>3, <1>t
    <3> HIDE DEF g
    <3>3. Contents' = g
      BY <3>1, <3>2, <1>t, SameContents
    <3> QED BY <3>3 DEF g
  <2>3. u = v => Contents' = Contents
    BY <2>1, <2>2, <1>t
  <2> QED BY <2>1, <2>2, <2>3, <1>3 DEF Abstract!Stored
<1>4. ASSUME todo = <<>>, todo' = todo, NEW k \in Key, Elements' = Elements, \A e \in Elements : e[1] # k, ret' = FALSE
      PROVE  Abstract!Remove(k)
  <2>1. Contents[k] = NoValue /\ Contents' = Contents
    BY <1>4, <1>s, <1>t
  <2>2. [Contents EXCEPT ![k] = NoValue] = Contents
    BY <2>1, <1>t
  <2> QED BY <2>1, <2>2, <1>4 DEF Abstract!Remove, Abstract!Stored
<1>5. ASSUME todo = <<>>, todo' = todo, NEW k \in Key, NEW u \in Value, Dropped(k, u), ret' = TRUE \/ ret' = ret
      PROVE  Abstract!Remove(k) \/ Abstract!RemoveHere(k)
  <2>1. Contents[k] = u /\ Contents[k] # NoValue
    BY <1>5, <1>t DEF Dropped
  <2>2. [Contents EXCEPT ![k] = NoValue] = Contents'
    <3> DEFINE g == [Contents EXCEPT ![k] = NoValue]
    <3>1. g \in [Key -> Value \cup {NoValue}]
      BY <1>t
    <3>2. \A j \in Key, w \in Value : Contents'[j] = w <=> g[j] = w
      <4>1. \A j \in Key, w \in Value :
              <<j, w>> \in Elements' <=> (<<j, w>> \in Elements /\ ~ (j = k /\ w = u))
        BY <1>5 DEF Dropped
      <4>2. \A j \in Key, w \in Value : g[j] = w <=> IF j = k THEN FALSE ELSE Contents[j] = w
        BY <1>t
      <4>3. \A w \in Value : <<k, w>> \in Elements => w = u
        BY <1>t, <2>1
      <4> HIDE DEF g
      <4> QED BY <4>1, <4>2, <4>3, <1>t
    <3> HIDE DEF g
    <3>3. Contents' = g
      BY <3>1, <3>2, <1>t, SameContents
    <3> QED BY <3>3 DEF g
  <2> QED BY <2>1, <2>2, <1>5 DEF Abstract!Remove, Abstract!RemoveHere, Abstract!Stored
<1>6. ASSUME todo = <<>>, todo' = todo, NEW k \in Key, NEW u \in Value, NEW v \in Value,
             Overwritten(k, u, v), ret' = TRUE
      PROVE  Abstract!Replace(k, v)
  <2>1. Abstract!Stored(k) /\ Contents' = [Contents EXCEPT ![k] = v]
    BY <1>3, <1>6
  <2> QED BY <2>1, <1>6 DEF Abstract!Replace
<1>7. ASSUME todo = <<>>, todo' = todo, Elements' = {}, ret' = ret
      PROVE  Abstract!RemoveAll
  <2> DEFINE g == [k \in Key |-> NoValue]
  <2>1. g \in [Key -> Value \cup {NoValue}]
    OBVIOUS
  <2>2. \A j \in Key, w \in Value : Contents'[j] = w <=> g[j] = w
    BY <1>7, <1>t
  <2> HIDE DEF g
  <2>3. Contents' = g
    BY <2>1, <2>2, <1>t, SameContents
  <2> QED BY <2>3, <1>7 DEF Abstract!RemoveAll, g
<1>8. ASSUME RequestTaken, ret' = TRUE, Added(Req.key, Req.val)
      PROVE  Abstract!Perform
  BY <1>2, <1>8 DEF RequestTaken, Req, Abstract!Perform
<1>9. ASSUME RequestTaken, ret' = FALSE, NEW u \in Value,
             Overwritten(Req.key, u, IF Req.op = "assign" THEN Req.val ELSE u)
      PROVE  Abstract!Perform
  <2>1. CASE Req.op = "assign"
    BY <2>1, <1>3, <1>9 DEF RequestTaken, Req, Abstract!Perform
  <2>2. CASE Req.op # "assign"
    BY <2>2, <1>3, <1>9 DEF RequestTaken, Req, Abstract!Perform
  <2> QED BY <2>1, <2>2
<1> QED BY <1>1, <1>4, <1>5, <1>6, <1>7, <1>8, <1>9 DEF Effect, Abstract!Next
\* The table implements the map of MapSpec: insert keeps the value of a key it
\* meets, insert_or_assign replaces it, try_set writes only where the key is,
\* erase removes one key, and growing, moving and kicking out are invisible.
THEOREM TableImplementsMap == Spec => ImplementsMap
<1>1. Init => Abstract!Init
  <2> SUFFICES ASSUME Init PROVE Contents = [k \in Key |-> NoValue] /\ todo \in Seq(Request) /\ ret = FALSE
    BY DEF Abstract!Init, Abstract!Request, Request
  <2>1. Elements = {} /\ todo \in Seq(Request) /\ ret = FALSE
    BY InitOK DEF Inv, Types
  <2> QED BY <2>1 DEF Contents
<1>2. Inv /\ [Next]_vars => [Abstract!Next]_(Abstract!vars)
  <2> SUFFICES ASSUME Inv, [Next]_vars
               PROVE  Abstract!Next \/ UNCHANGED <<Contents, todo, ret>>
    BY DEF Abstract!vars
  <2>1. Inv' /\ Effect
    <3>1. CASE Next
      BY <3>1, NextOK
    <3>2. CASE UNCHANGED vars
      BY <3>2, StutterOK DEF Effect, vars
    <3> QED BY <3>1, <3>2
  <2> QED BY <2>1, StepImplements
<1> QED BY <1>1, <1>2, InvHolds, PTL DEF Spec, ImplementsMap, Abstract!Spec

-----------------------------------------------------------------------------
(* The room of the array.  A call that is allowed to insert by the share of  *)
(* the index it may fill finds a slot for each element, if the array has     *)
(* that share.                                                               *)

Fits == pc # "ready" /\ HasShare => num_filled + Len(todo) =< pairs_capacity

LEMMA ShareAllows ==
  ASSUME NEW n \in Nat, NEW b \in Nat, NEW m \in Nat \ {0}, NEW f \in Nat \ {0},
         (n * m) \div f < b
  PROVE  n =< (b * f) \div m
<1> DEFINE q == (n * m) \div f
           r == (b * f) \div m
<1>1. q \in Int /\ n * m < f * (q + 1)
  OBVIOUS
<1>2. r \in Int /\ b * f < m * (r + 1)
  OBVIOUS
<1>3. q + 1 =< b
  BY <1>1
<1> HIDE DEF q, r
<1>4. f * (q + 1) =< b * f
  BY <1>1, <1>3
<1>5. n * m < m * (r + 1)
  <2>1. n * m \in Int /\ f * (q + 1) \in Int /\ b * f \in Int /\ m * (r + 1) \in Int
    BY <1>1, <1>2
  <2> QED BY <1>1, <1>2, <1>4, <2>1
<1>6. n < r + 1
  BY <1>2, <1>5
<1>7. n =< r
  BY <1>2, <1>6
<1> QED BY <1>7 DEF r

LEMMA ShareFalls ==
  ASSUME NEW a \in Nat, NEW m \in Nat \ {0}, NEW w \in Nat, w >= m
  PROVE  a \div w =< a \div m
<1> DEFINE q == a \div m
           r == a \div w
<1>1. q \in Int /\ a < m * (q + 1) /\ q >= 0
  OBVIOUS
<1>2. w \in Nat \ {0}
  OBVIOUS
<1>3. r \in Int /\ w * r =< a /\ r >= 0
  BY <1>2
<1> HIDE DEF q, r
<1>4. m * r =< w * r
  BY <1>3
<1>5. m * r < m * (q + 1)
  <2>1. m * r \in Int /\ w * r \in Int /\ m * (q + 1) \in Int
    BY <1>1, <1>2, <1>3
  <2> QED BY <1>1, <1>3, <1>4, <2>1
<1>6. r < q + 1
  BY <1>1, <1>3, <1>5
<1>7. r =< q
  BY <1>1, <1>3, <1>6
<1> QED BY <1>7 DEF q, r

LEMMA ShareFits ==
  ASSUME Inv, HasShare
  PROVE  /\ (num_buckets * FixedOne) \div mlf \in Nat
         /\ (num_buckets * FixedOne) \div mlf + 1 =< pairs_capacity
<1>1. PICK b \in Nat : b = num_buckets
  BY DEF Inv, Sizes
<1>2. /\ NeedSize(b, 0) \in Nat /\ (b * FixedOne) \div mlf \in Nat
      /\ NeedSize(b, 0) >= (b * FixedOne) \div mlf + PAIRS_CAPACITY_BUFFER
  BY NeedSizeType DEF Inv, Types
<1>3. pairs_capacity \in Nat /\ pairs_capacity >= NeedSize(b, 0)
  BY <1>1 DEF HasShare, Inv, Array
<1> DEFINE q == (b * FixedOne) \div mlf
<1>4. q + 1 =< pairs_capacity
  <2> HIDE DEF q
  <2>1. q \in Nat /\ NeedSize(b, 0) >= q + PAIRS_CAPACITY_BUFFER
    BY <1>2 DEF q
  <2> QED BY <1>2, <1>3, <2>1, BufferAssumption
<1> QED BY <1>1, <1>2, <1>4

\* A new array has the slots that were asked for.
LEMMA StartFits ==
  ASSUME Inv, Inv', NEW n \in Nat, StartRehash(n), num_filled + Len(todo') =< n
  PROVE  Fits'
<1>1. num_filled' = num_filled /\ pairs_capacity' = NeedSize(num_buckets', n)
  BY DEF StartRehash
<1>2. PICK b \in Nat : b = num_buckets'
  BY DEF Inv, Sizes
<1>3. NeedSize(b, n) >= n + 2 /\ NeedSize(b, n) \in Nat
  BY NeedSizeType DEF Inv, Types
<1>4. num_filled' + Len(todo') \in Nat
  <2>1. num_filled' \in Nat /\ todo' \in Seq(Request)
    BY DEF Inv, Array, Types
  <2> QED BY <2>1
<1>5. num_filled' + Len(todo') =< pairs_capacity'
  <2>1. pairs_capacity' = NeedSize(b, n)
    BY <1>1, <1>2
  <2>2. num_filled' + Len(todo') =< n
    BY <1>1
  <2> QED BY <1>3, <1>4, <2>1, <2>2
<1> QED BY <1>5 DEF Fits

\* What the call still has to do only gets less.
LEMMA StaysFit ==
  ASSUME Inv, Inv', Fits, pc # "ready", UNCHANGED <<num_buckets, pairs_capacity, mlf>>,
         num_filled' + Len(todo') =< num_filled + Len(todo)
  PROVE  Fits'
<1>1. HasShare' <=> HasShare
  BY DEF HasShare, NeedSize
<1>2. /\ num_filled \in Nat /\ num_filled' \in Nat /\ pairs_capacity \in Nat
      /\ Len(todo) \in Nat /\ Len(todo') \in Nat
  <2>1. todo \in Seq(Request) /\ todo' \in Seq(Request)
    BY DEF Inv, Types
  <2> QED BY <2>1 DEF Inv, Array
<1> QED BY <1>1, <1>2 DEF Fits

LEMMA CallFits ==
  ASSUME Inv, Inv', NEW n \in Nat, NEW reqs \in Seq(Request), Call(n, reqs),
         num_filled + Len(reqs) =< n + 1
  PROVE  Fits'
<1> DEFINE m == RequiredBuckets(n)
<1>1. todo' = reqs
  BY DEF Call
<1>2. m \in Nat /\ m >= n
  BY RequiredEnough
<1>3. num_filled \in Nat /\ num_buckets \in Nat /\ Len(reqs) \in Nat /\ pairs_capacity \in Nat
  BY DEF Inv, Sizes, Array
<1>4. CASE NeedsRehash(n)
  <2>1. StartRehash(m + 2)
    BY <1>4 DEF Call, RESERVE_SLOTS
  <2> HIDE DEF m
  <2>2. num_filled + Len(todo') =< m + 2 /\ m + 2 \in Nat
    BY <1>1, <1>2, <1>3
  <2> QED BY <2>1, <2>2, StartFits
<1>5. CASE ~ NeedsRehash(n)
  <2>1. UNCHANGED <<num_buckets, pairs_capacity, num_filled, mlf>>
    BY <1>5 DEF Call, layout
  <2>2. PICK l \in Nat \ {0} : l = mlf
    BY LoadAssumption DEF Inv, Types
  <2>3. (n * l) \div FixedOne < num_buckets
    BY <1>2, <1>3, <1>5, <2>2 DEF NeedsRehash, RequiredBuckets
  <2>4. n =< (num_buckets * FixedOne) \div l
    BY <1>3, <2>3, LoadAssumption, ShareAllows
  <2>5. ASSUME HasShare PROVE num_filled + Len(reqs) =< pairs_capacity
    <3> DEFINE q == (num_buckets * FixedOne) \div l
    <3>1. q \in Nat /\ q + 1 =< pairs_capacity /\ n =< q
      BY <2>2, <2>4, <2>5, ShareFits
    <3> HIDE DEF q
    <3> QED BY <1>3, <3>1
  <2>6. HasShare' <=> HasShare
    BY <2>1 DEF HasShare, NeedSize
  <2> QED BY <1>1, <2>1, <2>5, <2>6 DEF Fits
<1> QED BY <1>4, <1>5

LEMMA RehashFits ==
  ASSUME Inv, Inv', NEW n \in Nat, Rehash(n)
  PROVE  Fits'
<1>1. pc = "ready" /\ todo' = todo /\ Len(todo) = 0
  BY DEF Rehash, Inv, TodoMatches
<1>2. CASE n < num_filled
  BY <1>1, <1>2 DEF Rehash, Fits
<1>3. CASE ~ (n < num_filled)
  <2>1. StartRehash(n)
    BY <1>3 DEF Rehash
  <2>2. num_filled + Len(todo') =< n
    BY <1>1, <1>3, IndexedType
  <2> QED BY <2>1, <2>2, StartFits
<1> QED BY <1>2, <1>3

LEMMA ReserveFits ==
  ASSUME Inv, Inv', NEW n \in Nat, Reserve(n)
  PROVE  Fits'
<1>1. RequiredBuckets(n) + RESERVE_SLOTS \in Nat
  BY RequiredEnough DEF RESERVE_SLOTS
<1>2. CASE n = num_filled
  <2>1. UNCHANGED <<pairs_capacity, num_filled>> /\ todo' = todo /\ Len(todo) = 0
    BY <1>2 DEF Reserve, layout, Inv, TodoMatches
  <2>2. num_filled \in Nat /\ pairs_capacity \in Nat /\ num_filled =< pairs_capacity
    BY DEF Inv, Array
  <2> QED BY <2>1, <2>2 DEF Fits
<1>3. CASE n # num_filled
  BY <1>1, <1>3, RehashFits DEF Reserve
<1> QED BY <1>2, <1>3

LEMMA InternalFits ==
  ASSUME Inv, Inv', Fits, Internal
  PROVE  Fits'
<1>1. num_filled \in Nat /\ Len(todo) \in Nat
  BY DEF Inv, Array, Types
<1>2. CASE RehashStep \/ RehashDone
  <2>1. /\ pc # "ready" /\ todo' = todo /\ num_filled' = num_filled
        /\ UNCHANGED <<num_buckets, pairs_capacity, mlf>>
    BY <1>2 DEF RehashStep, RehashDone, layout
  <2> QED BY <1>1, <2>1, StaysFit
<1>3. CASE InsertHit \/ InsertMiss
  <2>1. pc = "insert" /\ todo' = Tail(todo) /\ num_filled' =< num_filled + 1
        /\ UNCHANGED <<num_buckets, pairs_capacity, mlf>>
    BY <1>1, <1>3 DEF InsertHit, InsertMiss, layout
  <2>2. num_filled' \in Nat /\ Len(todo') = Len(todo) - 1
    BY <2>1, InsertContext DEF Inv, Array
  <2>3. num_filled' + Len(todo') =< num_filled + Len(todo)
    BY <1>1, <2>1, <2>2
  <2> QED BY <2>1, <2>3, StaysFit
<1> QED BY <1>2, <1>3 DEF Internal

LEMMA ExternalFits ==
  ASSUME Inv, Inv', External
  PROVE  Fits'
<1>1. num_filled \in Nat /\ pc = "ready"
  BY ExternalWhenReady DEF Inv, Array
<1>2. ASSUME pc' = pc PROVE Fits'
  BY <1>1, <1>2 DEF Fits
<1>3. ASSUME NEW r \in Request, Call(num_filled, <<r>>) PROVE Fits'
  <2> DEFINE reqs == <<r>>
  <2>1. reqs \in Seq(Request) /\ Len(reqs) = 1
    OBVIOUS
  <2>2. num_filled + Len(reqs) =< num_filled + 1
    BY <1>1, <2>1
  <2>3. Call(num_filled, reqs)
    BY <1>3
  <2> HIDE DEF reqs
  <2> QED BY <1>1, <2>1, <2>2, <2>3, CallFits
<1>4. ASSUME NEW k \in Key, NEW v \in Value,
             Insert(k, v) \/ InsertOrAssign(k, v) \/ InsertUnique(k, v)
      PROVE  Fits'
  <2>1. \A op \in {"insert", "assign", "unique"} : [op |-> op, key |-> k, val |-> v] \in Request
    BY DEF Request
  <2> QED BY <1>3, <1>4, <2>1 DEF Insert, InsertOrAssign, InsertUnique
<1>5. ASSUME NEW keys \in Batches, NEW v \in Value, InsertRange(keys, v) PROVE Fits'
  <2>1. keys \in Seq(Key)
    BY InputAssumption
  <2>2. PICK reqs \in Seq(Request) :
          reqs = RangeRequests(keys, v) /\ Len(reqs) = Len(keys) /\ Len(keys) \in Nat
    BY <2>1, RangeRequestsType
  <2>3. num_filled + Len(keys) \in Nat /\ num_filled + Len(reqs) =< (num_filled + Len(keys)) + 1
    BY <1>1, <2>2
  <2>4. Call(num_filled + Len(keys), reqs)
    BY <1>5, <2>2 DEF InsertRange
  <2> QED BY <2>3, <2>4, CallFits
<1>6. CASE \E n \in Requests : Reserve(n) \/ Rehash(n)
  BY <1>6, InputAssumption, ReserveFits, RehashFits
<1>7. CASE ShrinkToFit
  <2>1. num_filled + 1 \in Nat /\ Rehash(num_filled + 1)
    BY <1>1, <1>7 DEF ShrinkToFit
  <2> QED BY <2>1, RehashFits
<1>8. CASE Clear \/ (\E lf \in LoadFactors : MaxLoadFactor(lf))
           \/ (\E k \in Key, v \in Value : TrySet(k, v))
  BY <1>2, <1>8 DEF Clear, MaxLoadFactor, TrySet
<1>9. CASE (\E k \in Key : EraseKey(k)) \/ (\E s \in 0 .. num_filled - 1 : EraseIterator(s))
  BY <1>2, <1>9 DEF EraseKey, EraseIterator, EraseAt, EraseSlot
<1>10. CASE \E k \in Key : OperatorIndex(k)
  BY <1>4, <1>10, ValueAssumption DEF OperatorIndex
<1> QED BY <1>4, <1>5, <1>6, <1>7, <1>8, <1>9, <1>10 DEF External

LEMMA InitFits == Init => Fits
<1> SUFFICES ASSUME Init PROVE Fits
  OBVIOUS
<1>1. PICK n \in Requests, lf \in InitialLoads, keys \in Batches \cup {<<>>}, v \in Value :
        Constructed(IF keys = <<>> THEN n ELSE Len(keys),
                    IF keys = <<>> /\ Accepted(lf) THEN lf ELSE DefaultLoad, keys, v)
  BY Zenon DEF Init, Constructed
<1>2. PICK asked \in Nat : asked = IF keys = <<>> THEN n ELSE Len(keys)
  <2>1. keys # <<>> => keys \in Seq(Key)
    BY InputAssumption
  <2>2. keys # <<>> => Len(keys) \in Nat
    BY <2>1
  <2> QED BY <2>2, InputAssumption
<1>3. /\ num_filled = 0 /\ todo = RangeRequests(keys, v)
      /\ pairs_capacity = NeedSize(num_buckets, asked)
      /\ (keys # <<>> => asked = Len(keys))
  BY <1>1, <1>2 DEF Constructed
<1>4. mlf \in Nat /\ mlf >= FixedOne
  BY InitOK DEF Inv, Types
<1>5. PICK b \in Nat : b = num_buckets
  BY InitOK DEF Inv, Sizes
<1>6. NeedSize(b, asked) >= asked + 2 /\ NeedSize(b, asked) \in Nat
  BY <1>4, <1>5, NeedSizeType
<1>7. Len(todo) \in Nat /\ Len(todo) =< asked
  <2>1. <<>> \in Seq(Key) /\ Len(<<>>) = 0
    OBVIOUS
  <2>2. keys \in Seq(Key)
    BY <2>1, InputAssumption
  <2>3. Len(todo) = Len(keys) /\ Len(keys) \in Nat
    BY <1>3, <2>2, RangeRequestsType
  <2> QED BY <1>2, <1>3, <2>1, <2>3
<1>8. pairs_capacity = NeedSize(b, asked)
  BY <1>3, <1>5
<1>9. num_filled + Len(todo) =< pairs_capacity
  BY <1>3, <1>6, <1>7, <1>8
<1> QED BY <1>9 DEF Fits

\* While the array has the slots of the share that the present load factor lets
\* be filled, no element is built behind its end.
THEOREM PairsAlwaysFit == Spec => []PairsFitShare
<1>1. Init => Fits
  BY InitFits
<1>2. Inv /\ Inv' /\ Fits /\ [Next]_vars => Fits'
  <2>1. ASSUME Inv, Inv', Fits, UNCHANGED vars PROVE Fits'
    BY <2>1 DEF Fits, HasShare, NeedSize, vars, layout
  <2>2. CASE Overrun
    BY <2>1, <2>2 DEF Overrun
  <2> QED BY <2>1, <2>2, InternalFits, ExternalFits DEF Next
<1>3. Inv /\ Fits => PairsFitShare
  <2> SUFFICES ASSUME Inv, Fits, HasShare, pc = "insert" PROVE num_filled < pairs_capacity
    BY DEF PairsFitShare, PairsFit
  <2>1. Len(todo) \in Nat \ {0} /\ num_filled \in Nat /\ pairs_capacity \in Nat
    BY InsertContext DEF Inv, Array
  <2> QED BY <2>1 DEF Fits
<1> QED BY <1>1, <1>2, <1>3, InvHolds, PTL DEF Spec

LEMMA NeedSizeMore ==
  ASSUME NEW b \in Nat, NEW r \in Nat, mlf \in Nat, mlf >= FixedOne
  PROVE  NeedSize(b, r) >= NeedSize(b, 0)
<1> DEFINE share == (b * FixedOne) \div mlf + PAIRS_CAPACITY_BUFFER
<1>1. share \in Int
  BY LoadAssumption, BufferAssumption
<1>2. /\ NeedSize(b, r) = IF share >= r + 2 THEN share ELSE r + 2
      /\ NeedSize(b, 0) = IF share >= 0 + 2 THEN share ELSE 0 + 2
  BY DEF NeedSize, RESERVE_SLOTS
<1> HIDE DEF share
<1> QED BY <1>1, <1>2

\* A lower load factor makes no array larger.
LEMMA NeedSizeFalls ==
  ASSUME NEW b \in Nat, mlf \in Nat \ {0}, mlf' \in Nat, mlf' >= mlf
  PROVE  NeedSize(b, 0)' \in Nat /\ NeedSize(b, 0) >= NeedSize(b, 0)'
<1> DEFINE q == (b * FixedOne) \div mlf
           p == (b * FixedOne) \div mlf'
<1>1. PICK a \in Nat, m \in Nat \ {0}, w \in Nat \ {0} :
        a = b * FixedOne /\ m = mlf /\ w = mlf' /\ w >= m
  BY LoadAssumption
<1>2. p \in Nat /\ q \in Nat /\ p =< q
  <2>1. a \div w \in Nat /\ a \div m \in Nat
    OBVIOUS
  <2> QED BY <1>1, <2>1, ShareFalls
<1>3. /\ NeedSize(b, 0) = IF q + PAIRS_CAPACITY_BUFFER >= 0 + 2
                          THEN q + PAIRS_CAPACITY_BUFFER ELSE 0 + 2
      /\ NeedSize(b, 0)' = IF p + PAIRS_CAPACITY_BUFFER >= 0 + 2
                           THEN p + PAIRS_CAPACITY_BUFFER ELSE 0 + 2
  BY DEF NeedSize, RESERVE_SLOTS
<1> HIDE DEF p, q
<1> QED BY <1>2, <1>3, BufferAssumption

\* Only a rehash gives the table another array, and with it the share.
SameArray == UNCHANGED <<num_buckets, pairs_capacity>>
NewArray == mlf' = mlf /\ \E n \in Nat : pairs_capacity' = NeedSize(num_buckets', n)

LEMMA NextArray ==
  ASSUME Inv, Next
  PROVE  SameArray \/ NewArray
<1>1. num_filled \in Nat
  BY DEF Inv, Array
<1>2. ASSUME NEW n \in Nat, StartRehash(n) PROVE NewArray
  BY <1>2 DEF StartRehash, NewArray
<1>3. ASSUME NEW n \in Nat, NEW r, Call(n, r) PROVE SameArray \/ NewArray
  <2>1. RequiredBuckets(n) + RESERVE_SLOTS \in Nat
    BY RequiredEnough DEF RESERVE_SLOTS
  <2> QED BY <1>2, <1>3, <2>1 DEF Call, SameArray, layout
<1>4. ASSUME NEW n \in Nat, Rehash(n) PROVE SameArray \/ NewArray
  <2> QED BY <1>2, <1>4 DEF Rehash, SameArray, layout
<1>5. ASSUME NEW n \in Nat, Reserve(n) PROVE SameArray \/ NewArray
  <2>1. RequiredBuckets(n) + RESERVE_SLOTS \in Nat
    BY RequiredEnough DEF RESERVE_SLOTS
  <2> QED BY <1>4, <1>5, <2>1 DEF Reserve, SameArray, layout
<1>6. CASE Internal \/ Overrun
  BY <1>6 DEF Internal, RehashStep, RehashDone, InsertHit, InsertMiss, Overrun, SameArray, vars, layout
<1>7. CASE \E k \in Key, v \in Value : Insert(k, v) \/ InsertOrAssign(k, v) \/ InsertUnique(k, v)
  BY <1>1, <1>3, <1>7 DEF Insert, InsertOrAssign, InsertUnique
<1>8. CASE \E k \in Key : OperatorIndex(k)
  BY <1>1, <1>3, <1>8 DEF OperatorIndex, Insert
<1>9. CASE \E keys \in Batches, v \in Value : InsertRange(keys, v)
  <2>1. \A keys \in Batches : num_filled + Len(keys) \in Nat
    <3>1. \A keys \in Batches : Len(keys) \in Nat
      BY InputAssumption
    <3> QED BY <1>1, <3>1
  <2> QED BY <1>3, <1>9, <2>1 DEF InsertRange
<1>10. CASE (\E n \in Requests : Reserve(n) \/ Rehash(n)) \/ ShrinkToFit
  <2>1. Requests \subseteq Nat /\ num_filled + 1 \in Nat
    BY <1>1, InputAssumption
  <2> QED BY <1>4, <1>5, <1>10, <2>1 DEF ShrinkToFit
<1>11. CASE \/ \E k \in Key : EraseKey(k)
            \/ \E k \in Key, v \in Value : TrySet(k, v)
            \/ \E lf \in LoadFactors : MaxLoadFactor(lf)
            \/ \E s \in 0 .. num_filled - 1 : EraseIterator(s)
            \/ Clear
  BY <1>11 DEF EraseKey, TrySet, MaxLoadFactor, EraseIterator, EraseAt, EraseSlot, Clear,
               SameArray, layout
<1> QED BY <1>6, <1>7, <1>8, <1>9, <1>10, <1>11 DEF Next, External

\* A caller that never raises the load factor, of which mlf is the inverse, never
\* makes the table build an element behind the end of the array.  The run
\* table8_capacity shows what raising it does.
COROLLARY FitsUnlessRaised == Spec /\ [][mlf' >= mlf]_vars => []PairsFit
<1>1. Init => HasShare
  <2> SUFFICES ASSUME Init PROVE HasShare
    OBVIOUS
  <2>1. PICK n \in Requests, lf \in InitialLoads, keys \in Batches \cup {<<>>}, v \in Value :
          Constructed(IF keys = <<>> THEN n ELSE Len(keys),
                      IF keys = <<>> /\ Accepted(lf) THEN lf ELSE DefaultLoad, keys, v)
    BY Zenon DEF Init, Constructed
  <2>2. PICK asked \in Nat : pairs_capacity = NeedSize(num_buckets, asked)
    <3>1. keys # <<>> => keys \in Seq(Key)
      BY InputAssumption
    <3>2. keys # <<>> => Len(keys) \in Nat
      BY <3>1
    <3> QED BY <2>1, <3>2, InputAssumption DEF Constructed
  <2>3. num_buckets \in Nat /\ mlf \in Nat /\ mlf >= FixedOne
    BY InitOK DEF Inv, Sizes, Types
  <2> QED BY <2>2, <2>3, NeedSizeMore DEF HasShare
<1>2. Inv /\ Inv' /\ HasShare /\ [Next]_vars /\ [mlf' >= mlf]_vars => HasShare'
  <2> SUFFICES ASSUME Inv, Inv', HasShare, Next, mlf' >= mlf PROVE HasShare'
    <3>1. HasShare /\ UNCHANGED vars => HasShare'
      BY DEF HasShare, NeedSize, vars, layout
    <3> QED BY <3>1
  <2>1. PICK b \in Nat : b = num_buckets'
    BY DEF Inv, Sizes
  <2>2. /\ mlf \in Nat \ {0} /\ mlf >= FixedOne /\ mlf' \in Nat
        /\ pairs_capacity \in Nat /\ NeedSize(b, 0) \in Nat
    BY <2>1, LoadAssumption, NeedSizeType DEF Inv, Types, Array
  <2>3. CASE UNCHANGED <<num_buckets, pairs_capacity>>
    <3>1. pairs_capacity >= NeedSize(b, 0)
      BY <2>1, <2>3 DEF HasShare
    <3>2. NeedSize(b, 0)' \in Nat /\ NeedSize(b, 0) >= NeedSize(b, 0)'
      BY <2>1, <2>2, NeedSizeFalls
    <3>3. pairs_capacity' >= NeedSize(b, 0)'
      BY <2>2, <2>3, <3>1, <3>2
    <3> QED BY <2>1, <3>3 DEF HasShare
  <2>4. ASSUME mlf' = mlf, NEW n \in Nat, pairs_capacity' = NeedSize(num_buckets', n)
        PROVE  HasShare'
    <3>1. NeedSize(b, 0)' = NeedSize(b, 0)
      BY <2>4 DEF NeedSize
    <3>2. pairs_capacity' >= NeedSize(b, 0)
      BY <2>1, <2>2, <2>4, NeedSizeMore
    <3> QED BY <2>1, <3>1, <3>2 DEF HasShare
  <2> QED BY <2>3, <2>4, NextArray DEF SameArray, NewArray
<1> QED BY <1>1, <1>2, PairsAlwaysFit, InvHolds, PTL DEF Spec, PairsFitShare
=============================================================================
