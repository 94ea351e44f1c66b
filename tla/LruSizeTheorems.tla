-------------------------- MODULE LruSizeTheorems --------------------------
(***************************************************************************)
(* The cache with order numbers, for every set of keys, hash function,     *)
(* size, bound and load factor: either cache keeps sound chains, an exact  *)
(* counter and an exact sum, no probe runs in a full table, an eviction    *)
(* takes the oldest, and the two caches implement CacheSpec.               *)
(***************************************************************************)
EXTENDS LruSize, LruTableProofs

-----------------------------------------------------------------------------
(* Sums of order numbers.  A sum is what a set of units counts: each       *)
(* element has as many as its order number.                                *)

Units(E) == { x \in E \X Nat : x[2] < x[1][2].stamp }
Mass(E) == Cardinality(Units(E))

LEMMA MassGrows ==
  ASSUME NEW E, IsFiniteSet(Units(E)), NEW e, e \notin E, e[2].stamp \in Nat
  PROVE  /\ IsFiniteSet(Units(E \cup {e})) /\ Mass(E) \in Nat
         /\ Mass(E \cup {e}) = Mass(E) + e[2].stamp
<1> DEFINE n == e[2].stamp
           U == {e} \X (0 .. n - 1)
<1>1. IsFiniteSet(U) /\ Cardinality(U) = n
  <2>1. IsFiniteSet({e}) /\ Cardinality({e}) = 1
    BY FS_Singleton
  <2>2. IsFiniteSet(0 .. n - 1) /\ Cardinality(0 .. n - 1) = n
    <3>1. n \in Nat
      OBVIOUS
    <3> DEFINE m == n - 1
    <3> HIDE DEF n
    <3>2. m \in Int /\ 0 \in Int
      BY <3>1
    <3>3. (IF 0 > m THEN 0 ELSE m - 0 + 1) = n
      BY <3>1
    <3> HIDE DEF m
    <3>4. IsFiniteSet(0 .. m) /\ Cardinality(0 .. m) = IF 0 > m THEN 0 ELSE m - 0 + 1
      BY <3>2, FS_Interval
    <3> QED BY <3>3, <3>4 DEF m
  <2> DEFINE S == {e}
             N == 0 .. n - 1
  <2>3. IsFiniteSet(S) /\ Cardinality(S) = 1 /\ IsFiniteSet(N) /\ Cardinality(N) = n
    BY <2>1, <2>2
  <2> HIDE DEF S, N, n
  <2>4. IsFiniteSet(S \X N) /\ Cardinality(S \X N) = 1 * n
    BY <2>3, FS_Product
  <2>5. 1 * n = n
    BY DEF n
  <2> QED BY <2>4, <2>5 DEF S, N, n
<1>2. Units(E \cup {e}) = Units(E) \cup U
  <2>1. \A x : x \in U <=> x \in {e} \X Nat /\ x[2] < n
    OBVIOUS
  <2>2. \A x : x \in {e} \X Nat => x[1] = e
    OBVIOUS
  <2> HIDE DEF U
  <2>3. \A x : x \in Units(E \cup {e}) <=> x \in Units(E) \/ x \in U
    <3>1. \A x : x \in (E \cup {e}) \X Nat <=> x \in E \X Nat \/ x \in {e} \X Nat
      OBVIOUS
    <3> QED BY <2>1, <2>2, <3>1, Zenon DEF Units, n
  <2> QED BY <2>3
<1>3. Units(E) \cap U = {}
  BY DEF Units
<1>4. Mass(E) \in Nat
  BY FS_CardinalityType DEF Mass
<1>5. n \in Nat
  OBVIOUS
<1> DEFINE A == Units(E)
           V == Units(E \cup {e})
<1> HIDE DEF U, n, A, V
<1>6. IsFiniteSet(A \cup U) /\ Cardinality(A \cup U) = Cardinality(A) + n - 0
  BY <1>1, <1>3, FS_Union, FS_EmptySet DEF A
<1>7. V = A \cup U
  BY <1>2 DEF A, V
<1>8. IsFiniteSet(V) /\ Cardinality(V) = Cardinality(A) + n - 0
  BY <1>6, <1>7, Zenon
<1>9. Cardinality(A) \in Nat
  BY <1>4 DEF Mass, A
<1>10. IsFiniteSet(V) /\ Cardinality(V) = Cardinality(A) + n
  BY <1>5, <1>8, <1>9
<1> QED BY <1>4, <1>10 DEF Mass, A, V, n

LEMMA MassShrinks ==
  ASSUME NEW E, IsFiniteSet(Units(E)), NEW e \in E, e[2].stamp \in Nat
  PROVE  IsFiniteSet(Units(E \ {e})) /\ Mass(E \ {e}) = Mass(E) - e[2].stamp
<1>1. Units(E \ {e}) \subseteq Units(E)
  BY DEF Units
<1>2. IsFiniteSet(Units(E \ {e}))
  BY <1>1, FS_Subset
<1>3. (E \ {e}) \cup {e} = E /\ e \notin E \ {e}
  OBVIOUS
<1>4. Mass(E \ {e}) \in Nat /\ Mass((E \ {e}) \cup {e}) = Mass(E \ {e}) + e[2].stamp
  BY <1>2, <1>3, MassGrows
<1>5. Mass(E) = Mass(E \ {e}) + e[2].stamp
  BY <1>3, <1>4, Zenon
<1> DEFINE a == Mass(E \ {e})
<1>6. a \in Nat /\ Mass(E) = a + e[2].stamp
  BY <1>4, <1>5
<1> HIDE DEF a
<1>7. a = Mass(E) - e[2].stamp
  BY <1>6
<1> QED BY <1>2, <1>7 DEF a

\* The loop over the buckets computes the mass of the elements.
LEMMA SumIsMass ==
  ASSUME NEW m, TableOK(m, Entries)
  PROVE  /\ IsFiniteSet(Units(Elements(m))) /\ Mass(Elements(m)) \in Nat
         /\ SumOf(m) = Mass(Elements(m))
<1> DEFINE n == m.size
           B(i) == ElementsBelow(m, i)
           w == Orders(m)
           T(h) == [i \in 0 .. n |-> IF i = 0 THEN 0 ELSE h[i - 1] + w[i - 1]]
           f == CHOOSE h : h = T(h)
           g == [i \in 0 .. n |-> Mass(B(i))]
           D == { i \in 0 .. n : IsFiniteSet(Units(B(i))) }
<1>n. n \in Nat \ {0}
  BY DEF TableOK, Shape
<1>1. \A i \in 0 .. n - 1 : w[i] = IF m.pairs[i] # NoPair THEN m.pairs[i].second.stamp ELSE 0
  BY DEF Orders, Stamp, Filled, Buckets
<1>2. ASSUME NEW i \in 0 .. n - 1, IsFiniteSet(Units(B(i)))
      PROVE  IsFiniteSet(Units(B(i + 1))) /\ Mass(B(i + 1)) = Mass(B(i)) + w[i]
  <2>0. Mass(B(i)) \in Nat
    BY <1>2, FS_CardinalityType DEF Mass
  <2>1. CASE m.pairs[i] = NoPair
    <3>1. B(i + 1) = B(i) /\ w[i] = 0
      BY <1>1, <2>1, BelowGrows
    <3> HIDE DEF B, w
    <3> QED BY <1>2, <2>0, <3>1
  <2>2. CASE m.pairs[i] # NoPair
    <3> DEFINE k == m.pairs[i].first
               s == m.pairs[i].second
               e == <<k, s>>
    <3>1. /\ s \in Entries /\ \A x \in B(i) : x[1] # k
          /\ B(i + 1) = B(i) \cup {e} /\ w[i] = s.stamp
      BY <1>1, <2>2, BelowGrows
    <3>2. e[1] = k /\ e[2].stamp = s.stamp /\ s.stamp \in Nat
      BY <3>1 DEF Entries
    <3>3. e \notin B(i)
      BY <3>1, <3>2
    <3> HIDE DEF B, w, e
    <3>4. /\ IsFiniteSet(Units(B(i) \cup {e}))
          /\ Mass(B(i) \cup {e}) = Mass(B(i)) + e[2].stamp
      BY <1>2, <3>2, <3>3, MassGrows
    <3> QED BY <3>1, <3>2, <3>4
  <2> QED BY <2>1, <2>2
<1>3. B(0) = {} /\ B(n) = Elements(m)
  BY BelowEnds
<1> HIDE DEF B, w, n
<1>4. IsFiniteSet(Units(B(0))) /\ Mass(B(0)) = 0
  <2>1. Units({}) = {}
    BY DEF Units
  <2> QED BY <1>3, <2>1, FS_EmptySet DEF Mass
<1>5. \A i \in 0 .. n : IsFiniteSet(Units(B(i)))
  <2>1. 0 \in D /\ \A i \in 0 .. n - 1 : i \in D => i + 1 \in D
    BY <1>n, <1>2, <1>4
  <2>2. \A i \in 0 .. n : i \in D
    <3> HIDE DEF D
    <3> QED BY <1>n, <2>1, UpTo
  <2> QED BY <2>2
<1>6. \A i \in 0 .. n - 1 : Mass(B(i + 1)) = Mass(B(i)) + w[i]
  BY <1>n, <1>2, <1>5
<1>7. g = T(g)
  <2>1. \A i \in 0 .. n : g[i] = IF i = 0 THEN 0 ELSE g[i - 1] + w[i - 1]
    <3> SUFFICES ASSUME NEW i \in 0 .. n, i # 0 PROVE g[i] = g[i - 1] + w[i - 1]
      BY <1>4
    <3>1. i - 1 \in 0 .. n - 1 /\ i - 1 \in 0 .. n /\ (i - 1) + 1 = i
      BY <1>n
    <3> QED BY <1>6, <3>1
  <2> HIDE DEF T
  <2>2. T(g) = [i \in 0 .. n |-> IF i = 0 THEN 0 ELSE g[i - 1] + w[i - 1]]
    BY DEF T
  <2> QED BY <2>1, <2>2
<1>8. f = T(f)
  <2> HIDE DEF T, g
  <2> QED BY <1>7
<1>9. SumOf(m) = f[n]
  BY DEF SumOf, Total, n, w
<1> HIDE DEF f
<1>10. f[0] = 0 /\ \A i \in 0 .. n - 1 : f[i + 1] = f[i] + w[i]
  <2>1. 0 \in 0 .. n /\ \A i \in 0 .. n - 1 : i + 1 \in 0 .. n /\ i + 1 # 0 /\ (i + 1) - 1 = i
    BY <1>n
  <2> QED BY <1>8, <2>1
<1> DEFINE A == { i \in 0 .. n : f[i] = Mass(B(i)) }
<1>11. 0 \in A /\ \A i \in 0 .. n - 1 : i \in A => i + 1 \in A
  BY <1>n, <1>4, <1>6, <1>10
<1>12. n \in A
  <2>1. \A i \in 0 .. n : i \in A
    <3> HIDE DEF A
    <3> QED BY <1>n, <1>11, UpTo
  <2> QED BY <1>n, <2>1
<1>13. IsFiniteSet(Units(B(n)))
  BY <1>n, <1>5
<1> QED BY <1>3, <1>9, <1>12, <1>13, FS_CardinalityType DEF Mass

\* If no order number is below q, the sum is at least q for each element.
LEMMA MassAtLeast ==
  ASSUME NEW m, TableOK(m, Entries), NEW q \in Nat, \A e \in Elements(m) : e[2].stamp >= q
  PROVE  Mass(Elements(m)) >= m.filled * q
<1> DEFINE E == Elements(m)
           U == E \X (0 .. q - 1)
<1>1. IsFiniteSet(E) /\ Cardinality(E) = m.filled
  BY ElementsCount
<1>2. IsFiniteSet(0 .. q - 1) /\ Cardinality(0 .. q - 1) = q
  BY FS_Interval
<1>3. U \subseteq Units(E)
  <2> SUFFICES ASSUME NEW e \in E, NEW i \in 0 .. q - 1 PROVE <<e, i>> \in Units(E)
    OBVIOUS
  <2>1. e[2] \in Entries /\ e[2].stamp >= q
    BY ElementsType
  <2>2. i \in Nat /\ i < e[2].stamp
    BY <2>1 DEF Entries
  <2> HIDE DEF E
  <2> QED BY <2>2 DEF Units
<1> HIDE DEF E
<1>4. Cardinality(U) = m.filled * q
  BY <1>1, <1>2, FS_Product
<1>5. IsFiniteSet(Units(E))
  BY SumIsMass DEF E
<1> HIDE DEF U
<1>6. Cardinality(U) =< Cardinality(Units(E)) /\ IsFiniteSet(U)
  BY <1>3, <1>5, FS_Subset
<1> QED BY <1>4, <1>5, <1>6, FS_CardinalityType DEF Mass, E

-----------------------------------------------------------------------------
(* The inductive invariant.                                                *)

Fields == {"size", "filled", "mlf", "hint", "pairs", "stuck", "sum", "max", "wiped"}

\* A sound table: its size is a power of two, so that every probe meets every
\* bucket, and no load factor shares a bucket.
Sound(c) ==
  /\ IsTable(c) /\ DOMAIN c = Fields /\ TableOK(c, Entries)
  /\ c.size \in Powers /\ c.hint \in Nat /\ c.stuck = FALSE
  /\ c.mlf \in Nat /\ c.mlf >= FixedOne
  /\ c.max \in Nat \ {0}
  /\ c.wiped \subseteq Buckets(c)

\* The sum is exact between calls, but not while a rehash moves elements.
CacheOK(c) == Sound(c) /\ c.sum = Mass(Elements(c))

Inv == CacheOK(t) /\ CacheOK(rhs) /\ now \in Nat

LEMMA FreshOK ==
  ASSUME NEW size \in Powers, NEW mlf \in Nat, mlf >= FixedOne, NEW max \in Nat \ {0}
  PROVE  LET c == EmptyTable(size, mlf, max)
         IN  /\ CacheOK(c) /\ Elements(c) = {} /\ c.filled = 0 /\ c.size = size
             /\ c.mlf = mlf /\ c.max = max
<1> DEFINE c == EmptyTable(size, mlf, max)
<1>1. /\ IsTable(c) /\ DOMAIN c = Fields /\ c.size = size /\ c.filled = 0 /\ c.mlf = mlf
      /\ c.max = max /\ c.hint = 0 /\ c.stuck = FALSE /\ c.pairs = Fresh(size)
      /\ c.sum = 0 /\ c.wiped = {}
  BY DEF EmptyTable, IsTable, Fields
<1> HIDE DEF c
<1>2. TableOK(c, Entries) /\ Elements(c) = {}
  BY <1>1, PowersDouble, NoElements
<1>3. Mass(Elements(c)) = 0
  <2>1. Units({}) = {}
    BY DEF Units
  <2> QED BY <1>2, <2>1, FS_EmptySet DEF Mass
<1> QED BY <1>1, <1>2, <1>3 DEF CacheOK, Sound, c

\* Changes to the elements alone keep the rest of a cache as it is.
LEMMA SameFields ==
  ASSUME NEW m, Sound(m), NEW u, TableOK(u, Entries),
         SameBut(m, u, {"pairs", "filled", "hint", "sum", "wiped"}),
         u.hint \in Nat, u.wiped \subseteq Buckets(m)
  PROVE  Sound(u) /\ u.max = m.max /\ u.mlf = m.mlf /\ u.size = m.size
<1>1. /\ IsTable(u) /\ DOMAIN u = Fields /\ u.size = m.size
      /\ u.stuck = m.stuck /\ u.mlf = m.mlf /\ u.max = m.max
  BY DEF SameBut, Sound, IsTable, Fields
<1> QED BY <1>1 DEF Sound, Buckets

LEMMA PlacedOK ==
  ASSUME NEW m, Sound(m), m.filled < m.size,
         NEW k \in Key, k \notin Keys(m), NEW s \in Entries
  PROVE  LET u == FindUniqueBucket(m, k, s)
         IN  /\ Sound(u) /\ Elements(u) = Elements(m) \cup {<<k, s>>}
             /\ u.filled = m.filled + 1 /\ SameBut(m, u, {"pairs", "filled", "hint"})
             /\ u.sum = m.sum /\ u.wiped = m.wiped /\ u.size = m.size
<1> DEFINE u == FindUniqueBucket(m, k, s)
<1>1. Placeable(m, Entries)
  BY RoomLeft DEF Sound, Placeable
<1>2. KeyPlaced(m, u, Entries, k, s)
  BY <1>1, NoPairIsNone, FindUniqueBucketPlaces
<1> HIDE DEF u
<1>3. /\ SameBut(m, u, {"pairs", "filled", "hint"}) /\ u.hint \in Nat
      /\ TableOK(u, Entries) /\ u.size = m.size /\ u.filled = m.filled + 1
      /\ Elements(u) = Elements(m) \cup {<<k, s>>}
  BY <1>2 DEF KeyPlaced, Gained
<1>4. u.wiped = m.wiped /\ u.sum = m.sum
  BY <1>3 DEF SameBut, Sound, Fields
<1>5. SameBut(m, u, {"pairs", "filled", "hint", "sum", "wiped"})
  BY <1>3 DEF SameBut
<1>6. u.wiped \subseteq Buckets(m)
  BY <1>4 DEF Sound
<1> QED BY <1>3, <1>4, <1>5, <1>6, SameFields DEF u

-----------------------------------------------------------------------------
(* Hits.                                                                   *)

\* What m has after k was met: its number is one higher.
Risen(m, u, k) ==
  /\ CacheOK(u) /\ u.size = m.size
  /\ \E s \in Entries :
       /\ <<k, s>> \in Elements(m)
       /\ Elements(u) = (Elements(m) \ {<<k, s>>}) \cup {<<k, [value |-> s.value, stamp |-> s.stamp + 1]>>}

LEMMA ReorderedOK ==
  ASSUME NEW m, CacheOK(m), NEW b \in Filled(m)
  PROVE  LET u == Reordered(m, b)
         IN  /\ Risen(m, u, m.pairs[b].first) /\ Filled(u) = Filled(m)
             /\ \A c \in Filled(m) : HashMain(u, c) = HashMain(m, c)
<1> DEFINE k == m.pairs[b].first
           s == m.pairs[b].second
           n == Stamp(m, b) + 1
           x == Stamped(m, b, n)
           r == [value |-> s.value, stamp |-> n]
           u == Reordered(m, b)
           old == <<k, s>>
           new == <<k, r>>
           E == Elements(m)
<1>0. IsTable(m) /\ TableOK(m, Entries) /\ Sound(m) /\ m.sum = Mass(E)
  BY DEF CacheOK, Sound
<1>1. s \in Entries /\ s.stamp \in Nat /\ n = s.stamp + 1 /\ n \in Nat
  <2>1. m.pairs[b] \in PairSet(Entries)
    BY <1>0, FilledType
  <2> QED BY <2>1 DEF PairSet, Entries, Stamp
<1>2. /\ SameBut(m, x, {"pairs"}) /\ IsTable(x) /\ Rewritten(m, x, Entries, b, k, r)
      /\ r \in Entries
      /\ \A c \in Filled(m) : HashMain(x, c) = HashMain(m, c)
  <2> HIDE DEF n
  <2> QED BY <1>0, <1>1, StampWritten
<1>3. u = [x EXCEPT !.sum = @ + 1]
  BY DEF Reordered
<1>e. old \in E
  BY DEF Elements
<1> HIDE DEF x, r
<1>4. /\ SameBut(m, u, {"pairs", "filled", "hint", "sum", "wiped"}) /\ u.sum = m.sum + 1
      /\ u.pairs = x.pairs /\ u.size = x.size /\ u.filled = x.filled /\ x.size = m.size
      /\ u.hint = m.hint /\ u.wiped = m.wiped
  <2>1. /\ DOMAIN x = Fields /\ x.sum = m.sum /\ x.hint = m.hint /\ x.wiped = m.wiped
        /\ x.size = m.size /\ DOMAIN m = Fields
    BY <1>0, <1>2 DEF SameBut, Sound, Fields
  <2>2. IsTable(u) /\ DOMAIN u = Fields /\ u.sum = m.sum + 1
        /\ \A y \in Fields \ {"sum"} : u[y] = x[y]
    BY <1>2, <1>3, <2>1 DEF IsTable, Fields
  <2> HIDE DEF u
  <2> QED BY <1>2, <2>1, <2>2 DEF SameBut, Fields, IsTable
<1> HIDE DEF u
<1>5. Filled(u) = Filled(x) /\ Filled(x) = Filled(m) /\ Elements(u) = Elements(x)
      /\ TableOK(u, Entries)
  <2>1. TableOK(x, Entries) /\ Filled(x) = Filled(m)
    BY <1>2 DEF Rewritten
  <2> QED BY <1>4, <2>1, SameTable
<1>6. \A c \in Filled(m) : HashMain(u, c) = HashMain(m, c)
  BY <1>2, <1>4 DEF HashMain, Main
<1>7. Sound(u) /\ u.size = m.size
  <2>1. u.hint \in Nat /\ u.wiped \subseteq Buckets(m)
    BY <1>0, <1>4 DEF Sound
  <2> QED BY <1>0, <1>4, <1>5, <2>1, SameFields
<1>8. Elements(u) = (E \ {old}) \cup {new}
  BY <1>2, <1>5 DEF Rewritten
<1>9. Mass(Elements(u)) = Mass(E) + 1
  <2>1. r.stamp = s.stamp + 1
    BY <1>1 DEF r
  <2>2. old[2].stamp = s.stamp /\ new[2].stamp = s.stamp + 1 /\ old[1] = k /\ new[1] = k
    BY <2>1
  <2>3. \A e \in E : e[1] = k => e = old
    BY <1>0, <1>e, <2>2, ElementsType
  <2>4. new \notin E \ {old}
    BY <2>2, <2>3
  <2> DEFINE X == E \ {old}
  <2>5. IsFiniteSet(Units(E)) /\ Mass(E) \in Nat
    BY <1>0, SumIsMass
  <2> HIDE DEF old, new, E
  <2>6. IsFiniteSet(Units(X)) /\ Mass(X) = Mass(E) - s.stamp
    BY <1>1, <1>e, <2>2, <2>5, MassShrinks
  <2> HIDE DEF X
  <2>7. Mass(X \cup {new}) = Mass(X) + (s.stamp + 1)
    BY <1>1, <2>2, <2>4, <2>6, MassGrows DEF X
  <2>8. Mass(Elements(u)) = Mass(X \cup {new})
    BY <1>8, Zenon DEF X
  <2> QED BY <1>1, <2>5, <2>6, <2>7, <2>8
<1>10. CacheOK(u)
  BY <1>0, <1>4, <1>7, <1>9 DEF CacheOK
<1>11. r = [value |-> s.value, stamp |-> s.stamp + 1]
  BY <1>1 DEF r
<1> QED BY <1>1, <1>e, <1>5, <1>6, <1>7, <1>8, <1>10, <1>11 DEF Risen, u

\* An element and the one before it in its chain change places.
LEMMA ExchangedOK ==
  ASSUME NEW m, CacheOK(m), NEW a \in Filled(m), NEW b \in Filled(m),
         a # b, HashMain(m, a) = HashMain(m, b)
  PROVE  LET u == Exchange(m, a, b)
         IN  /\ CacheOK(u) /\ Elements(u) = Elements(m) /\ Filled(u) = Filled(m)
             /\ u.size = m.size /\ u.pairs[a].first = m.pairs[b].first
<1> DEFINE u == Exchange(m, a, b)
<1>0. IsTable(m) /\ TableOK(m, Entries) /\ Sound(m)
  BY DEF CacheOK, Sound
<1>1. /\ SameBut(m, u, {"pairs"}) /\ TableOK(u, Entries) /\ Elements(u) = Elements(m)
      /\ Filled(u) = Filled(m) /\ u.size = m.size /\ u.pairs[a].first = m.pairs[b].first
  BY <1>0, ExchangeSame
<1> HIDE DEF u
<1>2. /\ SameBut(m, u, {"pairs", "filled", "hint", "sum", "wiped"})
      /\ u.hint = m.hint /\ u.wiped = m.wiped /\ u.sum = m.sum
  BY <1>0, <1>1 DEF SameBut, Sound, Fields
<1>3. u.hint \in Nat /\ u.wiped \subseteq Buckets(m)
  BY <1>0, <1>2 DEF Sound
<1>4. Sound(u)
  BY <1>0, <1>1, <1>2, <1>3, SameFields
<1> QED BY <1>1, <1>2, <1>4 DEF CacheOK, u

LEMMA MetOK ==
  ASSUME NEW m, CacheOK(m), NEW k \in Key, Find(m, k) # m.size, NEW up
  PROVE  Risen(m, Met(m, k, up), k)
<1> DEFINE b == Find(m, k)
           prev == FindPrevBucket(m, Main(m, k), b)
           x == Exchange(m, prev, b)
<1>1. b \in Filled(m) /\ m.pairs[b].first = k /\ HashMain(m, b) = Main(m, k)
  BY FindStored DEF CacheOK, Sound, HashMain
<1>2. CASE ~ (up /\ b # Main(m, k))
  <2>1. Met(m, k, up) = Reordered(m, b)
    BY <1>2 DEF Met
  <2> HIDE DEF b
  <2> QED BY <1>1, <2>1, ReorderedOK
<1>3. CASE up /\ b # Main(m, k)
  <2>1. Met(m, k, up) = Reordered(x, prev)
    BY <1>3 DEF Met
  <2>2. prev \in Filled(m) /\ prev # b /\ HashMain(m, prev) = HashMain(m, b)
    <3> HIDE DEF b
    <3> QED BY <1>1, <1>3, PrevLinks DEF CacheOK, Sound
  <2> HIDE DEF b, prev
  <2>3. /\ CacheOK(x) /\ Elements(x) = Elements(m) /\ Filled(x) = Filled(m)
        /\ x.size = m.size /\ x.pairs[prev].first = k
    BY <1>1, <2>2, ExchangedOK
  <2> HIDE DEF x
  <2>4. Risen(x, Reordered(x, prev), k)
    BY <2>2, <2>3, ReorderedOK
  <2> QED BY <2>1, <2>3, <2>4 DEF Risen
<1> QED BY <1>2, <1>3

LEMMA GotOK ==
  ASSUME NEW m, CacheOK(m), NEW k \in Key
  PROVE  LET u == Got(m, k) IN u = m \/ Risen(m, u, k)
<1> DEFINE b == Find(m, k)
           prev == FindPrevBucket(m, Main(m, k), b)
           hit == Reordered(m, b)
           u == Got(m, k)
<1>1. CASE b = m.size
  BY <1>1 DEF Got
<1>2. CASE b # m.size
  <2>1. b \in Filled(m) /\ m.pairs[b].first = k /\ HashMain(m, b) = Main(m, k)
    BY <1>2, FindStored DEF CacheOK, Sound, HashMain
  <2>2. /\ Risen(m, hit, k) /\ Filled(hit) = Filled(m)
        /\ \A c \in Filled(m) : HashMain(hit, c) = HashMain(m, c)
    <3> HIDE DEF b
    <3> QED BY <2>1, ReorderedOK
  <2>3. CASE u = hit
    BY <2>2, <2>3
  <2>4. CASE b # Main(m, k) /\ u = Exchange(hit, prev, b)
    <3>1. prev \in Filled(m) /\ prev # b /\ HashMain(m, prev) = HashMain(m, b)
      <4> HIDE DEF b, u, hit
      <4> QED BY <2>1, <2>4, PrevLinks DEF CacheOK, Sound
    <3> HIDE DEF b, prev, hit, u
    <3>2. CacheOK(hit) /\ hit.size = m.size
      BY <2>2 DEF Risen
    <3>3. CacheOK(u) /\ Elements(u) = Elements(hit) /\ u.size = hit.size
      BY <2>1, <2>2, <2>4, <3>1, <3>2, ExchangedOK
    <3>4. Risen(m, u, k)
      BY <2>2, <3>2, <3>3 DEF Risen
    <3> QED BY <3>4 DEF u
  <2> QED BY <1>2, <2>3, <2>4 DEF Got
<1> QED BY <1>1, <1>2

-----------------------------------------------------------------------------
(* Erasing.                                                                *)

\* An element is erased, and its number taken from the sum.
LEMMA ErasedOK ==
  ASSUME NEW m, CacheOK(m), NEW b \in Filled(m)
  PROVE  LET u == Erased(m, b)
         IN  /\ CacheOK(u) /\ Lost(m, u, Entries, b, EraseBucket(m, b).freed)
             /\ SameBut(m, u, {"pairs", "filled", "sum", "wiped"})
             /\ u.max = m.max
<1> DEFINE e == EraseBucket(m, b)
           x == Cleared(e.t, e.freed)
           u == Erased(m, b)
           s == m.pairs[b].second
           old == <<m.pairs[b].first, s>>
           E == Elements(m)
<1>0. IsTable(m) /\ TableOK(m, Entries) /\ Sound(m) /\ m.sum = Mass(E)
  BY DEF CacheOK, Sound
<1>1. Erasure(m, e, b)
  BY <1>0, EraseBucketErases
<1>2. u = [x EXCEPT !.sum = @ - Stamp(e.t, e.freed), !.wiped = @ \ {e.freed}]
  BY DEF Erased, ClearBucket
<1> HIDE DEF e
<1>3. /\ Lost(m, x, Entries, b, e.freed) /\ SameBut(m, x, {"pairs", "filled"}) /\ IsTable(x)
      /\ Stamp(e.t, e.freed) = s.stamp
  BY <1>1 DEF Erasure, Stamp
<1>4. s \in Entries /\ s.stamp \in Nat /\ old \in E
  <2>1. m.pairs[b] \in PairSet(Entries)
    BY <1>0, FilledType
  <2> QED BY <2>1 DEF PairSet, Entries, Elements
<1> HIDE DEF x
<1>5. /\ SameBut(m, u, {"pairs", "filled", "sum", "wiped"}) /\ u.sum = m.sum - s.stamp
      /\ u.pairs = x.pairs /\ u.size = x.size /\ u.filled = x.filled
      /\ u.hint = m.hint /\ u.wiped = m.wiped \ {e.freed} /\ u.max = m.max
  <2>1. /\ DOMAIN x = Fields /\ x.sum = m.sum /\ x.hint = m.hint /\ x.wiped = m.wiped
        /\ x.max = m.max /\ DOMAIN m = Fields
    BY <1>0, <1>3 DEF SameBut, Sound, Fields
  <2>2. /\ IsTable(u) /\ DOMAIN u = Fields /\ u.sum = m.sum - s.stamp
        /\ u.wiped = m.wiped \ {e.freed}
        /\ \A y \in Fields \ {"sum", "wiped"} : u[y] = x[y]
    BY <1>2, <1>3, <2>1 DEF IsTable, Fields
  <2> HIDE DEF u
  <2> QED BY <1>3, <2>1, <2>2 DEF SameBut, Fields, IsTable
<1> HIDE DEF u
<1>6. TableOK(u, Entries) /\ Filled(u) = Filled(x) /\ Elements(u) = Elements(x)
  BY <1>3, <1>5, SameTable DEF Lost
<1>7. Lost(m, u, Entries, b, e.freed)
  BY <1>3, <1>5, <1>6 DEF Lost
<1>8. Sound(u)
  <2>1. u.hint \in Nat /\ u.wiped \subseteq Buckets(m)
    BY <1>0, <1>5 DEF Sound
  <2>2. SameBut(m, u, {"pairs", "filled", "hint", "sum", "wiped"})
    BY <1>5 DEF SameBut
  <2> QED BY <1>0, <1>6, <2>1, <2>2, SameFields
<1>9. Mass(Elements(u)) = Mass(E) - s.stamp
  <2>1. IsFiniteSet(Units(E))
    BY <1>0, SumIsMass
  <2>2. Elements(u) = E \ {old} /\ old[2].stamp = s.stamp
    BY <1>7 DEF Lost
  <2> HIDE DEF E, old
  <2>3. Mass(E \ {old}) = Mass(E) - s.stamp
    BY <1>4, <2>1, <2>2, MassShrinks
  <2> QED BY <2>2, <2>3, Zenon
<1> QED BY <1>0, <1>5, <1>7, <1>8, <1>9 DEF CacheOK, u, e

\* remove_half after i turns that evict what has no number above medium: x.at
\* is the bucket it looks at next.
Halving(m, medium, i, x) ==
  /\ x = [t |-> x.t, at |-> x.at] /\ x.at \in 0 .. m.size
  /\ CacheOK(x.t) /\ SameBut(m, x.t, {"pairs", "filled", "hint", "sum", "wiped"})
  /\ Elements(x.t) \subseteq Elements(m)
  /\ \A e \in Elements(m) : e[2].stamp > medium => e \in Elements(x.t)
  /\ \A b \in Filled(x.t) : b < x.at => Stamp(x.t, b) > medium
  /\ x.at = m.size \/ i =< x.at + (m.filled - x.t.filled)

HalvingTurn(m, medium, x) ==
  IF x.at = m.size THEN x
  ELSE IF x.at \in Empty(x.t) THEN [x EXCEPT !.at = @ + 1]
  ELSE IF Stamp(x.t, x.at) > medium THEN [x EXCEPT !.at = @ + 1]
  ELSE [t |-> Erased(x.t, x.at),
        at |-> IF EraseBucket(x.t, x.at).freed = x.at THEN x.at + 1 ELSE x.at]

LEMMA HalvingTurns ==
  ASSUME NEW m, CacheOK(m), NEW medium \in Nat, NEW i \in Nat, NEW x, Halving(m, medium, i, x)
  PROVE  Halving(m, medium, i + 1, HalvingTurn(m, medium, x))
<1> DEFINE y == HalvingTurn(m, medium, x)
           b == x.at
<1>0. /\ CacheOK(x.t) /\ TableOK(x.t, Entries) /\ x.t.size = m.size /\ m.size \in Nat \ {0}
      /\ x.t.filled \in Nat /\ m.filled \in Nat /\ b \in Nat
      /\ \A c \in Filled(x.t) : c \in Nat
  <2>1. CacheOK(x.t) /\ TableOK(x.t, Entries) /\ TableOK(m, Entries) /\ m.size \in Nat \ {0}
    BY DEF Halving, CacheOK, Sound, TableOK, Shape
  <2>2. x.t.size = m.size
    BY DEF Halving, SameBut, CacheOK, Sound, Fields
  <2>3. x.t.filled \in Nat /\ m.filled \in Nat /\ \A c \in Filled(x.t) : c \in Nat
    <3>1. TableOK(m, Entries) => m.filled \in Nat
      BY FilledType
    <3> QED BY <2>1, <3>1, FilledType
  <2>4. b \in Nat
    BY DEF Halving
  <2> QED BY <2>1, <2>2, <2>3, <2>4
<1>1. CASE b = m.size
  <2>1. y = x
    BY <1>1 DEF HalvingTurn
  <2> QED BY <1>1, <2>1 DEF Halving
<1>2. CASE b # m.size /\ (b \in Empty(x.t) \/ Stamp(x.t, b) > medium)
  <2>1. y = [x EXCEPT !.at = @ + 1]
    BY <1>2 DEF HalvingTurn
  <2>2. y.t = x.t /\ y.at = b + 1 /\ y = [t |-> y.t, at |-> y.at]
    BY <2>1 DEF Halving
  <2>3. b + 1 \in 0 .. m.size
    BY <1>0, <1>2 DEF Halving
  <2>4. \A c \in Filled(x.t) : c < b + 1 => Stamp(x.t, c) > medium
    <3> SUFFICES ASSUME NEW c \in Filled(x.t), c < b + 1 PROVE Stamp(x.t, c) > medium
      OBVIOUS
    <3>1. c < b \/ c = b
      BY <1>0
    <3>2. c = b => Stamp(x.t, c) > medium
      BY <1>2 DEF Filled, Empty
    <3> QED BY <3>1, <3>2 DEF Halving
  <2>5. i + 1 =< (b + 1) + (m.filled - x.t.filled)
    BY <1>0, <1>2 DEF Halving
  <2> HIDE DEF y
  <2> QED BY <2>2, <2>3, <2>4, <2>5 DEF Halving, y
<1>3. CASE b # m.size /\ b \notin Empty(x.t) /\ ~ (Stamp(x.t, b) > medium)
  <2> DEFINE u == Erased(x.t, b)
             freed == EraseBucket(x.t, b).freed
             old == <<x.t.pairs[b].first, x.t.pairs[b].second>>
  <2>1. b \in Filled(x.t)
    <3>1. b \in Buckets(x.t)
      BY <1>0, <1>3 DEF Halving, Buckets
    <3> QED BY <1>3, <3>1 DEF Filled, Empty
  <2>2. y = [t |-> u, at |-> IF freed = b THEN b + 1 ELSE b]
    BY <1>3 DEF HalvingTurn
  <2>3. y.t = u /\ y.at = (IF freed = b THEN b + 1 ELSE b) /\ y = [t |-> y.t, at |-> y.at]
    BY <2>2
  <2>4. /\ CacheOK(u) /\ Lost(x.t, u, Entries, b, freed)
        /\ SameBut(x.t, u, {"pairs", "filled", "sum", "wiped"})
    BY <1>0, <2>1, ErasedOK
  <2> HIDE DEF y, u, freed
  <2>5. SameBut(m, u, {"pairs", "filled", "hint", "sum", "wiped"})
    BY <2>4 DEF Halving, SameBut
  <2>6. y.at \in 0 .. m.size /\ y.at >= b /\ (freed # b => y.at = b)
    BY <1>0, <1>3, <2>3 DEF Halving
  <2>7. Elements(u) = Elements(x.t) \ {old} /\ old[2].stamp = Stamp(x.t, b)
    BY <2>4 DEF Lost, Stamp
  <2>8. Elements(u) \subseteq Elements(m)
    BY <2>7 DEF Halving
  <2>9. ASSUME NEW e \in Elements(m), e[2].stamp > medium PROVE e \in Elements(u)
    <3>1. e \in Elements(x.t)
      BY <2>9 DEF Halving
    <3>2. e # old
      BY <1>3, <2>7, <2>9
    <3> QED BY <2>7, <3>1, <3>2
  <2>10. ASSUME NEW c \in Filled(u), c < y.at PROVE Stamp(u, c) > medium
    <3>1. c \in Filled(x.t) /\ c # freed
      BY <2>4 DEF Lost
    <3>2. c # b
      BY <1>0, <2>6, <2>10, <3>1
    <3>3. c < b
      BY <1>0, <2>3, <2>10, <3>1, <3>2
    <3>4. Stamp(u, c) = Stamp(x.t, c)
      BY <2>4, <3>2 DEF Lost, Stamp
    <3> QED BY <3>1, <3>3, <3>4 DEF Halving
  <2>11. i + 1 =< y.at + (m.filled - u.filled)
    <3>1. u.filled = x.t.filled - 1
      BY <2>4 DEF Lost
    <3>2. y.at \in Nat
      BY <2>6
    <3> QED BY <1>0, <1>3, <2>6, <3>1, <3>2 DEF Halving
  <2> QED BY <2>3, <2>4, <2>5, <2>6, <2>8, <2>9, <2>10, <2>11 DEF Halving, y
<1> QED BY <1>1, <1>2, <1>3

\* The values that x takes.
Half(y, n, w, a) == [t |-> [y EXCEPT !.sum = n, !.wiped = w], at |-> a]
Halves(m) ==
  { Half(y, n, w, a) : y \in Variants(m), n \in Nat, w \in SUBSET Buckets(m), a \in 0 .. m.size }

LEMMA HalvesHold ==
  ASSUME NEW m, CacheOK(m), NEW medium, NEW i, NEW x, Halving(m, medium, i, x)
  PROVE  x \in Halves(m)
<1> DEFINE u == x.t
           y == [u EXCEPT !.sum = m.sum, !.wiped = m.wiped]
<1>0. /\ IsTable(m) /\ IsTable(u) /\ DOMAIN m = Fields /\ DOMAIN u = Fields
      /\ SameBut(m, u, {"pairs", "filled", "hint", "sum", "wiped"})
      /\ TableOK(u, Entries) /\ u.hint \in Nat /\ u.wiped \subseteq Buckets(u)
      /\ u.sum = Mass(Elements(u)) /\ u.size = m.size
  <2>1. /\ IsTable(m) /\ IsTable(u) /\ DOMAIN m = Fields /\ DOMAIN u = Fields
        /\ SameBut(m, u, {"pairs", "filled", "hint", "sum", "wiped"})
        /\ TableOK(u, Entries) /\ u.hint \in Nat /\ u.wiped \subseteq Buckets(u)
        /\ u.sum = Mass(Elements(u))
    BY DEF Halving, CacheOK, Sound
  <2> QED BY <2>1 DEF SameBut, Fields
<1>1. u.sum \in Nat /\ u.wiped \in SUBSET Buckets(m) /\ x.at \in 0 .. m.size
  <2>1. u.sum \in Nat
    BY <1>0, SumIsMass
  <2> QED BY <1>0, <2>1 DEF Buckets, Halving
<1>2. x = [t |-> u, at |-> x.at]
  BY DEF Halving
<1> HIDE DEF u
<1>3. /\ SameBut(m, y, {"pairs", "filled", "hint"}) /\ y.hint \in Nat
      /\ y.size = u.size /\ y.pairs = u.pairs /\ y.filled = u.filled
      /\ [y EXCEPT !.sum = u.sum, !.wiped = u.wiped] = u
  BY <1>0 DEF SameBut, IsTable, Fields
<1> HIDE DEF y
<1>4. TableOK(y, Entries)
  BY <1>0, <1>3, SameTable
<1>5. y \in Variants(m)
  BY <1>0, <1>3, <1>4, VariantsHold
<1>6. x = Half(y, u.sum, u.wiped, x.at)
  BY <1>2, <1>3 DEF Half
<1> QED BY <1>1, <1>5, <1>6 DEF Halves

\* remove_half keeps what has a number above the mean, and evicts something.
LEMMA RemoveHalfEvicts ==
  ASSUME NEW m, CacheOK(m), m.filled > 0
  PROVE  LET u == RemoveHalf(m)
             medium == m.sum \div m.filled
         IN  /\ CacheOK(u) /\ medium \in Nat
             /\ Elements(u) = { e \in Elements(m) : e[2].stamp > medium }
             /\ u.filled < m.filled /\ u.size = m.size
<1> DEFINE medium == m.sum \div m.filled
           n == m.size + m.filled
           turn(x) == HalvingTurn(m, medium, x)
           start == [t |-> m, at |-> 0]
           I == [i \in 0 .. n |-> { x \in Halves(m) : Halving(m, medium, i, x) }]
           s == [i \in 1 .. n |-> [x \in Halves(m) |-> turn(x)]]
<1>n. /\ m.size \in Nat \ {0} /\ m.filled \in Nat /\ n \in Nat /\ TableOK(m, Entries)
      /\ m.sum = Mass(Elements(m)) /\ m.sum \in Nat /\ medium \in Nat
  <2>1. m.size \in Nat \ {0} /\ m.filled \in Nat /\ TableOK(m, Entries) /\ m.sum = Mass(Elements(m))
    BY FilledType DEF CacheOK, Sound, TableOK, Shape
  <2>2. m.sum \in Nat
    BY <2>1, SumIsMass
  <2> QED BY <2>1, <2>2
<1>m. \A i \in 0 .. n : \A x : x \in I[i] <=> Halving(m, medium, i, x)
  <2> SUFFICES ASSUME NEW i \in 0 .. n, NEW x, Halving(m, medium, i, x) PROVE x \in Halves(m)
    BY <1>n
  <2> QED BY HalvesHold
<1> HIDE DEF medium, n
<1>0. start \in I[0]
  <2>1. Halving(m, medium, 0, start)
    <3>1. start.t = m /\ start.at = 0
      OBVIOUS
    <3>2. SameBut(m, m, {"pairs", "filled", "hint", "sum", "wiped"})
      BY DEF SameBut, CacheOK, Sound, IsTable
    <3>3. \A b \in Filled(m) : ~ (b < 0)
      BY <1>n, FilledType
    <3>4. 0 \in 0 .. m.size /\ 0 =< 0 + (m.filled - m.filled)
      BY <1>n
    <3> HIDE DEF start
    <3>5. start = [t |-> start.t, at |-> start.at]
      BY DEF start
    <3> QED BY <3>1, <3>2, <3>3, <3>4, <3>5 DEF Halving
  <2> HIDE DEF I, start
  <2> QED BY <1>n, <1>m, <2>1
<1>1. \A i \in 1 .. n : \A x \in I[i - 1] : turn(x) \in I[i]
  <2> SUFFICES ASSUME NEW i \in 1 .. n, NEW x \in I[i - 1] PROVE turn(x) \in I[i]
    OBVIOUS
  <2> HIDE DEF I
  <2>1. i - 1 \in Nat /\ i - 1 \in 0 .. n /\ i \in 0 .. n /\ (i - 1) + 1 = i
    BY <1>n
  <2>2. Halving(m, medium, i - 1, x)
    BY <1>m, <2>1
  <2>3. Halving(m, medium, (i - 1) + 1, turn(x))
    BY <1>n, <2>1, <2>2, HalvingTurns
  <2> QED BY <1>m, <2>1, <2>3
<1>s. \A i \in 1 .. n : \A x \in I[i - 1] : s[i][x] = turn(x)
  BY <1>n
<1>2. RemoveHalf(m) = Iterate(turn, start, n).t
  BY DEF RemoveHalf, HalvingTurn, medium, n
<1> HIDE DEF turn, I, s, start
<1>3. PICK g : IsRun(g, s, start, n) /\ \A i \in 0 .. n : g[i] \in I[i]
  <2>1. \A i \in 1 .. n : \A x \in I[i - 1] : s[i][x] \in I[i]
    BY <1>1, <1>s
  <2> QED BY <1>n, <1>0, <2>1, GuidedRun
<1> DEFINE T(h) == [i \in 0 .. n |-> IF i = 0 THEN start ELSE turn(h[i - 1])]
           f == CHOOSE h : h = T(h)
<1>4. f = T(f)
  <2>1. \A i \in 0 .. n : g[i] = IF i = 0 THEN start ELSE turn(g[i - 1])
    <3>1. \A i \in 0 .. n : i # 0 => i \in 1 .. n /\ i - 1 \in 0 .. n
      BY <1>n
    <3>2. \A i \in 1 .. n : s[i][g[i - 1]] = turn(g[i - 1])
      BY <1>3, <1>s, <1>n
    <3> QED BY <1>3, <3>1, <3>2 DEF IsRun
  <2>2. g = T(g)
    BY <2>1, <1>3 DEF IsRun
  <2> HIDE DEF T
  <2> QED BY <2>2
<1>5. RemoveHalf(m) = f[n].t
  BY <1>2 DEF Iterate
<1> HIDE DEF f
<1>6. f[0] = start /\ \A i \in 0 .. n - 1 : f[i + 1] = turn(f[i])
  <2>1. 0 \in 0 .. n /\ \A i \in 0 .. n - 1 : i + 1 \in 0 .. n /\ i + 1 # 0 /\ (i + 1) - 1 = i
    BY <1>n
  <2> QED BY <1>4, <2>1
<1> DEFINE D == { i \in 0 .. n : f[i] \in I[i] }
<1>7. 0 \in D
  BY <1>0, <1>6, <1>n
<1>8. ASSUME NEW i \in 0 .. n - 1, i \in D PROVE i + 1 \in D
  <2>1. i + 1 \in 1 .. n /\ (i + 1) - 1 = i /\ i + 1 \in 0 .. n
    BY <1>n
  <2>2. f[i + 1] \in I[i + 1]
    BY <1>1, <1>6, <1>8, <2>1
  <2> QED BY <2>1, <2>2
<1>9. Halving(m, medium, n, f[n])
  <2>1. \A i \in 0 .. n : i \in D
    <3> HIDE DEF D
    <3> QED BY <1>n, <1>7, <1>8, UpTo
  <2> QED BY <1>n, <1>m, <2>1
<1> DEFINE u == f[n].t
           at == f[n].at
<1>10. /\ at \in 0 .. m.size /\ CacheOK(u) /\ u.size = m.size /\ Elements(u) \subseteq Elements(m)
       /\ \A e \in Elements(m) : e[2].stamp > medium => e \in Elements(u)
       /\ \A b \in Filled(u) : b < at => Stamp(u, b) > medium
       /\ at = m.size \/ n =< at + (m.filled - u.filled)
  <2>1. u.size = m.size
    BY <1>9 DEF Halving, SameBut, CacheOK, Sound, Fields
  <2> QED BY <1>9, <2>1 DEF Halving
<1> HIDE DEF u, at
<1>11. TableOK(u, Entries) /\ u.filled \in Nat /\ \A b \in Filled(u) : b \in Nat /\ b < m.size
  <2>1. TableOK(u, Entries)
    BY <1>10 DEF CacheOK, Sound
  <2>2. u.filled \in Nat /\ \A b \in Filled(u) : b \in Buckets(u)
    BY <2>1, FilledType
  <2> QED BY <1>n, <1>10, <2>1, <2>2 DEF Buckets
\* Every turn moves on or evicts, so that the walk comes to its end.
<1>12. at = m.size
  BY <1>n, <1>10, <1>11 DEF n
<1>13. \A e \in Elements(u) : e[2].stamp > medium
  BY <1>10, <1>11, <1>12 DEF Elements, Stamp
<1>14. Elements(u) = { e \in Elements(m) : e[2].stamp > medium }
  BY <1>10, <1>13
\* Not every number is above the mean.
<1>15. u.filled < m.filled
  <2>1. Elements(u) # Elements(m)
    <3> SUFFICES ASSUME \A e \in Elements(m) : e[2].stamp > medium PROVE FALSE
      BY <1>13
    <3>1. \A e \in Elements(m) : e[2].stamp >= medium + 1
      <4> SUFFICES ASSUME NEW e \in Elements(m) PROVE e[2].stamp >= medium + 1
        OBVIOUS
      <4>1. e[2] \in Entries /\ e[2].stamp > medium
        BY <1>n, ElementsType
      <4> QED BY <1>n, <4>1 DEF Entries
    <3>2. m.sum >= m.filled * (medium + 1)
      <4>1. medium + 1 \in Nat
        BY <1>n
      <4> QED BY <1>n, <3>1, <4>1, MassAtLeast
    <3>3. m.sum < m.filled * (medium + 1)
      <4> DEFINE c == m.filled
                 a == m.sum
                 q == a \div c
      <4>1. c \in Nat \ {0} /\ a \in Nat
        BY <1>n
      <4> HIDE DEF c, a
      <4>2. a = c * q + (a % c) /\ (a % c) < c /\ q \in Nat /\ (a % c) \in Nat
        BY <4>1
      <4> HIDE DEF q
      <4>3. c * (q + 1) = c * q + c /\ c * q \in Nat
        BY <4>1, <4>2
      <4>4. a < c * (q + 1)
        BY <4>1, <4>2, <4>3
      <4> QED BY <4>4 DEF medium, q, a, c
    <3> DEFINE a == m.filled * (medium + 1)
    <3>4. a \in Nat
      BY <1>n
    <3> HIDE DEF a
    <3> QED BY <1>n, <3>2, <3>3, <3>4 DEF a
  <2>2. /\ IsFiniteSet(Elements(m)) /\ Cardinality(Elements(m)) = m.filled
        /\ Cardinality(Elements(u)) = u.filled
    BY <1>n, <1>11, ElementsCount
  <2>3. /\ Cardinality(Elements(u)) =< Cardinality(Elements(m))
        /\ Cardinality(Elements(m)) = Cardinality(Elements(u)) => Elements(m) = Elements(u)
    BY <1>10, <2>2, FS_Subset
  <2> QED BY <1>n, <1>11, <2>1, <2>2, <2>3
<1>16. RemoveHalf(m) = u
  BY <1>5 DEF u
<1> QED BY <1>n, <1>10, <1>14, <1>15, <1>16 DEF medium

-----------------------------------------------------------------------------
(* Growing.                                                                *)

\* y is what a rehash of m that starts from x has after i turns.
Moving(m, x, i, y) ==
  /\ Sound(y) /\ SameBut(x, y, {"pairs", "filled", "hint"})
  /\ Elements(y) = ElementsBelow(m, i) /\ y.filled = Cardinality(FilledBelow(m, i))

LEMMA MovingTurns ==
  ASSUME NEW m, Sound(m), NEW x, Sound(x), x.size >= m.filled,
         NEW i \in 0 .. m.size - 1, NEW y, Moving(m, x, i, y)
  PROVE  Moving(m, x, i + 1, MoveOver(y, m, i, FindUniqueBucket))
<1> DEFINE u == MoveOver(y, m, i, FindUniqueBucket)
           k == m.pairs[i].first
           s == m.pairs[i].second
<1>0. /\ Sound(y) /\ y.size = x.size /\ y.stuck = FALSE /\ TableOK(m, Entries)
      /\ x.size \in Nat /\ m.filled \in Nat /\ y.filled \in Nat
  <2>1. y.size = x.size
    BY DEF Moving, SameBut, Sound, Fields
  <2> QED BY <2>1, FilledFits, PowersDouble DEF Moving, Sound
<1>1. CASE m.pairs[i] = NoPair
  <2>1. u = y
    BY <1>1 DEF MoveOver
  <2>2. FilledBelow(m, i + 1) = FilledBelow(m, i) /\ ElementsBelow(m, i + 1) = ElementsBelow(m, i)
    BY <1>0, <1>1, BelowGrows
  <2> QED BY <2>1, <2>2 DEF Moving
<1>2. CASE m.pairs[i] # NoPair
  <2>1. u = FindUniqueBucket(y, k, s)
    BY <1>0, <1>2 DEF MoveOver
  <2>2. /\ k \in Key /\ s \in Entries
        /\ \A e \in ElementsBelow(m, i) : e[1] # k
        /\ ElementsBelow(m, i + 1) = ElementsBelow(m, i) \cup {<<k, s>>}
        /\ Cardinality(FilledBelow(m, i + 1)) = Cardinality(FilledBelow(m, i)) + 1
        /\ Cardinality(FilledBelow(m, i)) < m.filled
    BY <1>0, <1>2, BelowGrows
  <2> HIDE DEF k, s, u
  <2>3. k \notin Keys(y)
    <3> SUFFICES ASSUME k \in Keys(y) PROVE FALSE
      OBVIOUS
    <3>1. PICK r : <<k, r>> \in Elements(y)
      BY KeysAreFirsts
    <3> DEFINE e == <<k, r>>
    <3>2. e \in ElementsBelow(m, i) /\ e[1] = k
      BY <3>1 DEF Moving
    <3> QED BY <2>2, <3>2
  <2>4. y.filled < y.size
    BY <1>0, <2>2 DEF Moving
  <2>5. /\ Sound(u) /\ Elements(u) = Elements(y) \cup {<<k, s>>}
        /\ u.filled = y.filled + 1 /\ SameBut(y, u, {"pairs", "filled", "hint"})
    BY <1>0, <2>1, <2>2, <2>3, <2>4, PlacedOK
  <2>6. SameBut(x, u, {"pairs", "filled", "hint"})
    BY <2>5 DEF Moving, SameBut
  <2> QED BY <2>2, <2>5, <2>6 DEF Moving, u
<1> QED BY <1>1, <1>2

LEMMA UpMoves ==
  ASSUME NEW m, Sound(m), NEW x, Sound(x), x.size >= m.filled,
         Elements(x) = {}, x.filled = 0
  PROVE  Moving(m, x, m.size, Up(x, m, FindUniqueBucket))
<1> DEFINE n == m.size
           turn(i, y) == MoveOver(y, m, i - 1, FindUniqueBucket)
           I == [i \in 0 .. n |-> { y \in Variants(x) : Moving(m, x, i, y) }]
           s == [i \in 1 .. n |-> [y \in Variants(x) |-> turn(i, y)]]
<1>n. n \in Nat \ {0}
  BY DEF Sound, TableOK, Shape
<1>m. \A i \in 0 .. n : \A y : y \in I[i] <=> Moving(m, x, i, y)
  <2> SUFFICES ASSUME NEW i \in 0 .. n, NEW y, Moving(m, x, i, y) PROVE y \in Variants(x)
    BY <1>n
  <2> QED BY VariantsHold DEF Moving, Sound
<1>0. x \in I[0]
  <2>1. Elements(x) = ElementsBelow(m, 0) /\ x.filled = Cardinality(FilledBelow(m, 0))
    BY BelowEnds DEF Sound
  <2>2. SameBut(x, x, {"pairs", "filled", "hint"})
    BY DEF SameBut, Sound, IsTable
  <2>3. Moving(m, x, 0, x)
    BY <2>1, <2>2 DEF Moving
  <2> HIDE DEF I
  <2> QED BY <1>n, <1>m, <2>3
<1>1. \A i \in 1 .. n : \A y \in I[i - 1] : turn(i, y) \in I[i]
  <2> SUFFICES ASSUME NEW i \in 1 .. n, NEW y \in I[i - 1] PROVE turn(i, y) \in I[i]
    OBVIOUS
  <2> HIDE DEF I
  <2>1. i - 1 \in 0 .. n - 1 /\ i - 1 \in 0 .. n /\ i \in 0 .. n /\ (i - 1) + 1 = i
    BY <1>n
  <2>2. Moving(m, x, i - 1, y)
    BY <1>m, <2>1
  <2>3. Moving(m, x, (i - 1) + 1, turn(i, y))
    BY <2>1, <2>2, MovingTurns
  <2> QED BY <1>m, <2>1, <2>3
<1>s. \A i \in 1 .. n : \A y \in I[i - 1] : s[i][y] = turn(i, y)
  BY <1>n
<1> HIDE DEF turn, I, s, n
<1>2. PICK g : IsRun(g, s, x, n) /\ \A i \in 0 .. n : g[i] \in I[i]
  <2>1. \A i \in 1 .. n : \A y \in I[i - 1] : s[i][y] \in I[i]
    BY <1>1, <1>s
  <2>2. n \in Nat
    BY <1>n
  <2> QED BY <2>1, <2>2, <1>0, GuidedRun
<1> DEFINE T(h) == [i \in 0 .. n |-> IF i = 0 THEN x ELSE turn(i, h[i - 1])]
           f == CHOOSE h : h = T(h)
<1>3. f = T(f)
  <2>1. \A i \in 0 .. n : g[i] = IF i = 0 THEN x ELSE turn(i, g[i - 1])
    <3>1. \A i \in 0 .. n : i # 0 => i \in 1 .. n /\ i - 1 \in 0 .. n
      BY <1>n
    <3>2. \A i \in 1 .. n : s[i][g[i - 1]] = turn(i, g[i - 1])
      BY <1>2, <1>s, <1>n
    <3> QED BY <1>2, <3>1, <3>2 DEF IsRun
  <2>2. g = T(g)
    BY <2>1, <1>2 DEF IsRun
  <2> HIDE DEF T
  <2> QED BY <2>2
<1>4. Up(x, m, FindUniqueBucket) = f[n]
  BY DEF Up, n, turn
<1> HIDE DEF f
<1>5. /\ f[0] = x
      /\ \A i \in 0 .. n - 1 : f[i + 1] = turn(i + 1, f[i])
  <2>1. 0 \in 0 .. n /\ \A i \in 0 .. n - 1 : i + 1 \in 0 .. n /\ i + 1 # 0 /\ (i + 1) - 1 = i
    BY <1>n
  <2> QED BY <1>3, <2>1
<1> DEFINE D == { i \in 0 .. n : f[i] \in I[i] }
<1>6. 0 \in D
  BY <1>0, <1>5, <1>n
<1>7. ASSUME NEW i \in 0 .. n - 1, i \in D PROVE i + 1 \in D
  <2>1. i + 1 \in 1 .. n /\ (i + 1) - 1 = i /\ i + 1 \in 0 .. n
    BY <1>n
  <2>2. f[i + 1] \in I[i + 1]
    BY <1>1, <1>5, <1>7, <2>1
  <2> QED BY <2>1, <2>2
<1>8. Moving(m, x, n, f[n])
  <2>1. \A i \in 0 .. n : i \in D
    <3> HIDE DEF D
    <3> QED BY <1>n, <1>6, <1>7, UpTo
  <2> QED BY <1>n, <1>m, <2>1
<1> QED BY <1>4, <1>8 DEF n

\* rehash loses nothing.
LEMMA RehashKeeps ==
  ASSUME NEW m, CacheOK(m), NEW n \in Nat
  PROVE  LET g == Rehashed(m, n)
         IN  /\ CacheOK(g) /\ Elements(g) = Elements(m) /\ g.filled = m.filled
             /\ g.size >= n \/ n < m.filled
<1>0. Sound(m) /\ m.sum = Mass(Elements(m)) /\ TableOK(m, Entries) /\ m.filled \in Nat
  BY FilledFits DEF CacheOK, Sound
<1>1. CASE n < m.filled
  BY <1>1 DEF Rehashed
<1>2. CASE ~ (n < m.filled)
  <2> DEFINE x == EmptyTable(BucketsFor(n), m.mlf, m.max)
             y == Up(x, m, FindUniqueBucket)
             g == Rehashed(m, n)
  <2>1. BucketsFor(n) \in Powers /\ BucketsFor(n) >= n /\ BucketsFor(n) \in Nat
    BY BucketsForEnough, PowersDouble
  <2>0. m.mlf \in Nat /\ m.mlf >= FixedOne /\ m.max \in Nat \ {0}
    BY <1>0 DEF Sound
  <2>2. Sound(x) /\ Elements(x) = {} /\ x.filled = 0 /\ x.size = BucketsFor(n)
    BY <2>0, <2>1, FreshOK DEF CacheOK
  <2>3. g = [y EXCEPT !.sum = SumOf(m)]
    BY <1>2 DEF Rehashed
  <2> HIDE DEF x
  <2>4. x.size >= m.filled
    BY <1>0, <1>2, <2>1, <2>2
  <2>5. Moving(m, x, m.size, y)
    BY <1>0, <2>2, <2>4, UpMoves
  <2> HIDE DEF y
  <2>6. Sound(y) /\ y.size = x.size /\ Elements(y) = Elements(m) /\ y.filled = m.filled
    <3>1. Elements(y) = Elements(m) /\ y.filled = m.filled
      BY <1>0, <2>5, BelowEnds DEF Moving, TableOK
    <3> QED BY <2>2, <2>5, <3>1 DEF Moving, SameBut, Sound, Fields
  <2>7. /\ SameBut(y, g, {"pairs", "filled", "hint", "sum", "wiped"}) /\ g.hint = y.hint
        /\ g.wiped = y.wiped /\ g.sum = SumOf(m) /\ g.size = y.size /\ g.pairs = y.pairs
        /\ g.filled = y.filled
    BY <2>3, <2>6 DEF SameBut, Sound, IsTable, Fields
  <2> HIDE DEF g
  <2>8. TableOK(g, Entries) /\ Elements(g) = Elements(y)
    BY <2>6, <2>7, SameTable DEF Sound
  <2>9. Sound(g)
    BY <2>6, <2>7, <2>8, SameFields DEF Sound
  <2>10. g.sum = Mass(Elements(g))
    BY <1>0, <2>6, <2>7, <2>8, SumIsMass
  <2>11. g.size >= n
    BY <2>1, <2>2, <2>6, <2>7
  <2> QED BY <2>6, <2>7, <2>8, <2>9, <2>10, <2>11 DEF CacheOK, g
<1> QED BY <1>1, <1>2

\* g is m after it made room: what it holds is what had a higher number than
\* some bound.
Thinned(m, g) ==
  /\ CacheOK(g)
  /\ \E low \in Int : Elements(g) = { e \in Elements(m) : e[2].stamp > low }

LEMMA AllThinned ==
  ASSUME NEW m, CacheOK(m), NEW g, CacheOK(g), Elements(g) = Elements(m)
  PROVE  Thinned(m, g)
<1>1. ASSUME NEW e \in Elements(m) PROVE e[2].stamp > -1
  <2>1. e[2] \in Entries
    BY ElementsType DEF CacheOK, Sound
  <2> QED BY <2>1 DEF Entries
<1>2. Elements(g) = { e \in Elements(m) : e[2].stamp > -1 } /\ -1 \in Int
  BY <1>1
<1> QED BY <1>2 DEF Thinned

LEMMA ReserveThins ==
  ASSUME NEW m, CacheOK(m), NEW n \in Nat
  PROVE  Thinned(m, Reserved(m, n))
<1> DEFINE r == RequiredBuckets(m, n)
<1>1. r \in Nat /\ m.filled \in Nat /\ m.max \in Nat \ {0}
  BY RequiredEnough, FilledFits DEF CacheOK, Sound, RequiredBuckets
<1> HIDE DEF r
<1>2. CASE r < m.size
  <2>1. Reserved(m, n) = m
    BY <1>2 DEF Reserved, r
  <2> QED BY <2>1, AllThinned
<1>3. CASE ~ (r < m.size) /\ m.filled >= m.max * 2
  <2>1. Reserved(m, n) = RemoveHalf(m)
    BY <1>3 DEF Reserved, r
  <2>2. m.filled > 0
    BY <1>1, <1>3
  <2> QED BY <2>1, <2>2, RemoveHalfEvicts DEF Thinned
<1>4. CASE ~ (r < m.size) /\ ~ (m.filled >= m.max * 2)
  <2>1. Reserved(m, n) = Rehashed(m, r + 2)
    BY <1>4 DEF Reserved, r
  <2>2. r + 2 \in Nat
    BY <1>1
  <2> HIDE DEF Thinned
  <2> QED BY <2>1, <2>2, RehashKeeps, AllThinned
<1> QED BY <1>2, <1>3, <1>4

\* There is room for one element more.
LEMMA ExpandThins ==
  ASSUME NEW m, CacheOK(m)
  PROVE  Thinned(m, Expanded(m)) /\ Expanded(m).filled < Expanded(m).size
<1> DEFINE r == RequiredBuckets(m, m.filled)
           g == Expanded(m)
<1>0. m.filled \in Nat /\ m.size \in Nat /\ m.max \in Nat \ {0} /\ m.filled =< m.size
  BY FilledFits, PowersDouble DEF CacheOK, Sound
<1>1. r \in Nat /\ r >= m.filled
  <2> DEFINE n == m.filled
  <2> HIDE DEF n
  <2>1. n \in Nat /\ m.mlf \in Nat /\ m.mlf >= FixedOne
    BY <1>0 DEF CacheOK, Sound, n
  <2>2. (n * m.mlf) \div FixedOne \in Nat /\ (n * m.mlf) \div FixedOne >= n
    BY <2>1, RequiredEnough
  <2> QED BY <2>2 DEF RequiredBuckets, n
<1>2. Thinned(m, g)
  BY <1>0, ReserveThins DEF Expanded
<1>3. g = IF r < m.size THEN m ELSE IF m.filled >= m.max * 2 THEN RemoveHalf(m)
          ELSE Rehashed(m, r + 2)
  BY DEF Expanded, Reserved
<1>4. g.filled \in Nat /\ g.size \in Nat
  BY <1>2, FilledFits, PowersDouble DEF Thinned, CacheOK, Sound
<1> HIDE DEF r, g
<1>5. ASSUME r < m.size PROVE g.filled < g.size
  BY <1>0, <1>1, <1>3, <1>5
<1>6. ASSUME ~ (r < m.size), m.filled >= m.max * 2 PROVE g.filled < g.size
  <2>1. m.filled > 0
    BY <1>0, <1>6
  <2>2. g.filled < m.filled /\ g.size = m.size
    BY <1>3, <1>6, <2>1, RemoveHalfEvicts
  <2> QED BY <1>0, <1>4, <2>2
<1>7. ASSUME ~ (r < m.size), ~ (m.filled >= m.max * 2) PROVE g.filled < g.size
  <2>1. r + 2 \in Nat /\ ~ (r + 2 < m.filled)
    BY <1>0, <1>1
  <2>2. g.filled = m.filled /\ g.size >= r + 2
    BY <1>3, <1>7, <2>1, RehashKeeps
  <2> QED BY <1>0, <1>1, <1>4, <2>2
<1>8. g.filled < g.size
  BY <1>5, <1>6, <1>7
<1> QED BY <1>2, <1>8 DEF g

-----------------------------------------------------------------------------
(* The other changes.                                                      *)

\* A new element gets its order number, and the sum grows by it.
LEMMA NewOK ==
  ASSUME NEW m, CacheOK(m), m.filled < m.size, NEW k \in Key, k \notin Keys(m),
         NEW v \in Value, NEW n \in Nat
  PROVE  LET u == Placed(m, k, v, n)
         IN  CacheOK(u) /\ Elements(u) = Elements(m) \cup {<<k, [value |-> v, stamp |-> n]>>}
<1> DEFINE s == [value |-> v, stamp |-> n]
           x == FindUniqueBucket(m, k, s)
           u == Placed(m, k, v, n)
           e == <<k, s>>
           E == Elements(m)
<1>0. Sound(m) /\ m.sum = Mass(E) /\ m.stuck = FALSE /\ TableOK(m, Entries)
  BY DEF CacheOK, Sound
<1>1. s \in Entries /\ s.stamp = n
  BY DEF Entries
<1> HIDE DEF s
<1>2. /\ Sound(x) /\ Elements(x) = E \cup {e} /\ x.sum = m.sum /\ x.stuck = FALSE
  <2>1. Sound(x) /\ Elements(x) = E \cup {e} /\ x.sum = m.sum
    BY <1>0, <1>1, PlacedOK
  <2> QED BY <2>1 DEF Sound
<1>3. u = [x EXCEPT !.sum = @ + n, !.wiped = @ \ Filled(x)]
  BY <1>0, <1>2 DEF Placed, s
<1> HIDE DEF x
<1>4. /\ SameBut(x, u, {"pairs", "filled", "hint", "sum", "wiped"}) /\ u.sum = m.sum + n
      /\ u.pairs = x.pairs /\ u.size = x.size /\ u.filled = x.filled
      /\ u.hint = x.hint /\ u.wiped = x.wiped \ Filled(x)
  <2>1. IsTable(x) /\ DOMAIN x = Fields
    BY <1>2 DEF Sound
  <2>2. /\ IsTable(u) /\ DOMAIN u = Fields /\ u.sum = m.sum + n
        /\ u.wiped = x.wiped \ Filled(x)
        /\ \A y \in Fields \ {"sum", "wiped"} : u[y] = x[y]
    BY <1>2, <1>3, <2>1 DEF IsTable, Fields
  <2> HIDE DEF u
  <2> QED BY <2>1, <2>2 DEF SameBut, Fields, IsTable
<1> HIDE DEF u
<1>5. TableOK(u, Entries) /\ Elements(u) = Elements(x)
  <2>1. TableOK(x, Entries)
    BY <1>2 DEF Sound
  <2> QED BY <1>4, <2>1, SameTable
<1>6. Sound(u)
  <2>1. u.hint \in Nat /\ u.wiped \subseteq Buckets(x)
    BY <1>2, <1>4 DEF Sound
  <2> QED BY <1>2, <1>4, <1>5, <2>1, SameFields
<1>7. Mass(Elements(u)) = Mass(E) + n
  <2>1. IsFiniteSet(Units(E))
    BY <1>0, SumIsMass
  <2>2. e \notin E
    <3>1. \A y \in E : y[1] \in Keys(m)
      BY DEF Elements, Keys
    <3> QED BY <3>1
  <2>3. e[2].stamp = n /\ Elements(u) = E \cup {e}
    BY <1>1, <1>2, <1>5
  <2> HIDE DEF E, e
  <2>4. Mass(E \cup {e}) = Mass(E) + n
    BY <2>1, <2>2, <2>3, MassGrows
  <2> QED BY <2>3, <2>4, Zenon
<1> QED BY <1>0, <1>2, <1>4, <1>5, <1>6, <1>7 DEF CacheOK, u, s

\* Nothing of the elements changes.
LEMMA SameBuckets ==
  ASSUME NEW m, CacheOK(m), NEW u, SameBut(m, u, {"mlf", "hint"}),
         u.hint \in Nat, u.mlf \in Nat, u.mlf >= FixedOne
  PROVE  CacheOK(u) /\ Elements(u) = Elements(m)
<1>0. Sound(m) /\ TableOK(m, Entries) /\ m.sum = Mass(Elements(m))
  BY DEF CacheOK, Sound
<1>1. /\ IsTable(u) /\ DOMAIN u = Fields /\ u.size = m.size /\ u.pairs = m.pairs
      /\ u.filled = m.filled /\ u.stuck = m.stuck /\ u.max = m.max
      /\ u.sum = m.sum /\ u.wiped = m.wiped
  BY <1>0 DEF SameBut, Sound, IsTable, Fields
<1>2. TableOK(u, Entries) /\ Elements(u) = Elements(m)
  BY <1>0, <1>1, SameTable
<1>3. Sound(u)
  BY <1>0, <1>1, <1>2 DEF Sound, Buckets
<1> QED BY <1>0, <1>1, <1>2, <1>3 DEF CacheOK

LEMMA CleanedOK ==
  ASSUME NEW m, CacheOK(m)
  PROVE  CacheOK(Cleaned(m)) /\ Elements(Cleaned(m)) = {}
<1> DEFINE u == Cleaned(m)
           w == IF Plain THEN Buckets(m) ELSE m.wiped \ Filled(m)
<1>0. Sound(m) /\ IsTable(m) /\ DOMAIN m = Fields /\ m.size \in Nat \ {0} /\ m.hint \in Nat
  BY PowersDouble DEF CacheOK, Sound
<1>1. w \subseteq Buckets(m)
  BY <1>0 DEF Sound
<1>2. u = [m EXCEPT !.pairs = Fresh(m.size), !.filled = 0, !.sum = 0, !.wiped = w]
  BY DEF Cleaned
<1> HIDE DEF w
<1>3. /\ SameBut(m, u, {"pairs", "filled", "hint", "sum", "wiped"})
      /\ u.pairs = Fresh(m.size) /\ u.filled = 0 /\ u.sum = 0 /\ u.wiped = w /\ u.hint = m.hint
      /\ u.size = m.size
  BY <1>0, <1>2 DEF SameBut, IsTable, Fields
<1> HIDE DEF u
<1>4. TableOK(u, Entries) /\ Elements(u) = {}
  BY <1>0, <1>3, NoElements
<1>5. Mass({}) = 0
  <2>1. Units({}) = {}
    BY DEF Units
  <2> QED BY <2>1, FS_EmptySet DEF Mass
<1>6. Sound(u)
  <2>1. u.hint \in Nat /\ u.wiped \subseteq Buckets(m)
    BY <1>0, <1>1, <1>3
  <2> QED BY <1>0, <1>3, <1>4, <2>1, SameFields
<1> QED BY <1>3, <1>4, <1>5, <1>6 DEF CacheOK, u

LEMMA ClonedOK ==
  ASSUME NEW m, CacheOK(m)
  PROVE  CacheOK(Cloned(m)) /\ Elements(Cloned(m)) = Elements(m)
<1>1. Sound(m)
  BY DEF CacheOK
<1>2. SameBut(m, Cloned(m), {"mlf", "hint"}) /\ Cloned(m).hint \in Nat /\ Cloned(m).mlf = m.mlf
  BY <1>1 DEF Cloned, SameBut, Sound, IsTable
<1>3. m.mlf \in Nat /\ m.mlf >= FixedOne
  BY <1>1 DEF Sound
<1> QED BY <1>2, <1>3, SameBuckets

LEMMA LoadSet ==
  ASSUME NEW m, CacheOK(m), NEW mlf \in Nat, mlf >= FixedOne,
         NEW u, u = [m EXCEPT !.mlf = mlf]
  PROVE  CacheOK(u) /\ Elements(u) = Elements(m)
<1>1. IsTable(m) /\ m.hint \in Nat
  BY DEF CacheOK, Sound
<1>2. SameBut(m, u, {"mlf", "hint"}) /\ u.mlf = mlf /\ u.hint = m.hint
  BY <1>1 DEF IsTable, SameBut
<1> QED BY <1>1, <1>2, SameBuckets

LEMMA NewCacheOK ==
  ASSUME NEW n \in Nat, NEW max \in Nat \ {0}
  PROVE  CacheOK(NewCache(n, max)) /\ Elements(NewCache(n, max)) = {}
<1> DEFINE mlf == (FixedOne * 1000) \div DefaultLoad
           r == (n * mlf) \div FixedOne
<1>1. mlf \in Nat /\ mlf >= FixedOne
  BY LoadInRange, DefaultLoadAssumption
<1> HIDE DEF mlf
<1>2. r \in Nat
  BY <1>1, RequiredEnough
<1>3. NewCache(n, max) = EmptyTable(BucketsFor(r + 2), mlf, max)
  BY DEF NewCache, mlf
<1> HIDE DEF r
<1>4. r + 2 \in Nat
  BY <1>2
<1> QED BY <1>1, <1>3, <1>4, BucketsForEnough, FreshOK

-----------------------------------------------------------------------------
(* What a search finds.                                                    *)

\* What u has of a key it has from m, perhaps with another number.
From(m, u, k) ==
  \A s \in Entries : <<k, s>> \in Elements(u) =>
    \E r \in Entries : <<k, r>> \in Elements(m) /\ r.value = s.value

LEMMA SubsetFrom ==
  ASSUME NEW m, NEW u, Elements(u) \subseteq Elements(m), NEW k
  PROVE  From(m, u, k)
BY DEF From

LEMMA RisenFrom ==
  ASSUME NEW m, NEW u, NEW k \in Key, Risen(m, u, k), NEW i \in Key
  PROVE  From(m, u, i) /\ From(u, m, i)
<1>1. PICK s \in Entries :
        /\ <<k, s>> \in Elements(m)
        /\ Elements(u) = (Elements(m) \ {<<k, s>>}) \cup {<<k, [value |-> s.value, stamp |-> s.stamp + 1]>>}
  BY DEF Risen
<1> DEFINE r == [value |-> s.value, stamp |-> s.stamp + 1]
<1>2. r \in Entries /\ r.value = s.value
  BY DEF Entries
<1>3. Elements(u) = (Elements(m) \ {<<k, s>>}) \cup {<<k, r>>}
  BY <1>1
<1> HIDE DEF r
<1>4. ASSUME NEW x \in Entries, <<i, x>> \in Elements(u)
      PROVE  \E y \in Entries : <<i, y>> \in Elements(m) /\ y.value = x.value
  BY <1>1, <1>2, <1>3, <1>4
<1>5. ASSUME NEW x \in Entries, <<i, x>> \in Elements(m)
      PROVE  \E y \in Entries : <<i, y>> \in Elements(u) /\ y.value = x.value
  <2>1. CASE <<i, x>> = <<k, s>>
    BY <1>2, <1>3, <2>1
  <2>2. CASE <<i, x>> # <<k, s>>
    BY <1>3, <1>5, <2>2
  <2> QED BY <2>1, <2>2
<1> QED BY <1>4, <1>5 DEF From

\* What is written to k leaves the other keys alone, and drops none.
LEMMA OthersStay ==
  ASSUME NEW m, NEW u, NEW k,
         Risen(m, u, k) \/ \E s \in Entries : Elements(u) = Elements(m) \cup {<<k, s>>}
  PROVE  /\ \A e : e[1] # k => (e \in Elements(u) <=> e \in Elements(m))
         /\ \A e \in Elements(m) : \E y \in Elements(u) : y[1] = e[1]
<1>1. CASE Risen(m, u, k)
  <2>1. PICK s \in Entries :
          /\ <<k, s>> \in Elements(m)
          /\ Elements(u) = (Elements(m) \ {<<k, s>>}) \cup {<<k, [value |-> s.value, stamp |-> s.stamp + 1]>>}
    BY <1>1 DEF Risen
  <2> DEFINE old == <<k, s>>
             new == <<k, [value |-> s.value, stamp |-> s.stamp + 1]>>
  <2>2. old[1] = k /\ new[1] = k /\ Elements(u) = (Elements(m) \ {old}) \cup {new}
    BY <2>1
  <2> HIDE DEF old, new
  <2> QED BY <2>2
<1>2. CASE \E s \in Entries : Elements(u) = Elements(m) \cup {<<k, s>>}
  <2>1. PICK s \in Entries : Elements(u) = Elements(m) \cup {<<k, s>>}
    BY <1>2
  <2> DEFINE new == <<k, s>>
  <2>2. new[1] = k /\ Elements(u) = Elements(m) \cup {new}
    BY <2>1
  <2> HIDE DEF new
  <2> QED BY <2>2
<1> QED BY <1>1, <1>2

\* A search tells the value of every element, and nothing of other keys.
LEMMA ElementSeen ==
  ASSUME NEW m, CacheOK(m)
  PROVE  LET C == Contents(m)
         IN  /\ C = [k \in Key |-> C[k]]
             /\ \A k \in Key : \A s : <<k, s>> \in Elements(m) => s \in Entries /\ C[k] = s.value
             /\ \A k \in Key : C[k] # NoValue =>
                  \E s \in Entries : <<k, s>> \in Elements(m) /\ s.value = C[k]
<1> DEFINE C == Contents(m)
<1>0. TableOK(m, Entries)
  BY DEF CacheOK, Sound
<1>1. \A k \in Key : C[k] = IF Find(m, k) = m.size THEN NoValue ELSE ValueOf(m, k)
  BY DEF Contents
<1>2. C = [k \in Key |-> C[k]]
  BY DEF Contents
<1> HIDE DEF C
<1>3. ASSUME NEW k \in Key, NEW s, <<k, s>> \in Elements(m)
      PROVE  s \in Entries /\ C[k] = s.value
  BY <1>0, <1>1, <1>3, ElementFound
<1>4. ASSUME NEW k \in Key, C[k] # NoValue
      PROVE  \E s \in Entries : <<k, s>> \in Elements(m) /\ s.value = C[k]
  <2>1. k \in Keys(m)
    BY <1>0, <1>1, <1>4, ElementFound
  <2>2. PICK s : <<k, s>> \in Elements(m)
    BY <2>1, KeysAreFirsts
  <2> QED BY <1>3, <2>2
<1> QED BY <1>2, <1>3, <1>4 DEF C

LEMMA LessSeen ==
  ASSUME NEW m, CacheOK(m), NEW u, CacheOK(u), NEW k \in Key, From(m, u, k)
  PROVE  Contents(u)[k] \in {Contents(m)[k], NoValue}
<1> SUFFICES ASSUME Contents(u)[k] # NoValue PROVE Contents(u)[k] = Contents(m)[k]
  OBVIOUS
<1>1. PICK s \in Entries : <<k, s>> \in Elements(u) /\ s.value = Contents(u)[k]
  BY ElementSeen
<1>2. PICK r \in Entries : <<k, r>> \in Elements(m) /\ r.value = s.value
  BY <1>1 DEF From
<1>3. Contents(m)[k] = r.value
  BY <1>2, ElementSeen
<1> QED BY <1>1, <1>2, <1>3

LEMMA NothingSeen ==
  ASSUME NEW m, CacheOK(m), Elements(m) = {}
  PROVE  Contents(m) = [k \in Key |-> NoValue]
<1> DEFINE C == Contents(m)
<1>1. C = [k \in Key |-> C[k]] /\ \A k \in Key : C[k] = NoValue
  BY ElementSeen
<1> HIDE DEF C
<1> QED BY <1>1 DEF C

LEMMA SameSeen ==
  ASSUME NEW m, CacheOK(m), NEW u, CacheOK(u),
         \A k \in Key : From(m, u, k) /\ From(u, m, k)
  PROVE  Contents(u) = Contents(m)
<1> DEFINE C == Contents(m)
           D == Contents(u)
<1>1. C = [k \in Key |-> C[k]] /\ D = [k \in Key |-> D[k]]
  BY ElementSeen
<1>2. \A k \in Key : D[k] \in {C[k], NoValue} /\ C[k] \in {D[k], NoValue}
  BY LessSeen
<1> HIDE DEF C, D
<1> QED BY <1>1, <1>2 DEF C, D

\* k is erased.
LEMMA GoneSeen ==
  ASSUME NEW m, CacheOK(m), NEW u, CacheOK(u), NEW k \in Key,
         Elements(u) = { e \in Elements(m) : e[1] # k }
  PROVE  Contents(u) = [Contents(m) EXCEPT ![k] = NoValue]
<1> DEFINE C == Contents(m)
           D == Contents(u)
<1>1. C = [i \in Key |-> C[i]] /\ D = [i \in Key |-> D[i]]
  BY ElementSeen
<1>2. D[k] = NoValue
  <2> SUFFICES ASSUME D[k] # NoValue PROVE FALSE
    OBVIOUS
  <2>1. PICK s \in Entries : <<k, s>> \in Elements(u)
    BY ElementSeen
  <2> QED BY <2>1
<1>3. ASSUME NEW i \in Key, i # k PROVE D[i] = C[i]
  <2>1. From(m, u, i) /\ From(u, m, i)
    BY <1>3 DEF From
  <2> QED BY <2>1, LessSeen
<1> HIDE DEF C, D
<1> QED BY <1>1, <1>2, <1>3 DEF C, D

-----------------------------------------------------------------------------
(* The steps: what each leaves of the invariant, and of the elements.      *)

\* The key was held and met, or is new, after what makes room.
Written(k, v) ==
  \E g : /\ Thinned(t, g) /\ CacheOK(t')
         /\ \/ /\ ret' = <<"held", k>> /\ Risen(g, t', k) /\ now' = now
            \/ /\ ret' = <<"new", k>> /\ k \notin Keys(g) /\ now' \in Nat
               /\ \E s \in Entries : s.value = v /\ Elements(t') = Elements(g) \cup {<<k, s>>}
         /\ UNCHANGED rhs

Lessened ==
  /\ CacheOK(t')
  /\ Elements(t') \subseteq Elements(t) \/ \E k \in Key : Risen(t, t', k)
  /\ ret' = <<"void">> /\ UNCHANGED <<rhs, now>>

Dropped(k) ==
  /\ CacheOK(t') /\ Elements(t') = { e \in Elements(t) : e[1] # k }
  /\ ret' = <<"one", k>> \/ (ret' = <<"none", k>> /\ k \notin Keys(t))
  /\ UNCHANGED <<rhs, now>>

LEMMA NewStep ==
  ASSUME Inv, NEW k \in Key, NEW v \in Value, k \notin Keys(Expanded(t)),
         t' = Placed(Expanded(t), k, v, now + 1), ret' = <<"new", k>>, now' = now + 1, rhs' = rhs
  PROVE  Written(k, v)
<1> DEFINE g == Expanded(t)
           s == [value |-> v, stamp |-> now + 1]
<1>1. Thinned(t, g) /\ CacheOK(g) /\ g.filled < g.size
  BY ExpandThins DEF Inv, Thinned
<1>2. now + 1 \in Nat /\ s \in Entries /\ s.value = v
  BY DEF Inv, Entries
<1>3. t' = Placed(g, k, v, now + 1) /\ k \notin Keys(g)
  OBVIOUS
<1> HIDE DEF g
<1>4. CacheOK(t') /\ Elements(t') = Elements(g) \cup {<<k, s>>}
  BY <1>1, <1>2, <1>3, NewOK
<1> HIDE DEF s
<1> QED BY <1>1, <1>2, <1>3, <1>4 DEF Written

LEMMA InsertStep ==
  ASSUME Inv, NEW k \in Key, NEW v \in Value, Insert(k, v)
  PROVE  Written(k, v)
<1> DEFINE g == Expanded(t)
<1>1. Thinned(t, g) /\ CacheOK(g) /\ TableOK(g, Entries)
  BY ExpandThins DEF Inv, Thinned, CacheOK, Sound
<1>2. CASE Find(g, k) # g.size
  <2>1. t' = Met(g, k, LruSet) /\ ret' = <<"held", k>> /\ now' = now /\ rhs' = rhs
    BY <1>2 DEF Insert
  <2> HIDE DEF g
  <2>2. Risen(g, t', k)
    BY <1>1, <1>2, <2>1, MetOK
  <2>3. CacheOK(t')
    BY <2>2 DEF Risen
  <2> QED BY <1>1, <2>1, <2>2, <2>3 DEF Written
<1>3. CASE Find(g, k) = g.size
  <2>1. t' = Placed(g, k, v, now + 1) /\ ret' = <<"new", k>> /\ now' = now + 1 /\ rhs' = rhs
    BY <1>3 DEF Insert
  <2>2. k \notin Keys(g)
    <3> HIDE DEF g
    <3> QED BY <1>1, <1>3, FindStored
  <2> QED BY <2>1, <2>2, NewStep
<1> QED BY <1>2, <1>3

LEMMA UniqueStep ==
  ASSUME Inv, NEW k \in Key, NEW v \in Value, Unique(k, v)
  PROVE  Written(k, v)
<1> DEFINE g == Expanded(t)
<1>1. Thinned(t, g) /\ TableOK(t, Entries)
  BY ExpandThins DEF Inv, CacheOK, Sound
<1>2. k \notin Keys(t)
  BY <1>1, FindStored DEF Unique
<1>3. k \notin Keys(g)
  <2>1. Elements(g) \subseteq Elements(t)
    BY <1>1 DEF Thinned
  <2> HIDE DEF g
  <2> QED BY <1>2, <2>1, KeysAreFirsts
<1> QED BY <1>3, NewStep DEF Unique

LEMMA EraseAtStep ==
  ASSUME Inv, NEW b \in Filled(t), EraseAt(b)
  PROVE  t.pairs[b].first \in Key /\ Dropped(t.pairs[b].first)
<1> DEFINE k == t.pairs[b].first
           u == Erased(t, b)
           old == <<k, t.pairs[b].second>>
<1>0. CacheOK(t) /\ TableOK(t, Entries)
  BY DEF Inv, CacheOK, Sound
<1>1. t' = u /\ ret' = <<"one", k>> /\ UNCHANGED <<rhs, now>>
  BY DEF EraseAt, Becomes
<1>2. CacheOK(u) /\ Elements(u) = Elements(t) \ {old}
  BY <1>0, ErasedOK DEF Lost
<1>3. old \in Elements(t) /\ old[1] = k
  BY DEF Elements
<1> HIDE DEF old, u
<1>4. /\ \A e \in Elements(t) : e[1] = k => e = old
      /\ k \in Key
  BY <1>0, <1>3, ElementsType
<1>5. Elements(u) = { e \in Elements(t) : e[1] # k }
  BY <1>2, <1>3, <1>4
<1> QED BY <1>1, <1>2, <1>4, <1>5 DEF Dropped

LEMMA EraseStep ==
  ASSUME Inv, NEW k \in Key, Erase(k)
  PROVE  Dropped(k)
<1> DEFINE b == Find(t, k)
<1>0. CacheOK(t) /\ IsTable(t) /\ TableOK(t, Entries)
  BY DEF Inv, CacheOK, Sound
<1>1. CASE b = t.size
  <2>1. k \notin Keys(t)
    BY <1>0, <1>1, FindStored
  <2>2. t' = t /\ ret' = <<"none", k>> /\ UNCHANGED <<rhs, now>>
    BY <1>1 DEF Erase, Becomes
  <2>3. Elements(t) = { e \in Elements(t) : e[1] # k }
    <3>1. \A e \in Elements(t) : e[1] \in Keys(t)
      BY DEF Elements, Keys
    <3> QED BY <2>1, <3>1
  <2> QED BY <1>0, <2>1, <2>2, <2>3 DEF Dropped
<1>2. CASE b # t.size
  <2>1. b \in Filled(t) /\ t.pairs[b].first = k /\ EraseKey(t, k) = EraseBucket(t, b)
    BY <1>0, <1>2, EraseKeyErases
  <2>2. EraseAt(b)
    BY <1>2, <2>1 DEF Erase, EraseAt, Erased
  <2> HIDE DEF b
  <2> QED BY <2>1, <2>2, EraseAtStep
<1> QED BY <1>1, <1>2

LEMMA OtherStep ==
  ASSUME Inv, One,
         ~ \E k \in Key, v \in Value : Unique(k, v) \/ Insert(k, v),
         ~ (\E k \in Key : Erase(k)), ~ \E b \in Filled(t) : EraseAt(b)
  PROVE  Lessened
<1>0. CacheOK(t) /\ t.filled \in Nat
  BY FilledFits DEF Inv, CacheOK, Sound
<1>1. PICK u :
        /\ Becomes(u, <<"void">>)
        /\ \/ \E k \in Key : u = Got(t, k)
           \/ \E n \in Requests : u = Reserved(t, n)
           \/ \E lf \in LoadFactors : u =
                IF lf > 200 /\ lf < 950 THEN [t EXCEPT !.mlf = (FixedOne * 1000) \div lf] ELSE t
           \/ u = Rehashed(t, t.filled)
           \/ u = Cleaned(t)
  <2>1. CASE \E k \in Key : Becomes(Got(t, k), <<"void">>)
    BY <2>1
  <2>2. CASE \E n \in Requests : Becomes(Reserved(t, n), <<"void">>)
    BY <2>2
  <2>3. CASE \E lf \in LoadFactors : MaxLoadFactor(lf)
    BY <2>3 DEF MaxLoadFactor
  <2>5. CASE Becomes(Rehashed(t, t.filled), <<"void">>)
    BY <2>5
  <2>6. CASE Becomes(Cleaned(t), <<"void">>)
    BY <2>6
  <2> QED BY <2>1, <2>2, <2>3, <2>5, <2>6 DEF One
<1>2. t' = u /\ ret' = <<"void">> /\ UNCHANGED <<rhs, now>>
  BY <1>1 DEF Becomes
<1> SUFFICES CacheOK(u) /\ (Elements(u) \subseteq Elements(t) \/ \E k \in Key : Risen(t, u, k))
  BY <1>2 DEF Lessened
<1>3. CASE \E k \in Key : u = Got(t, k)
  <2>1. PICK k \in Key : u = Got(t, k)
    BY <1>3
  <2>2. u = t \/ Risen(t, u, k)
    BY <1>0, <2>1, GotOK
  <2> QED BY <1>0, <2>2 DEF Risen
<1>4. CASE \E n \in Requests : u = Reserved(t, n)
  <2>1. PICK n \in Requests : u = Reserved(t, n)
    BY <1>4
  <2>2. n \in Nat
    BY RequestAssumption
  <2>3. Thinned(t, u)
    BY <1>0, <2>1, <2>2, ReserveThins
  <2> QED BY <2>3 DEF Thinned
<1>5. CASE \E lf \in LoadFactors : u =
             IF lf > 200 /\ lf < 950 THEN [t EXCEPT !.mlf = (FixedOne * 1000) \div lf] ELSE t
  <2>1. PICK lf \in LoadFactors :
          u = IF lf > 200 /\ lf < 950 THEN [t EXCEPT !.mlf = (FixedOne * 1000) \div lf] ELSE t
    BY <1>5
  <2>2. CASE ~ (lf > 200 /\ lf < 950)
    BY <1>0, <2>1, <2>2
  <2>3. CASE lf > 200 /\ lf < 950
    <3>1. lf \in 201 .. 949
      BY <2>3, LoadAssumption
    <3> DEFINE mlf == (FixedOne * 1000) \div lf
    <3>2. u = [t EXCEPT !.mlf = mlf]
      BY <2>1, <2>3
    <3>3. mlf \in Nat /\ mlf >= FixedOne
      BY <3>1, LoadInRange
    <3> HIDE DEF mlf
    <3>4. CacheOK(u) /\ Elements(u) = Elements(t)
      BY <1>0, <3>2, <3>3, LoadSet
    <3> QED BY <3>4
  <2> QED BY <2>2, <2>3
<1>7. CASE u = Rehashed(t, t.filled)
  BY <1>0, <1>7, RehashKeeps
<1>8. CASE u = Cleaned(t)
  BY <1>0, <1>8, CleanedOK
<1> QED BY <1>1, <1>3, <1>4, <1>5, <1>7, <1>8

-----------------------------------------------------------------------------
(* The theorems.                                                           *)

LEMMA InitHolds == Init => Inv
<1> SUFFICES ASSUME NEW n \in Requests, NEW max \in MaxBuckets, t = NewCache(n, max),
                    rhs = NewCache(1, 1), now = 0
             PROVE  Inv
  BY DEF Init
<1>1. n \in Nat /\ max \in Nat \ {0} /\ 1 \in Nat /\ 1 \in Nat \ {0}
  BY RequestAssumption
<1> QED BY <1>1, NewCacheOK DEF Inv

\* Every call writes a key, drops one or forgets some, or is made on both caches.
LEMMA StepCases ==
  ASSUME Inv, Next
  PROVE  \/ \E k \in Key, v \in Value : Written(k, v)
         \/ \E k \in Key : Dropped(k)
         \/ Lessened
         \/ Two
<1>1. CASE One
  <2>1. ASSUME NEW k \in Key, NEW v \in Value, Unique(k, v) \/ Insert(k, v)
        PROVE  Written(k, v)
    BY <2>1, UniqueStep, InsertStep
  <2>2. ASSUME NEW k \in Key, Erase(k) PROVE Dropped(k)
    BY <2>2, EraseStep
  <2>3. ASSUME NEW b \in Filled(t), EraseAt(b) PROVE \E k \in Key : Dropped(k)
    BY <2>3, EraseAtStep
  <2> QED BY <1>1, <2>1, <2>2, <2>3, OtherStep
<1> QED BY <1>1 DEF Next

LEMMA TwoKeeps ==
  ASSUME Inv, Two
  PROVE  /\ Inv' /\ ret' = <<"void">> /\ now' = now /\ Elements(t') = Elements(rhs)
         /\ \/ UNCHANGED rhs
            \/ Elements(rhs') = {}
            \/ Elements(rhs') = Elements(t)
<1>0. CacheOK(t) /\ CacheOK(rhs) /\ now' \in Nat /\ now' = now /\ ret' = <<"void">>
  BY DEF Inv, Two
<1>1. CASE t' = Cloned(rhs) /\ UNCHANGED rhs
  BY <1>0, <1>1, ClonedOK DEF Inv
<1>2. CASE t' = rhs /\ rhs' = Cleaned(NewCache(1, 1))
  <2>1. CacheOK(NewCache(1, 1))
    BY NewCacheOK
  <2> QED BY <1>0, <1>2, <2>1, CleanedOK DEF Inv
<1>3. CASE t' = rhs /\ rhs' = Cleaned(t)
  BY <1>0, <1>3, CleanedOK DEF Inv
<1>4. CASE t' = rhs /\ rhs' = t
  BY <1>0, <1>4 DEF Inv
<1> QED BY <1>1, <1>2, <1>3, <1>4 DEF Two

LEMMA StepHolds == Inv /\ [Next]_vars => Inv'
<1> SUFFICES ASSUME Inv, [Next]_vars PROVE Inv'
  OBVIOUS
<1>1. CASE UNCHANGED vars
  BY <1>1 DEF vars, Inv
<1>2. CASE \E k \in Key, v \in Value : Written(k, v)
  BY <1>2 DEF Written, Inv
<1>3. CASE (\E k \in Key : Dropped(k)) \/ Lessened
  BY <1>3 DEF Dropped, Lessened, Inv
<1>4. CASE Two
  BY <1>4, TwoKeeps
<1> QED BY <1>1, <1>2, <1>3, <1>4, StepCases

\* Through every sequence of calls both caches are sound tables with an exact sum.
THEOREM InvHolds == Spec => []Inv
BY InitHolds, StepHolds, PTL DEF Spec

\* The links of either cache stay sound chains, the counters count, and no key
\* is stored twice.
THEOREM TablesAlwaysSound == Spec => []TablesSound
<1>1. Inv => SoundChains(t) /\ SoundChains(rhs)
  BY DEF Inv, CacheOK, Sound, TableOK
<1>2. Inv => SoundCount(t) /\ SoundCount(rhs)
  BY CountIsSound DEF Inv, CacheOK, Sound
<1>3. Inv => TablesSound
  BY <1>1, <1>2 DEF TablesSound
<1> QED BY <1>3, InvHolds, PTL

\* No probe starts in a full table: an eviction makes room.
THEOREM ProbeAlwaysHasRoom == Spec => []ProbeHasRoom
<1>1. Inv => ProbeHasRoom
  BY DEF Inv, CacheOK, Sound, ProbeHasRoom
<1> QED BY <1>1, InvHolds, PTL

\* The sum each cache keeps is that of its order numbers.
THEOREM SumAlwaysExact == Spec => []SumExact
<1>1. Inv => SumExact
  BY SumIsMass DEF Inv, CacheOK, Sound, SumExact
<1> QED BY <1>1, InvHolds, PTL

\* An insertion evicts nothing that is as young as what it keeps.
THEOREM OldestEvicted == Spec => EvictsOldest
<1>1. ASSUME Inv, NEW k \in Keys(t) \ Keys(t'), NEW j \in Keys(t) \cap Keys(t'),
             StampOf(t, k) >= StampOf(t, j), NEW i \in Key \ {j}, NEW v \in Value, Insert(i, v)
      PROVE  FALSE
  <2>1. PICK g :
          /\ Thinned(t, g)
          /\ \/ Risen(g, t', i)
             \/ \E s \in Entries : Elements(t') = Elements(g) \cup {<<i, s>>}
    BY <1>1, InsertStep DEF Written
  <2>2. PICK low \in Int : Elements(g) = { e \in Elements(t) : e[2].stamp > low }
    BY <2>1 DEF Thinned
  <2>3. TableOK(t, Entries)
    BY <1>1 DEF Inv, CacheOK, Sound
  <2>4. PICK r, s : <<k, r>> \in Elements(t) /\ <<j, s>> \in Elements(t)
    BY <1>1, KeysAreFirsts
  <2>5. /\ r \in Entries /\ s \in Entries /\ r.stamp = StampOf(t, k) /\ s.stamp = StampOf(t, j)
        /\ k \in Key /\ j \in Key
    <3>1. k \in Key /\ j \in Key
      BY <1>1, <2>3, ElementsType
    <3> QED BY <2>3, <2>4, <3>1, ElementFound
  <2>6. \A e \in Elements(g) : \E y \in Elements(t') : y[1] = e[1]
    BY <2>1, OthersStay
  <2>7. <<k, r>> \notin Elements(g)
    <3> SUFFICES ASSUME <<k, r>> \in Elements(g) PROVE FALSE
      OBVIOUS
    <3>1. PICK y \in Elements(t') : y[1] = <<k, r>>[1]
      BY <2>6
    <3>2. y[1] \in Keys(t')
      BY DEF Elements, Keys
    <3> QED BY <1>1, <3>1, <3>2
  <2>8. <<j, s>> \in Elements(g)
    <3>1. PICK x : <<j, x>> \in Elements(t')
      BY <1>1, KeysAreFirsts
    <3>2. <<j, x>> \in Elements(g)
      <4> DEFINE e == <<j, x>>
      <4>1. e[1] = j /\ e \in Elements(t') /\ j # i
        BY <1>1, <3>1
      <4> HIDE DEF e
      <4>2. e \in Elements(g)
        BY <2>1, <4>1, OthersStay
      <4> QED BY <4>2 DEF e
    <3>3. <<j, x>> \in Elements(t)
      BY <2>2, <3>2
    <3>4. x = s
      <4> DEFINE d == <<j, x>>
                 e == <<j, s>>
      <4>1. d \in Elements(t) /\ e \in Elements(t) /\ d[1] = e[1] /\ d[2] = x /\ e[2] = s
        BY <2>4, <3>3
      <4> HIDE DEF d, e
      <4>2. d = e
        BY <2>3, <4>1, ElementsType
      <4> QED BY <4>1, <4>2
    <3> QED BY <3>2, <3>4
  <2>9. s.stamp > low /\ ~ (r.stamp > low)
    BY <2>2, <2>4, <2>7, <2>8
  <2>10. r.stamp \in Nat /\ s.stamp \in Nat
    BY <2>5 DEF Entries
  <2> QED BY <1>1, <2>5, <2>9, <2>10
<1>2. Inv /\ [Next]_vars =>
        [\A k \in Keys(t) \ Keys(t'), j \in Keys(t) \cap Keys(t') :
           StampOf(t, k) >= StampOf(t, j) =>
             ~ \E i \in Key \ {j}, v \in Value : Insert(i, v)]_vars
  BY <1>1
<1> QED BY <1>2, InvHolds, PTL DEF Spec, EvictsOldest

\* Every call does to what a search finds what a call of CacheSpec does.
LEMMA StepImplements ==
  ASSUME Inv, [Next]_vars
  PROVE  [Abstract!Next]_(Abstract!vars)
<1> DEFINE C == Contents(t)
           D == Contents(t')
           O == Contents(rhs)
           P == Contents(rhs')
<1>1. Contents(t)' = D /\ Contents(rhs)' = P
  BY DEF Contents
<1>2. CacheOK(t) /\ CacheOK(rhs)
  BY DEF Inv
<1>3. CacheOK(t') /\ CacheOK(rhs')
  BY StepHolds DEF Inv
<1>4. CASE UNCHANGED vars
  <2>1. C = D /\ O = P /\ ret' = ret
    BY <1>4 DEF vars
  <2> QED BY <1>1, <2>1 DEF Abstract!vars
<1>5. ASSUME NEW k \in Key, NEW v \in Value, Written(k, v)
      PROVE  Abstract!Insert(k, v)
  <2>1. PICK g :
          /\ Thinned(t, g) /\ rhs' = rhs
          /\ \/ ret' = <<"held", k>> /\ Risen(g, t', k)
             \/ /\ ret' = <<"new", k>>
                /\ \E s \in Entries : s.value = v /\ Elements(t') = Elements(g) \cup {<<k, s>>}
    BY <1>5 DEF Written
  <2>2. Elements(g) \subseteq Elements(t)
    BY <2>1 DEF Thinned
  <2>3. P = O
    BY <2>1
  <2>4. \A i \in Key \ {k} : D[i] \in {C[i], NoValue}
    <3> SUFFICES ASSUME NEW i \in Key, i # k PROVE D[i] \in {C[i], NoValue}
      OBVIOUS
    <3>1. \A e : e[1] # k => (e \in Elements(t') <=> e \in Elements(g))
      BY <2>1, OthersStay
    <3>2. From(t, t', i)
      BY <2>2, <3>1 DEF From
    <3> QED BY <1>2, <1>3, <3>2, LessSeen
  <2>5. ASSUME NEW s \in Entries, s.value = v, Elements(t') = Elements(g) \cup {<<k, s>>}
        PROVE  D[k] = v
    BY <1>3, <2>5, ElementSeen
  <2>6. ASSUME Risen(g, t', k) PROVE D[k] = C[k] /\ C[k] # NoValue
    <3>1. PICK s \in Entries :
            /\ <<k, s>> \in Elements(g)
            /\ <<k, [value |-> s.value, stamp |-> s.stamp + 1]>> \in Elements(t')
      BY <2>6 DEF Risen
    <3>2. D[k] = [value |-> s.value, stamp |-> s.stamp + 1].value /\ C[k] = s.value
      BY <1>2, <1>3, <2>2, <3>1, ElementSeen
    <3>3. s.value # NoValue
      BY ValueAssumption DEF Entries
    <3> QED BY <3>2, <3>3
  <2> HIDE DEF C, D, O, P
  <2>7. \/ ret' = <<"new", k>> /\ D[k] = v
        \/ ret' = <<"held", k>> /\ D[k] = C[k] /\ C[k] # NoValue
    BY <2>1, <2>5, <2>6
  <2> QED BY <1>1, <2>3, <2>4, <2>7 DEF C, O, Abstract!Insert, Abstract!Within
<1>6. ASSUME NEW k \in Key, Dropped(k) PROVE Abstract!Remove(k)
  <2>1. rhs' = rhs /\ Elements(t') = { e \in Elements(t) : e[1] # k }
        /\ (ret' = <<"one", k>> \/ (ret' = <<"none", k>> /\ k \notin Keys(t)))
    BY <1>6 DEF Dropped
  <2>2. D = [C EXCEPT ![k] = NoValue] /\ P = O
    BY <1>2, <1>3, <2>1, GoneSeen
  <2>3. k \notin Keys(t) => C[k] = NoValue
    <3> SUFFICES ASSUME C[k] # NoValue PROVE k \in Keys(t)
      OBVIOUS
    <3>1. \E s \in Entries : <<k, s>> \in Elements(t)
      BY <1>2, ElementSeen
    <3> QED BY <3>1, KeysAreFirsts
  <2> HIDE DEF C, D, O, P
  <2> QED BY <1>1, <2>1, <2>2, <2>3 DEF C, O, Abstract!Remove
<1>7. ASSUME Lessened PROVE Abstract!Forget
  <2>1. /\ rhs' = rhs /\ ret' = <<"void">>
        /\ Elements(t') \subseteq Elements(t) \/ \E k \in Key : Risen(t, t', k)
    BY <1>7 DEF Lessened
  <2>2. \A i \in Key : From(t, t', i)
    BY <2>1, SubsetFrom, RisenFrom
  <2>3. \A i \in Key : D[i] \in {C[i], NoValue}
    BY <1>2, <1>3, <2>2, LessSeen
  <2>4. P = O
    BY <2>1
  <2> HIDE DEF C, D, O, P
  <2> QED BY <1>1, <2>1, <2>3, <2>4 DEF C, O, Abstract!Forget, Abstract!Within
<1>8. ASSUME Two PROVE Abstract!Copy \/ Abstract!Move \/ Abstract!Swap
  <2>1. /\ ret' = <<"void">> /\ Elements(t') = Elements(rhs)
        /\ UNCHANGED rhs \/ Elements(rhs') = {} \/ Elements(rhs') = Elements(t)
    BY <1>8, TwoKeeps
  <2>2. D = O
    BY <1>2, <1>3, <2>1, SubsetFrom, SameSeen
  <2>3. UNCHANGED rhs => P = O
    BY <2>1
  <2>4. Elements(rhs') = {} => P = [k \in Key |-> NoValue]
    BY <1>3, NothingSeen
  <2>5. Elements(rhs') = Elements(t) => P = C
    BY <1>2, <1>3, SubsetFrom, SameSeen
  <2> HIDE DEF C, D, O, P
  <2> QED BY <1>1, <2>1, <2>2, <2>3, <2>4, <2>5
          DEF C, O, Abstract!Copy, Abstract!Move, Abstract!Swap, Abstract!Nothing
<1> QED BY <1>4, <1>5, <1>6, <1>7, <1>8, StepCases DEF Abstract!Next

\* The caches implement the abstract ones.
THEOREM CachesImplementSpec == Spec => ImplementsCaches
<1>1. Init => Abstract!Init
  <2> SUFFICES ASSUME Init PROVE Abstract!Init
    OBVIOUS
  <2>1. PICK n \in Requests, max \in MaxBuckets : t = NewCache(n, max)
    BY DEF Init
  <2>2. n \in Nat /\ max \in Nat \ {0} /\ 1 \in Nat /\ 1 \in Nat \ {0}
        /\ rhs = NewCache(1, 1) /\ ret = <<"void">>
    BY RequestAssumption DEF Init
  <2>3. CacheOK(t) /\ Elements(t) = {} /\ CacheOK(rhs) /\ Elements(rhs) = {}
    BY <2>1, <2>2, NewCacheOK
  <2>4. Contents(t) = [k \in Key |-> NoValue] /\ Contents(rhs) = [k \in Key |-> NoValue]
    BY <2>3, NothingSeen
  <2> QED BY <2>2, <2>4 DEF Abstract!Init, Abstract!Nothing
<1>2. Inv /\ [Next]_vars => [Abstract!Next]_(Abstract!vars)
  BY StepImplements
<1> QED BY <1>1, <1>2, InvHolds, PTL DEF Spec, ImplementsCaches, Abstract!Spec
=============================================================================
