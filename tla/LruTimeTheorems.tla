-------------------------- MODULE LruTimeTheorems --------------------------
(***************************************************************************)
(* The cache with deadlines, for every set of keys, hash function, size,   *)
(* bound and load factor, as long as callers are Careful: either cache     *)
(* keeps sound chains and an exact counter, no probe runs in a full table, *)
(* an insertion loses no fresh entry of a cache within its bound, and the  *)
(* two caches implement CacheSpec.                                         *)
(***************************************************************************)
EXTENDS LruTime, LruTableProofs

-----------------------------------------------------------------------------
(* The inductive invariant.                                                *)

Fields == {"size", "filled", "mlf", "hint", "pairs", "stuck", "max"}

\* A sound table with room between its probes: the size is a power of two,
\* and no load factor shares a bucket.
CacheOK(c) ==
  /\ IsTable(c) /\ DOMAIN c = Fields /\ TableOK(c, Entries)
  /\ c.size \in Powers /\ c.hint \in Nat /\ c.stuck = FALSE
  /\ c.mlf \in Nat /\ c.mlf >= FixedOne
  /\ c.max \in Nat \ {0}

Inv == CacheOK(t) /\ CacheOK(rhs) /\ now \in Nat

LEMMA FreshOK ==
  ASSUME NEW size \in Powers, NEW mlf \in Nat, mlf >= FixedOne, NEW max \in Nat \ {0}
  PROVE  LET c == EmptyTable(size, mlf, max)
         IN  /\ CacheOK(c) /\ Elements(c) = {} /\ c.filled = 0 /\ c.size = size
             /\ c.mlf = mlf /\ c.max = max
<1> DEFINE c == EmptyTable(size, mlf, max)
<1>1. /\ IsTable(c) /\ DOMAIN c = Fields /\ c.size = size /\ c.filled = 0 /\ c.mlf = mlf
      /\ c.max = max /\ c.hint = 0 /\ c.stuck = FALSE /\ c.pairs = Fresh(size)
  BY DEF EmptyTable, IsTable, Fields
<1> HIDE DEF c
<1>2. TableOK(c, Entries) /\ Elements(c) = {}
  BY <1>1, PowersDouble, NoElements
<1> QED BY <1>1, <1>2 DEF CacheOK, c

LEMMA PlacedOK ==
  ASSUME NEW m, CacheOK(m), m.filled < m.size,
         NEW k \in Key, k \notin Keys(m), NEW s \in Entries
  PROVE  LET u == FindUniqueBucket(m, k, s)
         IN  /\ CacheOK(u) /\ Elements(u) = Elements(m) \cup {<<k, s>>}
             /\ u.filled = m.filled + 1 /\ u.size = m.size /\ u.max = m.max
             /\ SameBut(m, u, {"pairs", "filled", "hint"})
<1> DEFINE u == FindUniqueBucket(m, k, s)
<1>1. Placeable(m, Entries)
  BY RoomLeft DEF CacheOK, Placeable
<1>2. KeyPlaced(m, u, Entries, k, s)
  BY <1>1, NoPairIsNone, FindUniqueBucketPlaces
<1> HIDE DEF u
<1>3. /\ SameBut(m, u, {"pairs", "filled", "hint"}) /\ u.hint \in Nat
      /\ TableOK(u, Entries) /\ u.size = m.size /\ u.filled = m.filled + 1
      /\ Elements(u) = Elements(m) \cup {<<k, s>>}
  BY <1>2 DEF KeyPlaced, Gained
<1>4. /\ IsTable(u) /\ DOMAIN u = Fields /\ u.mlf = m.mlf /\ u.max = m.max /\ u.stuck = m.stuck
  BY <1>3 DEF SameBut, CacheOK, IsTable, Fields
<1> QED BY <1>3, <1>4 DEF CacheOK, u

-----------------------------------------------------------------------------
(* Growing.                                                                *)

\* y is what a rehash of m that starts from x has after i turns: elements of
\* m, all the fresh ones unless the bound is met, and no more than the bound.
Rehashing(m, x, i, y) ==
  /\ CacheOK(y) /\ SameBut(x, y, {"pairs", "filled", "hint"})
  /\ Elements(y) \subseteq ElementsBelow(m, i)
  /\ y.filled =< Cardinality(FilledBelow(m, i)) /\ y.filled =< m.max
  /\ m.filled =< m.max =>
       \A e \in ElementsBelow(m, i) : e[2].stamp > now => e \in Elements(y)

LEMMA RehashTurn ==
  ASSUME now \in Nat, NEW m, CacheOK(m),
         NEW x, CacheOK(x), x.max = m.max, x.size >= m.filled \/ x.size >= m.max,
         NEW i \in 0 .. m.size - 1, NEW y, Rehashing(m, x, i, y)
  PROVE  Rehashing(m, x, i + 1, MoveOver(y, m, i, PutLive))
<1> DEFINE u == MoveOver(y, m, i, PutLive)
           k == m.pairs[i].first
           s == m.pairs[i].second
<1>0. /\ CacheOK(y) /\ y.max = m.max /\ y.size = x.size /\ y.filled \in Nat
      /\ m.max \in Nat /\ m.filled \in Nat /\ x.size \in Nat
      /\ TableOK(m, Entries) /\ TableOK(y, Entries)
  <2>1. y.max = m.max /\ y.size = x.size
    BY DEF Rehashing, SameBut, CacheOK, Fields
  <2> QED BY <2>1, FilledFits, PowersDouble DEF Rehashing, CacheOK
<1>1. CASE m.pairs[i] = NoPair
  <2>1. u = y
    BY <1>1 DEF MoveOver
  <2>2. FilledBelow(m, i + 1) = FilledBelow(m, i) /\ ElementsBelow(m, i + 1) = ElementsBelow(m, i)
    BY <1>0, <1>1, BelowGrows
  <2> QED BY <2>1, <2>2 DEF Rehashing
<1>2. CASE m.pairs[i] # NoPair
  <2>1. u = PutLive(y, k, s)
    BY <1>0, <1>2 DEF MoveOver, CacheOK
  <2>2. /\ k \in Key /\ s \in Entries
        /\ \A e \in ElementsBelow(m, i) : e[1] # k
        /\ ElementsBelow(m, i + 1) = ElementsBelow(m, i) \cup {<<k, s>>}
        /\ Cardinality(FilledBelow(m, i + 1)) = Cardinality(FilledBelow(m, i)) + 1
        /\ Cardinality(FilledBelow(m, i)) < m.filled
    BY <1>0, <1>2, BelowGrows
  <2>3. Cardinality(FilledBelow(m, i)) \in Nat /\ s.stamp \in Nat
    <3>1. IsFiniteSet(FilledBelow(m, i))
      BY <1>0, FilledType, FS_Subset DEF FilledBelow
    <3> QED BY <2>2, <3>1, FS_CardinalityType DEF Entries
  <2> HIDE DEF k, s, u
  <2>4. CASE s.stamp > now /\ y.filled < m.max
    <3>1. u = FindUniqueBucket(y, k, s)
      BY <1>0, <2>1, <2>4 DEF PutLive
    <3>2. k \notin Keys(y)
      <4> SUFFICES ASSUME k \in Keys(y) PROVE FALSE
        OBVIOUS
      <4>1. PICK r : <<k, r>> \in Elements(y)
        BY KeysAreFirsts
      <4> DEFINE e == <<k, r>>
      <4>2. e \in ElementsBelow(m, i) /\ e[1] = k
        BY <4>1 DEF Rehashing
      <4> QED BY <2>2, <4>2
    <3>3. y.filled < y.size
      BY <1>0, <2>2, <2>3, <2>4 DEF Rehashing
    <3>4. /\ CacheOK(u) /\ Elements(u) = Elements(y) \cup {<<k, s>>}
          /\ u.filled = y.filled + 1 /\ SameBut(y, u, {"pairs", "filled", "hint"})
      BY <1>0, <2>2, <3>1, <3>2, <3>3, PlacedOK
    <3>5. SameBut(x, u, {"pairs", "filled", "hint"})
      BY <3>4 DEF Rehashing, SameBut
    <3>6. u.filled =< Cardinality(FilledBelow(m, i + 1)) /\ u.filled =< m.max
      BY <1>0, <2>2, <2>3, <2>4, <3>4 DEF Rehashing
    <3> QED BY <2>2, <3>4, <3>5, <3>6 DEF Rehashing, u
  <2>5. CASE ~ (s.stamp > now /\ y.filled < m.max)
    <3>1. u = y
      BY <1>0, <2>1, <2>5 DEF PutLive
    <3>2. m.filled =< m.max => ~ (s.stamp > now)
      BY <1>0, <2>2, <2>3, <2>5 DEF Rehashing
    <3>3. y.filled =< Cardinality(FilledBelow(m, i + 1))
      BY <1>0, <2>2, <2>3 DEF Rehashing
    <3>4. m.filled =< m.max =>
            \A e \in ElementsBelow(m, i + 1) : e[2].stamp > now => e \in Elements(y)
      BY <2>2, <3>2 DEF Rehashing
    <3> QED BY <2>2, <3>1, <3>3, <3>4 DEF Rehashing, u
  <2> QED BY <2>4, <2>5
<1> QED BY <1>1, <1>2

LEMMA UpRehashes ==
  ASSUME now \in Nat, NEW m, CacheOK(m),
         NEW x, CacheOK(x), x.max = m.max, x.size >= m.filled \/ x.size >= m.max,
         Elements(x) = {}, x.filled = 0
  PROVE  Rehashing(m, x, m.size, Up(x, m, PutLive))
<1> DEFINE n == m.size
           turn(i, y) == MoveOver(y, m, i - 1, PutLive)
           I == [i \in 0 .. n |-> { y \in Variants(x) : Rehashing(m, x, i, y) }]
           s == [i \in 1 .. n |-> [y \in Variants(x) |-> turn(i, y)]]
<1>n. n \in Nat \ {0}
  BY DEF CacheOK, TableOK, Shape
<1>m. \A i \in 0 .. n : \A y : y \in I[i] <=> Rehashing(m, x, i, y)
  <2> SUFFICES ASSUME NEW i \in 0 .. n, NEW y, Rehashing(m, x, i, y) PROVE y \in Variants(x)
    BY <1>n
  <2> QED BY VariantsHold DEF Rehashing, CacheOK
<1>0. x \in I[0]
  <2>1. /\ Elements(x) \subseteq ElementsBelow(m, 0) /\ x.filled =< Cardinality(FilledBelow(m, 0))
        /\ ElementsBelow(m, 0) = {} /\ x.filled =< m.max
    BY BelowEnds DEF CacheOK
  <2>2. SameBut(x, x, {"pairs", "filled", "hint"})
    BY DEF SameBut, CacheOK, IsTable
  <2>3. Rehashing(m, x, 0, x)
    BY <2>1, <2>2 DEF Rehashing
  <2> HIDE DEF I
  <2> QED BY <1>n, <1>m, <2>3
<1>1. \A i \in 1 .. n : \A y \in I[i - 1] : turn(i, y) \in I[i]
  <2> SUFFICES ASSUME NEW i \in 1 .. n, NEW y \in I[i - 1] PROVE turn(i, y) \in I[i]
    OBVIOUS
  <2> HIDE DEF I
  <2>1. i - 1 \in 0 .. n - 1 /\ i - 1 \in 0 .. n /\ i \in 0 .. n /\ (i - 1) + 1 = i
    BY <1>n
  <2>2. Rehashing(m, x, i - 1, y)
    BY <1>m, <2>1
  <2>3. Rehashing(m, x, (i - 1) + 1, turn(i, y))
    BY <2>1, <2>2, RehashTurn
  <2> QED BY <1>m, <2>1, <2>3
<1>s. \A i \in 1 .. n : \A y \in I[i - 1] : s[i][y] = turn(i, y)
  BY <1>n
<1> HIDE DEF turn, I, s, n
<1>2. PICK g : IsRun(g, s, x, n) /\ \A i \in 0 .. n : g[i] \in I[i]
  <2>1. \A i \in 1 .. n : \A y \in I[i - 1] : s[i][y] \in I[i]
    BY <1>1, <1>s
  <2>2. n \in Nat
    BY <1>n
  <2> QED BY <2>1, <2>2, <1>0, GuidedRun
<1> DEFINE T(h) == [i \in 0 .. n |-> IF i = 0 THEN x ELSE turn(i, h[i - 1])]
           f == CHOOSE h : h = T(h)
<1>3. f = T(f)
  <2>1. \A i \in 0 .. n : g[i] = IF i = 0 THEN x ELSE turn(i, g[i - 1])
    <3>1. \A i \in 0 .. n : i # 0 => i \in 1 .. n /\ i - 1 \in 0 .. n
      BY <1>n
    <3>2. \A i \in 1 .. n : s[i][g[i - 1]] = turn(i, g[i - 1])
      BY <1>2, <1>s, <1>n
    <3> QED BY <1>2, <3>1, <3>2 DEF IsRun
  <2>2. g = T(g)
    BY <2>1, <1>2 DEF IsRun
  <2> HIDE DEF T
  <2> QED BY <2>2
<1>4. Up(x, m, PutLive) = f[n]
  BY DEF Up, n, turn
<1> HIDE DEF f
<1>5. /\ f[0] = x
      /\ \A i \in 0 .. n - 1 : f[i + 1] = turn(i + 1, f[i])
  <2>1. 0 \in 0 .. n /\ \A i \in 0 .. n - 1 : i + 1 \in 0 .. n /\ i + 1 # 0 /\ (i + 1) - 1 = i
    BY <1>n
  <2> QED BY <1>3, <2>1
<1> DEFINE D == { i \in 0 .. n : f[i] \in I[i] }
<1>6. 0 \in D
  BY <1>0, <1>5, <1>n
<1>7. ASSUME NEW i \in 0 .. n - 1, i \in D PROVE i + 1 \in D
  <2>1. i + 1 \in 1 .. n /\ (i + 1) - 1 = i /\ i + 1 \in 0 .. n
    BY <1>n
  <2>2. f[i + 1] \in I[i + 1]
    BY <1>1, <1>5, <1>7, <2>1
  <2> QED BY <2>1, <2>2
<1>8. n \in D
  <2>1. \A i \in 0 .. n : i \in D
    <3> HIDE DEF D
    <3> QED BY <1>n, <1>6, <1>7, UpTo
  <2> QED BY <1>n, <2>1
<1>9. n \in 0 .. n
  BY <1>n
<1> QED BY <1>4, <1>8, <1>9, <1>m DEF n

\* rehash, with at least as many buckets asked for as there are elements.
LEMMA RehashKeeps ==
  ASSUME now \in Nat, NEW m, CacheOK(m), NEW n \in Nat, n >= m.filled
  PROVE  LET g == Rehashed(m, n)
         IN  /\ CacheOK(g) /\ g.max = m.max /\ Elements(g) \subseteq Elements(m)
             /\ g.filled =< m.filled /\ g.filled =< m.max
             /\ g.size >= n \/ g.size >= 2 * m.max
             /\ m.filled =< m.max =>
                  \A e \in Elements(m) : e[2].stamp > now => e \in Elements(g)
<1> DEFINE l == LeastOf(n, 2 * m.max)
           x == EmptyTable(BucketsFor(l), m.mlf, m.max)
           g == Up(x, m, PutLive)
<1>1. m.max \in Nat \ {0} /\ m.mlf \in Nat /\ m.mlf >= FixedOne /\ m.filled \in Nat
      /\ TableOK(m, Entries)
  BY FilledFits DEF CacheOK
<1>2. l \in Nat /\ (l = n \/ l = 2 * m.max)
  BY <1>1 DEF LeastOf
<1> HIDE DEF l
<1>3. BucketsFor(l) \in Powers /\ BucketsFor(l) >= l /\ BucketsFor(l) \in Nat
  BY <1>2, BucketsForEnough, PowersDouble
<1>4. /\ CacheOK(x) /\ Elements(x) = {} /\ x.filled = 0 /\ x.size = BucketsFor(l)
      /\ x.max = m.max
  BY <1>1, <1>3, FreshOK
<1> HIDE DEF x
<1>5. x.size >= m.filled \/ x.size >= m.max
  BY <1>1, <1>2, <1>3, <1>4
<1>6. Rehashing(m, x, m.size, g)
  BY <1>1, <1>4, <1>5, UpRehashes
<1> HIDE DEF g
<1>7. g.size = x.size /\ g.max = x.max
  BY <1>4, <1>6 DEF Rehashing, SameBut, CacheOK, Fields
<1>8. /\ CacheOK(g) /\ Elements(g) \subseteq Elements(m)
      /\ g.filled =< m.filled /\ g.filled =< m.max
      /\ m.filled =< m.max => \A e \in Elements(m) : e[2].stamp > now => e \in Elements(g)
  BY <1>1, <1>6, BelowEnds DEF Rehashing, TableOK
<1>9. g.size >= n \/ g.size >= 2 * m.max
  BY <1>1, <1>2, <1>3, <1>4, <1>7
<1>10. Rehashed(m, n) = g
  BY DEF Rehashed, g, x, l
<1> QED BY <1>4, <1>7, <1>8, <1>9, <1>10

\* g is m after it made room: elements of m, and all the fresh ones if m was
\* within its bound.
Kept(m, g) ==
  /\ CacheOK(g) /\ Elements(g) \subseteq Elements(m)
  /\ m.filled =< m.max => \A e \in Elements(m) : e[2].stamp > now => e \in Elements(g)

LEMMA ReserveKeeps ==
  ASSUME now \in Nat, NEW m, CacheOK(m), NEW n \in Nat
  PROVE  Kept(m, Reserved(m, n))
<1> DEFINE r == RequiredBuckets(m, n)
<1>1. /\ r \in Nat /\ m.filled \in Nat /\ m.size \in Nat /\ m.filled =< m.size
  BY RequiredEnough, FilledFits, PowersDouble DEF CacheOK, RequiredBuckets
<1> HIDE DEF r
<1>2. CASE r < m.size - 1
  <2>1. Reserved(m, n) = m
    BY <1>2 DEF Reserved, r
  <2> QED BY <2>1 DEF Kept
<1>3. CASE ~ (r < m.size - 1)
  <2>1. Reserved(m, n) = Rehashed(m, r + 2)
    BY <1>3 DEF Reserved, r
  <2>2. r + 2 \in Nat /\ r + 2 >= m.filled
    BY <1>1, <1>3
  <2> QED BY <2>1, <2>2, RehashKeeps DEF Kept
<1> QED BY <1>2, <1>3

\* expand: there is room for one element more.
LEMMA ExpandKeeps ==
  ASSUME now \in Nat, NEW m, CacheOK(m)
  PROVE  Kept(m, Expanded(m)) /\ Expanded(m).filled < Expanded(m).size
<1> DEFINE r == RequiredBuckets(m, m.filled)
<1>0. m.filled \in Nat /\ m.size \in Nat /\ m.max \in Nat \ {0}
  BY FilledFits, PowersDouble DEF CacheOK
<1>1. r \in Nat /\ r >= m.filled
  <2> DEFINE n == m.filled
  <2> HIDE DEF n
  <2>1. n \in Nat /\ m.mlf \in Nat /\ m.mlf >= FixedOne
    BY <1>0 DEF CacheOK, n
  <2>2. (n * m.mlf) \div FixedOne \in Nat /\ (n * m.mlf) \div FixedOne >= n
    BY <2>1, RequiredEnough
  <2> QED BY <2>2 DEF RequiredBuckets, n
<1>2. Kept(m, Expanded(m))
  BY <1>0, ReserveKeeps DEF Expanded
<1> HIDE DEF r
<1>3. CASE r < m.size - 1
  <2>1. Expanded(m) = m
    BY <1>3 DEF Expanded, Reserved, r
  <2> QED BY <1>0, <1>1, <1>2, <1>3, <2>1
<1>4. CASE ~ (r < m.size - 1)
  <2> DEFINE g == Expanded(m)
  <2>1. g = Rehashed(m, r + 2)
    BY <1>4 DEF Expanded, Reserved, r
  <2>2. r + 2 \in Nat /\ r + 2 >= m.filled
    BY <1>0, <1>1
  <2>3. /\ g.filled =< m.filled /\ g.filled =< m.max
        /\ g.size >= r + 2 \/ g.size >= 2 * m.max
    BY <2>1, <2>2, RehashKeeps
  <2>4. g.filled \in Nat /\ g.size \in Nat
    BY <1>2, FilledFits, PowersDouble DEF Kept, CacheOK
  <2> HIDE DEF g
  <2>5. g.filled < g.size
    BY <1>0, <1>1, <2>3, <2>4
  <2> QED BY <1>2, <2>5 DEF g
<1> QED BY <1>3, <1>4

-----------------------------------------------------------------------------
(* Inserting.                                                              *)

\* Changes to the elements alone keep the rest of a cache as it is.
LEMMA SameFields ==
  ASSUME NEW m, CacheOK(m), NEW u, TableOK(u, Entries), SameBut(m, u, {"pairs", "filled"})
  PROVE  CacheOK(u) /\ u.max = m.max
<1>1. /\ IsTable(u) /\ DOMAIN u = Fields /\ u.size = m.size /\ u.hint = m.hint
      /\ u.stuck = m.stuck /\ u.mlf = m.mlf /\ u.max = m.max
  BY DEF SameBut, CacheOK, IsTable, Fields
<1> QED BY <1>1 DEF CacheOK

LEMMA EntryType ==
  ASSUME now \in Nat, NEW v \in Value, NEW timeout \in Nat
  PROVE  /\ Entry(v, timeout) \in Entries /\ Entry(v, timeout).value = v
         /\ Entry(v, timeout).stamp >= now
BY DEF Entry, Entries

\* A bucket is taken over for a key of its chain.
LEMMA TakeOver ==
  ASSUME now \in Nat, NEW m, CacheOK(m), NEW b \in Filled(m),
         NEW k \in Key, Main(m, k) = HashMain(m, b),
         \A c \in Filled(m) : m.pairs[c].first = k => c = b,
         NEW v \in Value, NEW timeout \in Nat
  PROVE  LET u == TakenOver(m, b, k, v, timeout)
         IN  CacheOK(u) /\ Rewritten(m, u, Entries, b, k, Entry(v, timeout))
<1> DEFINE u == TakenOver(m, b, k, v, timeout)
           e == Entry(v, timeout)
<1>0. IsTable(m) /\ TableOK(m, Entries)
  BY DEF CacheOK
<1>1. e \in Entries
  BY EntryType
<1>2. m.pairs[b] \in PairSet(Entries) /\ b \in DOMAIN m.pairs
  BY <1>0, FilledType DEF TableOK, Shape, Filled
<1> HIDE DEF e
<1>3. [[m.pairs[b] EXCEPT !.first = k] EXCEPT !.second = e] = Pair(k, e, m.pairs[b].bucket)
  <2> DEFINE p == m.pairs[b]
             q == [p EXCEPT !.first = k]
             w == [q EXCEPT !.second = e]
  <2>1. p \in PairSet(Entries)
    BY <1>2
  <2> HIDE DEF p
  <2>2. q = Pair(k, p.second, p.bucket)
    BY <2>1 DEF PairSet, Pair
  <2> HIDE DEF q
  <2>3. w = Pair(k, e, p.bucket)
    BY <2>2 DEF Pair
  <2> QED BY <2>3 DEF p, q
<1>4. /\ SameBut(m, u, {"pairs"}) /\ IsTable(u)
      /\ u.pairs = [[m.pairs EXCEPT ![b] = [m.pairs[b] EXCEPT !.first = k]]
                      EXCEPT ![b] = [@ EXCEPT !.second = e]]
  BY <1>0 DEF TakenOver, SameBut, IsTable, e
<1> HIDE DEF u
<1>5. u.pairs = [m.pairs EXCEPT ![b] = Pair(k, e, m.pairs[b].bucket)]
  BY <1>2, <1>3, <1>4
<1>6. u.size = m.size /\ u.filled = m.filled
  BY <1>0, <1>4 DEF SameBut, IsTable
<1>7. Rewritten(m, u, Entries, b, k, e)
  BY <1>0, <1>1, <1>5, <1>6, NoPairIsNone, WriteOver
<1>8. SameBut(m, u, {"pairs", "filled"})
  BY <1>4 DEF SameBut
<1> QED BY <1>7, <1>8, SameFields DEF Rewritten, u, e

\* A stamp is written.
LEMMA Restamp ==
  ASSUME NEW m, CacheOK(m), NEW b \in Filled(m), NEW n \in Nat
  PROVE  LET u == Stamped(m, b, n)
             k == m.pairs[b].first
             s == m.pairs[b].second
         IN  CacheOK(u) /\ Rewritten(m, u, Entries, b, k, [value |-> s.value, stamp |-> n])
<1> DEFINE u == Stamped(m, b, n)
           new == [value |-> m.pairs[b].second.value, stamp |-> n]
<1>1. SameBut(m, u, {"pairs"}) /\ Rewritten(m, u, Entries, b, m.pairs[b].first, new)
  BY StampWritten DEF CacheOK
<1> HIDE DEF u, new
<1>2. SameBut(m, u, {"pairs", "filled"})
  BY <1>1 DEF SameBut
<1> QED BY <1>1, <1>2, SameFields DEF Rewritten, u, new

\* The first expired entry of the chain is of the chain, and expired.
LEMMA TimeBucketsExpired ==
  ASSUME NEW m, CacheOK(m), NEW k \in Key, NEW c \in TimeBuckets(m, k)
  PROVE  c \in Filled(m) /\ HashMain(m, c) = Main(m, k) /\ IsTimeout(m, c)
<1> DEFINE h == Main(m, k)
<1>1. c \in Chain(m, k) /\ IsTimeout(m, c) /\ ~ (h \in Filled(m) /\ HashMain(m, h) # h)
  BY DEF TimeBuckets
<1>2. h \in Filled(m)
  BY <1>1, MainInRange DEF Chain, Empty, Filled, CacheOK, TableOK, Shape
<1>3. HashMain(m, h) = h /\ c \in Walk(m, h)
  BY <1>1, <1>2 DEF Chain
<1>4. c \in Reach(Filled(m), Link(m), h)
  BY <1>2, <1>3, WalkIsReach DEF CacheOK
<1>5. WellChained(Filled(m), Link(m), Home(m)) /\ Home(m)[h] = HashMain(m, h)
  BY <1>2, FilledType DEF CacheOK, TableOK, SoundChains
<1> DEFINE F == Filled(m)
           nx == Link(m)
           mn == Home(m)
<1>6. c \in F /\ mn[c] = h
  <2>1. mn[h] = h /\ WellChained(F, nx, mn) /\ h \in F /\ c \in Reach(F, nx, h)
    BY <1>2, <1>3, <1>4, <1>5
  <2> HIDE DEF F, nx, mn, h
  <2> QED BY <2>1, ReachStaysHome
<1>7. Home(m)[c] = HashMain(m, c)
  BY <1>6, FilledType DEF CacheOK
<1> QED BY <1>1, <1>6, <1>7

\* u is m with k written: nothing else is new, and nothing live is lost.
Wrote(m, u, k) ==
  /\ CacheOK(u)
  /\ \A e \in Elements(u) : e[1] # k => e \in Elements(m)
  /\ \A e \in Elements(m) : e[2].stamp >= now => e[1] \in Keys(u)

\* What u then has for k: a new entry, or the value that m has.
NewIn(u, k, v) == \E s \in Entries : s.value = v /\ s.stamp >= now /\ <<k, s>> \in Elements(u)
HeldIn(m, u, k) ==
  \E s, r \in Entries : /\ s.value = r.value /\ s.stamp >= now /\ r.stamp >= now
                        /\ <<k, s>> \in Elements(m) /\ <<k, r>> \in Elements(u)

LEMMA RewriteWrites ==
  ASSUME now \in Nat, NEW m, CacheOK(m), NEW u, CacheOK(u),
         NEW b \in Filled(m), NEW k \in Key, NEW s,
         Rewritten(m, u, Entries, b, k, s), m.pairs[b].first = k \/ IsTimeout(m, b)
  PROVE  Wrote(m, u, k) /\ <<k, s>> \in Elements(u)
<1> DEFINE old == <<m.pairs[b].first, m.pairs[b].second>>
           new == <<k, s>>
<1>1. Elements(u) = (Elements(m) \ {old}) \cup {new} /\ new[1] = k
  BY DEF Rewritten
<1>2. \A e \in Elements(m) : e = <<e[1], e[2]>> /\ e[2] \in Entries
  BY ElementsType DEF CacheOK
<1>3. ASSUME NEW e \in Elements(m), e[2].stamp >= now PROVE e[1] \in Keys(u)
  <2>1. CASE e = old
    <3>1. e[1] = m.pairs[b].first /\ e[2].stamp = Stamp(m, b) /\ e[2].stamp \in Nat
      BY <1>2, <2>1 DEF Stamp, Entries
    <3>2. e[1] = k
      BY <1>3, <3>1 DEF IsTimeout
    <3>3. <<k, s>> \in Elements(u)
      BY <1>1
    <3> QED BY <3>2, <3>3, KeysAreFirsts
  <2>2. CASE e # old
    <3>1. <<e[1], e[2]>> \in Elements(u)
      BY <1>1, <1>2, <2>2
    <3> QED BY <3>1, KeysAreFirsts
  <2> QED BY <2>1, <2>2
<1>4. ASSUME NEW e \in Elements(u), e[1] # k PROVE e \in Elements(m)
  <2>1. e # new
    BY <1>1, <1>4
  <2> QED BY <1>1, <2>1
<1> QED BY <1>1, <1>3, <1>4 DEF Wrote

LEMMA PlaceWrites ==
  ASSUME now \in Nat, NEW m, CacheOK(m), m.filled < m.size,
         NEW k \in Key, k \notin Keys(m), NEW v \in Value, NEW timeout \in Nat
  PROVE  LET u == FindUniqueBucket(m, k, Entry(v, timeout))
         IN  Wrote(m, u, k) /\ NewIn(u, k, v)
<1> DEFINE s == Entry(v, timeout)
           u == FindUniqueBucket(m, k, s)
           new == <<k, s>>
<1>1. s \in Entries /\ s.value = v /\ s.stamp >= now
  BY EntryType
<1> HIDE DEF s
<1>2. CacheOK(u) /\ Elements(u) = Elements(m) \cup {new} /\ new[1] = k
  BY <1>1, PlacedOK
<1> HIDE DEF u
<1>3. \A e \in Elements(m) : e[1] \in Keys(u)
  <2>1. \A e \in Elements(u) : e[1] \in Keys(u)
    BY DEF Elements, Keys
  <2> QED BY <1>2, <2>1
<1>4. Wrote(m, u, k)
  BY <1>2, <1>3 DEF Wrote
<1>5. NewIn(u, k, v)
  BY <1>1, <1>2 DEF NewIn
<1> QED BY <1>4, <1>5 DEF u, s

LEMMA StoredOK ==
  ASSUME now \in Nat, NEW m, CacheOK(m), m.filled < m.size,
         NEW k \in Key, NEW v \in Value, NEW timeout \in Nat
  PROVE  LET u == Stored(m, k, v, timeout)
         IN  /\ Wrote(m, u, k)
             /\ IF FindLive(m, k) = m.size THEN NewIn(u, k, v) ELSE HeldIn(m, u, k)
<1> DEFINE b == Find(m, k)
           u == Stored(m, k, v, timeout)
           old == TimeBuckets(m, k)
           e == Entry(v, timeout)
<1>0. /\ TableOK(m, Entries) /\ IsTable(m) /\ m.size \notin Filled(m)
      /\ e \in Entries /\ e.value = v /\ e.stamp >= now
  <2>1. TableOK(m, Entries) /\ IsTable(m) /\ m.size \in Nat
    BY PowersDouble DEF CacheOK
  <2>2. m.size \notin Filled(m)
    BY <2>1 DEF Filled, Buckets
  <2> QED BY <2>1, <2>2, EntryType
<1>b. ASSUME b # m.size
      PROVE  /\ b \in Filled(m) /\ m.pairs[b].first = k
             /\ Main(m, k) = HashMain(m, b) /\ \A c \in Filled(m) : m.pairs[c].first = k => c = b
  <2>1. b \in Filled(m) /\ m.pairs[b].first = k
    BY <1>0, <1>b, FindStored
  <2> QED BY <1>0, <2>1 DEF HashMain, TableOK
<1>k. b = m.size => k \notin Keys(m)
  BY <1>0, FindStored
<1>1. CASE b # m.size /\ ~ IsTimeout(m, b)
  <2> DEFINE s == m.pairs[b].second
             n == now + timeout
             r == [value |-> s.value, stamp |-> n]
  <2>1. u = Stamped(m, b, n) /\ FindLive(m, k) # m.size
    BY <1>1 DEF Stored, FindLive
  <2>2. n \in Nat
    OBVIOUS
  <2>3. CacheOK(u) /\ Rewritten(m, u, Entries, b, k, r)
    <3> HIDE DEF b, u, n
    <3> QED BY <1>1, <1>b, <2>1, <2>2, Restamp
  <2>4. Wrote(m, u, k) /\ <<k, r>> \in Elements(u)
    <3> HIDE DEF b, u, r
    <3> QED BY <1>1, <1>b, <2>3, RewriteWrites
  <2>5. s \in Entries /\ s.stamp >= now /\ <<k, s>> \in Elements(m)
    <3>1. m.pairs[b] \in PairSet(Entries)
      BY <1>0, <1>1, <1>b, FilledType
    <3>2. s \in Entries /\ s.stamp \in Nat
      BY <3>1 DEF PairSet, Entries
    <3>3. s.stamp >= now
      BY <1>1, <3>2 DEF IsTimeout, Stamp
    <3> QED BY <1>1, <1>b, <3>2, <3>3 DEF Elements
  <2>6. r \in Entries /\ r.value = s.value /\ r.stamp >= now
    <3> HIDE DEF s
    <3> QED BY <2>5 DEF Entries
  <2> HIDE DEF s, r, u
  <2>7. HeldIn(m, u, k)
    BY <2>4, <2>5, <2>6 DEF HeldIn
  <2> QED BY <2>1, <2>4, <2>7 DEF u
<1>2. CASE b # m.size /\ IsTimeout(m, b)
  <2>1. u = TakenOver(m, b, k, v, timeout) /\ FindLive(m, k) = m.size
    BY <1>2 DEF Stored, FindLive
  <2>2. CacheOK(u) /\ Rewritten(m, u, Entries, b, k, e)
    <3> HIDE DEF b, u, e
    <3> QED BY <1>2, <1>b, <2>1, TakeOver DEF e
  <2>3. Wrote(m, u, k) /\ <<k, e>> \in Elements(u)
    <3> HIDE DEF b, u, e
    <3> QED BY <1>2, <1>b, <2>2, RewriteWrites
  <2> HIDE DEF u, e
  <2>4. NewIn(u, k, v)
    BY <1>0, <2>3 DEF NewIn
  <2> QED BY <2>1, <2>3, <2>4 DEF u
<1>3. CASE b = m.size /\ old # {}
  <2> DEFINE c == CHOOSE x \in old : TRUE
  <2>1. u = TakenOver(m, c, k, v, timeout) /\ FindLive(m, k) = m.size /\ c \in old
    BY <1>3 DEF Stored, FindLive
  <2> HIDE DEF c
  <2>2. c \in Filled(m) /\ HashMain(m, c) = Main(m, k) /\ IsTimeout(m, c)
    BY <2>1, TimeBucketsExpired
  <2>3. \A x \in Filled(m) : m.pairs[x].first = k => x = c
    BY <1>3, <1>k DEF Keys
  <2>4. CacheOK(u) /\ Rewritten(m, u, Entries, c, k, e)
    <3> HIDE DEF u, e
    <3> QED BY <2>1, <2>2, <2>3, TakeOver DEF e
  <2>5. Wrote(m, u, k) /\ <<k, e>> \in Elements(u)
    <3> HIDE DEF u, e
    <3> QED BY <2>2, <2>4, RewriteWrites
  <2> HIDE DEF u, e
  <2>6. NewIn(u, k, v)
    BY <1>0, <2>5 DEF NewIn
  <2> QED BY <2>1, <2>5, <2>6 DEF u
<1>4. CASE b = m.size /\ old = {}
  <2>1. u = FindUniqueBucket(m, k, Entry(v, TimeOut)) /\ FindLive(m, k) = m.size
    BY <1>4 DEF Stored, FindLive
  <2>2. Wrote(m, u, k) /\ NewIn(u, k, v)
    BY <1>4, <1>k, <2>1, PlaceWrites, TimeOutAssumption
  <2> QED BY <2>1, <2>2
<1> QED BY <1>1, <1>2, <1>3, <1>4

-----------------------------------------------------------------------------
(* The other changes.                                                      *)

\* Nothing of the buckets changes.
LEMMA SameBuckets ==
  ASSUME NEW m, CacheOK(m), NEW u, SameBut(m, u, {"mlf", "hint"}),
         u.hint \in Nat, u.mlf \in Nat, u.mlf >= FixedOne
  PROVE  CacheOK(u) /\ Elements(u) = Elements(m)
<1>1. /\ IsTable(u) /\ DOMAIN u = Fields /\ u.size = m.size /\ u.pairs = m.pairs
      /\ u.filled = m.filled /\ u.stuck = m.stuck /\ u.max = m.max
  BY DEF SameBut, CacheOK, IsTable, Fields
<1>2. Filled(u) = Filled(m)
  BY <1>1 DEF Filled, Buckets
<1>3. Link(u) = Link(m) /\ Home(u) = Home(m)
  BY <1>1, <1>2 DEF Link, Home, HashMain, Main
<1>4. TableOK(u, Entries)
  BY <1>1, <1>2, <1>3 DEF CacheOK, TableOK, Shape, SoundChains, Buckets
<1>5. Elements(u) = Elements(m)
  BY <1>1, <1>2 DEF Elements
<1> QED BY <1>1, <1>4, <1>5 DEF CacheOK

LEMMA CleanedOK ==
  ASSUME NEW m, CacheOK(m)
  PROVE  CacheOK(Cleaned(m)) /\ Elements(Cleaned(m)) = {}
<1> DEFINE u == Cleaned(m)
<1>1. /\ SameBut(m, u, {"pairs", "filled"}) /\ u.size = m.size /\ u.filled = 0
      /\ u.pairs = Fresh(m.size)
  BY DEF Cleaned, SameBut, CacheOK, IsTable
<1>2. m.size \in Nat \ {0}
  BY PowersDouble DEF CacheOK
<1> HIDE DEF u
<1>3. TableOK(u, Entries) /\ Elements(u) = {}
  BY <1>1, <1>2, NoElements
<1> QED BY <1>1, <1>3, SameFields DEF u

LEMMA ClonedOK ==
  ASSUME NEW m, CacheOK(m)
  PROVE  CacheOK(Cloned(m)) /\ Elements(Cloned(m)) = Elements(m)
<1>1. SameBut(m, Cloned(m), {"mlf", "hint"}) /\ Cloned(m).hint \in Nat /\ Cloned(m).mlf = m.mlf
  BY DEF Cloned, SameBut, CacheOK, IsTable
<1> QED BY <1>1, SameBuckets DEF CacheOK

LEMMA NewCacheOK ==
  ASSUME NEW n \in Nat, NEW max \in Nat \ {0}
  PROVE  CacheOK(NewCache(n, max)) /\ Elements(NewCache(n, max)) = {}
<1> DEFINE mlf == (FixedOne * 1000) \div DefaultLoad
           r == (n * mlf) \div FixedOne
           l == LeastOf(r + 2, 2 * max)
<1>1. mlf \in Nat /\ mlf >= FixedOne
  BY LoadInRange, DefaultLoadAssumption
<1> HIDE DEF mlf
<1>2. r \in Nat
  BY <1>1, RequiredEnough
<1> HIDE DEF r
<1>3. l \in Nat
  BY <1>2 DEF LeastOf
<1>4. NewCache(n, max) = EmptyTable(BucketsFor(l), mlf, max)
  BY DEF NewCache, mlf, r
<1> HIDE DEF l
<1> QED BY <1>1, <1>3, <1>4, BucketsForEnough, FreshOK

\* An element is erased, and its bucket or another given up.
LEMMA ErasedOK ==
  ASSUME NEW m, CacheOK(m), NEW b \in Filled(m)
  PROVE  LET u == ClearBucket(EraseBucket(m, b))
         IN  /\ CacheOK(u)
             /\ Elements(u) = Elements(m) \ {<<m.pairs[b].first, m.pairs[b].second>>}
<1> DEFINE u == ClearBucket(EraseBucket(m, b))
<1>1. Erasure(m, EraseBucket(m, b), b)
  BY EraseBucketErases DEF CacheOK
<1>2. SameBut(m, u, {"pairs", "filled"}) /\ Lost(m, u, Entries, b, EraseBucket(m, b).freed)
  BY <1>1 DEF Erasure, ClearBucket
<1> HIDE DEF u
<1> QED BY <1>2, SameFields DEF Lost, u

\* y is what a sweep of m has after some buckets: no expired entry is the
\* head of a longer chain, then as at the start.
Sweeping(m, y) ==
  /\ CacheOK(y) /\ SameBut(m, y, {"pairs", "filled", "hint"})
  /\ Elements(y) \subseteq Elements(m)
  /\ \A b \in Expired(y) : ~ Followed(y, b)

SweepTurn(y, b) == IF b \in Expired(y) THEN Cleared(EraseBucket(y, b).t, b) ELSE y

LEMMA SweepTurns ==
  ASSUME now \in Nat, NEW m, CacheOK(m), NEW y, Sweeping(m, y), NEW b
  PROVE  Sweeping(m, SweepTurn(y, b))
<1> DEFINE u == SweepTurn(y, b)
<1>1. CASE b \notin Expired(y)
  BY <1>1 DEF SweepTurn
<1>2. CASE b \in Expired(y)
  <2>1. b \in Filled(y) /\ (HashMain(y, b) # b \/ y.pairs[b].bucket = b) /\ CacheOK(y)
    BY <1>2 DEF Expired, Sweeping, Followed
  <2>2. Erasure(y, EraseBucket(y, b), b)
    BY <2>1, EraseBucketErases DEF CacheOK
  <2>3. EraseBucket(y, b).freed = b
    BY <2>1, <2>2 DEF Erasure
  <2>4. u = Cleared(EraseBucket(y, b).t, b)
    BY <1>2 DEF SweepTurn
  <2>5. /\ Lost(y, u, Entries, b, b) /\ SameBut(y, u, {"pairs", "filled"})
        /\ \A c \in Filled(u) : y.pairs[c].bucket = c => u.pairs[c].bucket = c
    BY <2>2, <2>3, <2>4 DEF Erasure
  <2> HIDE DEF u
  <2>6. CacheOK(u)
    BY <2>1, <2>5, SameFields DEF Lost
  <2>7. Elements(u) \subseteq Elements(m)
    BY <2>5 DEF Lost, Sweeping
  <2>8. SameBut(m, u, {"pairs", "filled", "hint"})
    BY <2>5 DEF Sweeping, SameBut
  <2>9. ASSUME NEW c \in Expired(u) PROVE ~ Followed(u, c)
    <3>1. c \in Filled(y) /\ c # b /\ c \in Filled(u)
      BY <2>5 DEF Lost, Expired
    <3>2. u.pairs[c].first = y.pairs[c].first /\ u.pairs[c].second = y.pairs[c].second
      BY <2>5, <3>1 DEF Lost
    <3>3. c \in Expired(y)
      BY <3>1, <3>2 DEF Expired, Live, IsTimeout, Stamp
    <3>4. ~ Followed(y, c)
      BY <3>3 DEF Sweeping
    <3>5. HashMain(u, c) = HashMain(y, c)
      BY <2>5, <3>2 DEF HashMain, Main, Lost
    <3> QED BY <2>5, <3>1, <3>4, <3>5 DEF Followed
  <2> QED BY <2>6, <2>7, <2>8, <2>9 DEF Sweeping, u
<1> QED BY <1>1, <1>2

LEMMA SweptOK ==
  ASSUME now \in Nat, NEW m, CacheOK(m), \A b \in Expired(m) : ~ Followed(m, b)
  PROVE  CacheOK(Swept(m)) /\ Elements(Swept(m)) \subseteq Elements(m)
<1> DEFINE n == m.size
           S == { y \in Variants(m) : Sweeping(m, y) }
           s == [i \in 1 .. n |-> [y \in S |-> SweepTurn(y, i - 1)]]
<1>n. n \in Nat \ {0}
  BY DEF CacheOK, TableOK, Shape
<1>m. \A y : y \in S <=> Sweeping(m, y)
  <2> SUFFICES ASSUME NEW y, Sweeping(m, y) PROVE y \in Variants(m)
    OBVIOUS
  <2> QED BY VariantsHold DEF Sweeping, CacheOK
<1> HIDE DEF S
<1>0. m \in S
  <2>1. SameBut(m, m, {"pairs", "filled", "hint"})
    BY DEF SameBut, CacheOK, IsTable
  <2>2. Sweeping(m, m)
    BY <2>1 DEF Sweeping
  <2> QED BY <1>m, <2>2
<1>1. \A y \in S : \A b : SweepTurn(y, b) \in S
  BY <1>m, SweepTurns
<1>2. PICK g \in [0 .. n -> S] : IsRun(g, s, m, n)
  <2>1. \A i \in 1 .. n, y \in S : s[i][y] \in S
    BY <1>1
  <2>2. n \in Nat
    BY <1>n
  <2> HIDE DEF s, n
  <2> QED BY <1>0, <2>1, <2>2, RunExists
<1> DEFINE T(h) == [i \in 0 .. n |-> IF i = 0 THEN m ELSE SweepTurn(h[i - 1], i - 1)]
           f == CHOOSE h : h = T(h)
<1>3. f = T(f)
  <2>1. \A i \in 0 .. n : g[i] = IF i = 0 THEN m ELSE SweepTurn(g[i - 1], i - 1)
    <3>1. \A i \in 0 .. n : i # 0 => i \in 1 .. n /\ i - 1 \in 0 .. n
      BY <1>n
    <3>2. \A i \in 1 .. n : s[i][g[i - 1]] = SweepTurn(g[i - 1], i - 1)
      BY <1>2, <3>1
    <3> HIDE DEF s
    <3> QED BY <1>2, <3>1, <3>2 DEF IsRun
  <2>2. g = T(g)
    BY <2>1, <1>2
  <2> HIDE DEF T
  <2> QED BY <2>2
<1>4. Swept(m) = f[n]
  BY DEF Swept, SweepTurn
<1> HIDE DEF f, n
<1>5. /\ f[0] = m
      /\ \A i \in 0 .. n - 1 : f[i + 1] = SweepTurn(f[i], i)
  <2>1. 0 \in 0 .. n /\ \A i \in 0 .. n - 1 : i + 1 \in 0 .. n /\ i + 1 # 0 /\ (i + 1) - 1 = i
    BY <1>n
  <2> QED BY <1>3, <2>1
<1> DEFINE D == { i \in 0 .. n : f[i] \in S }
<1>6. 0 \in D
  BY <1>0, <1>5, <1>n
<1>7. ASSUME NEW i \in 0 .. n - 1, i \in D PROVE i + 1 \in D
  <2>1. i + 1 \in 0 .. n
    BY <1>n
  <2> QED BY <1>1, <1>5, <1>7, <2>1
<1>8. n \in D
  <2>1. \A i \in 0 .. n : i \in D
    <3> HIDE DEF D
    <3> QED BY <1>n, <1>6, <1>7, UpTo
  <2> QED BY <1>n, <2>1
<1>9. Sweeping(m, f[n])
  BY <1>8, <1>m
<1> QED BY <1>4, <1>9 DEF Sweeping

-----------------------------------------------------------------------------
(* What a search finds.                                                    *)

\* Contents when the clock shows n.
ContentsAt(m, n) ==
  [k \in Key |-> IF Find(m, k) = m.size \/ Stamp(m, Find(m, k)) < n THEN NoValue
                 ELSE ValueOf(m, k)]

\* It tells of every element whether it is found, and of no key without one.
LEMMA ElementSeen ==
  ASSUME NEW m, CacheOK(m), NEW n \in Nat
  PROVE  LET C == ContentsAt(m, n)
         IN  /\ C = [k \in Key |-> C[k]]
             /\ \A k \in Key : \A s : <<k, s>> \in Elements(m) =>
                  s \in Entries /\ C[k] = IF s.stamp < n THEN NoValue ELSE s.value
             /\ \A k \in Key : C[k] # NoValue =>
                  \E s \in Entries : <<k, s>> \in Elements(m) /\ s.stamp >= n /\ s.value = C[k]
<1> DEFINE C == ContentsAt(m, n)
<1>0. TableOK(m, Entries)
  BY DEF CacheOK
<1>1. \A k \in Key : C[k] = IF Find(m, k) = m.size \/ Stamp(m, Find(m, k)) < n THEN NoValue
                            ELSE ValueOf(m, k)
  BY DEF ContentsAt
<1>2. C = [k \in Key |-> C[k]]
  BY DEF ContentsAt
<1> HIDE DEF C
<1>3. ASSUME NEW k \in Key, NEW s, <<k, s>> \in Elements(m)
      PROVE  s \in Entries /\ C[k] = IF s.stamp < n THEN NoValue ELSE s.value
  BY <1>0, <1>1, <1>3, ElementFound DEF StampOf
<1>4. ASSUME NEW k \in Key, C[k] # NoValue
      PROVE  \E s \in Entries : <<k, s>> \in Elements(m) /\ s.stamp >= n /\ s.value = C[k]
  <2>1. k \in Keys(m)
    BY <1>0, <1>1, <1>4, ElementFound
  <2>2. PICK s : <<k, s>> \in Elements(m)
    BY <2>1, KeysAreFirsts
  <2>3. s \in Entries /\ C[k] = IF s.stamp < n THEN NoValue ELSE s.value
    BY <1>3, <2>2
  <2>4. s.stamp \in Nat
    BY <2>3 DEF Entries
  <2> QED BY <1>4, <2>2, <2>3, <2>4
<1> QED BY <1>2, <1>3, <1>4 DEF C

\* What u has of a key it has from m, and time has gone on.
LEMMA LessSeen ==
  ASSUME NEW m, CacheOK(m), NEW u, CacheOK(u), NEW n \in Nat, NEW later \in Nat, later >= n,
         NEW k \in Key, \A e \in Elements(u) : e[1] = k => e \in Elements(m)
  PROVE  ContentsAt(u, later)[k] \in {ContentsAt(m, n)[k], NoValue}
<1> DEFINE C == ContentsAt(m, n)
           D == ContentsAt(u, later)
<1> SUFFICES ASSUME D[k] # NoValue PROVE D[k] = C[k]
  OBVIOUS
<1>1. PICK s \in Entries : <<k, s>> \in Elements(u) /\ s.stamp >= later /\ s.value = D[k]
  BY ElementSeen
<1>2. <<k, s>> \in Elements(m)
  BY <1>1
<1>3. C[k] = IF s.stamp < n THEN NoValue ELSE s.value
  BY <1>2, ElementSeen
<1>4. s.stamp \in Nat
  BY DEF Entries
<1> HIDE DEF C, D
<1> QED BY <1>1, <1>3, <1>4

LEMMA NothingSeen ==
  ASSUME NEW m, CacheOK(m), NEW n \in Nat, Elements(m) = {}
  PROVE  ContentsAt(m, n) = [k \in Key |-> NoValue]
<1> DEFINE C == ContentsAt(m, n)
<1>1. C = [k \in Key |-> C[k]] /\ \A k \in Key : C[k] = NoValue
  BY ElementSeen
<1> HIDE DEF C
<1> QED BY <1>1 DEF C

\* Tables with the same elements look the same.
LEMMA SameSeen ==
  ASSUME NEW m, CacheOK(m), NEW u, CacheOK(u), NEW n \in Nat, Elements(u) = Elements(m)
  PROVE  ContentsAt(u, n) = ContentsAt(m, n)
<1> DEFINE C == ContentsAt(m, n)
           D == ContentsAt(u, n)
<1>1. C = [k \in Key |-> C[k]] /\ D = [k \in Key |-> D[k]]
  BY ElementSeen
<1>2. \A k \in Key : D[k] \in {C[k], NoValue} /\ C[k] \in {D[k], NoValue}
  BY LessSeen
<1> HIDE DEF C, D
<1> QED BY <1>1, <1>2 DEF C, D

\* k is erased.
LEMMA GoneSeen ==
  ASSUME NEW m, CacheOK(m), NEW u, CacheOK(u), NEW n \in Nat, NEW k \in Key,
         Elements(u) = { e \in Elements(m) : e[1] # k }
  PROVE  ContentsAt(u, n) = [ContentsAt(m, n) EXCEPT ![k] = NoValue]
<1> DEFINE C == ContentsAt(m, n)
           D == ContentsAt(u, n)
<1>1. C = [i \in Key |-> C[i]] /\ D = [i \in Key |-> D[i]]
  BY ElementSeen
<1>2. D[k] = NoValue
  <2> SUFFICES ASSUME D[k] # NoValue PROVE FALSE
    OBVIOUS
  <2>1. PICK s \in Entries : <<k, s>> \in Elements(u)
    BY ElementSeen
  <2> QED BY <2>1
<1>3. ASSUME NEW i \in Key, i # k PROVE D[i] = C[i]
  <2>1. D[i] \in {C[i], NoValue}
    BY LessSeen
  <2>2. C[i] \in {D[i], NoValue}
    <3>1. \A e \in Elements(m) : e[1] = i => e \in Elements(u)
      BY <1>3
    <3> QED BY <3>1, LessSeen
  <2> QED BY <2>1, <2>2
<1> HIDE DEF C, D
<1> QED BY <1>1, <1>2, <1>3 DEF C, D

-----------------------------------------------------------------------------
(* The steps: what each leaves of the invariant, and of the elements.      *)

Written(k, v) ==
  \E g : /\ Kept(t, g) /\ Wrote(g, t', k)
         /\ \/ ret' = <<"new", k>> /\ NewIn(t', k, v)
            \/ ret' = <<"held", k>> /\ HeldIn(g, t', k)
         /\ UNCHANGED <<rhs, now>>

Lessened ==
  /\ CacheOK(t') /\ Elements(t') \subseteq Elements(t)
  /\ ret' = <<"void">> /\ now' \in Nat /\ now' >= now /\ UNCHANGED rhs

Dropped(k) ==
  /\ CacheOK(t') /\ Elements(t') = { e \in Elements(t) : e[1] # k }
  /\ ret' = <<"one", k>> \/ (ret' = <<"none", k>> /\ k \notin Keys(t))
  /\ UNCHANGED <<rhs, now>>

LEMMA InsertStep ==
  ASSUME Inv, NEW k \in Key, NEW v \in Value, NEW timeout \in TimeOuts, Insert(k, v, timeout)
  PROVE  Written(k, v)
<1> DEFINE g == Expanded(t)
           u == Stored(g, k, v, timeout)
<1>1. Kept(t, g) /\ CacheOK(g) /\ g.filled < g.size /\ g.stuck = FALSE
  BY ExpandKeeps DEF Inv, Kept, CacheOK
<1>2. /\ t' = u /\ UNCHANGED <<rhs, now>>
      /\ ret' = IF FindLive(g, k) = g.size THEN <<"new", k>> ELSE <<"held", k>>
  BY <1>1 DEF Insert, Becomes
<1>3. timeout \in Nat
  BY TimeOutAssumption
<1> HIDE DEF g
<1>4. /\ Wrote(g, u, k)
      /\ IF FindLive(g, k) = g.size THEN NewIn(u, k, v) ELSE HeldIn(g, u, k)
  BY <1>1, <1>3, StoredOK DEF Inv
<1> HIDE DEF u
<1> QED BY <1>1, <1>2, <1>4 DEF Written

LEMMA UniqueStep ==
  ASSUME Careful, Inv, NEW k \in Key, NEW v \in Value, Unique(k, v)
  PROVE  Written(k, v)
<1> DEFINE g == Expanded(t)
           u == FindUniqueBucket(g, k, Entry(v, TimeOut))
<1>1. Kept(t, g) /\ CacheOK(g) /\ g.filled < g.size /\ g.stuck = FALSE
  BY ExpandKeeps DEF Inv, Kept, CacheOK
<1>2. /\ t' = u /\ UNCHANGED <<rhs, now>> /\ ret' = <<"new", k>> /\ k \notin Keys(t)
  BY <1>1 DEF Unique, Becomes
<1> HIDE DEF g
<1>3. k \notin Keys(g)
  <2>1. Elements(g) \subseteq Elements(t)
    BY <1>1 DEF Kept
  <2> QED BY <1>2, <2>1, KeysAreFirsts
<1>4. Wrote(g, u, k) /\ NewIn(u, k, v)
  BY <1>1, <1>3, PlaceWrites, TimeOutAssumption DEF Inv
<1> HIDE DEF u
<1> QED BY <1>1, <1>2, <1>4 DEF Written

LEMMA EraseAtStep ==
  ASSUME Inv, NEW b \in Filled(t), EraseAt(b)
  PROVE  t.pairs[b].first \in Key /\ Dropped(t.pairs[b].first)
<1> DEFINE k == t.pairs[b].first
           u == ClearBucket(EraseBucket(t, b))
           old == <<k, t.pairs[b].second>>
<1>0. CacheOK(t) /\ TableOK(t, Entries)
  BY DEF Inv, CacheOK
<1>1. t' = u /\ ret' = <<"one", k>> /\ UNCHANGED <<rhs, now>>
  BY DEF EraseAt, Becomes
<1>2. CacheOK(u) /\ Elements(u) = Elements(t) \ {old}
  BY <1>0, ErasedOK
<1>3. old \in Elements(t) /\ old[1] = k
  BY DEF Elements
<1> HIDE DEF old, u
<1>4. /\ \A e \in Elements(t) : e[1] = k => e = old
      /\ k \in Key
  BY <1>0, <1>3, ElementsType
<1>5. Elements(u) = { e \in Elements(t) : e[1] # k }
  BY <1>2, <1>3, <1>4
<1> QED BY <1>1, <1>2, <1>4, <1>5 DEF Dropped

LEMMA EraseStep ==
  ASSUME Inv, NEW k \in Key, Erase(k)
  PROVE  Dropped(k)
<1> DEFINE b == Find(t, k)
<1>0. CacheOK(t) /\ IsTable(t) /\ TableOK(t, Entries)
  BY DEF Inv, CacheOK
<1>1. CASE b = t.size
  <2>1. k \notin Keys(t)
    BY <1>0, <1>1, FindStored
  <2>2. t' = t /\ ret' = <<"none", k>> /\ UNCHANGED <<rhs, now>>
    BY <1>1 DEF Erase, Becomes
  <2>3. Elements(t) = { e \in Elements(t) : e[1] # k }
    <3>1. \A e \in Elements(t) : e[1] \in Keys(t)
      BY DEF Elements, Keys
    <3> QED BY <2>1, <3>1
  <2> QED BY <1>0, <2>1, <2>2, <2>3 DEF Dropped
<1>2. CASE b # t.size
  <2>1. b \in Filled(t) /\ t.pairs[b].first = k /\ EraseKey(t, k) = EraseBucket(t, b)
    BY <1>0, <1>2, EraseKeyErases
  <2>2. EraseAt(b)
    BY <1>2, <2>1 DEF Erase, EraseAt
  <2> HIDE DEF b
  <2> QED BY <2>1, <2>2, EraseAtStep
<1> QED BY <1>1, <1>2

LEMMA OtherStep ==
  ASSUME Careful, Inv, One,
         ~ \E k \in Key, v \in Value : Unique(k, v) \/ \E timeout \in TimeOuts : Insert(k, v, timeout),
         ~ \E k \in Key : Erase(k),
         ~ \E b \in Filled(t) : EraseAt(b)
  PROVE  Lessened
<1>0. CacheOK(t) /\ now \in Nat /\ t.filled \in Nat
  BY FilledFits DEF Inv, CacheOK
<1> SUFFICES ASSUME NEW u, t' = u, ret' = <<"void">>, UNCHANGED <<rhs, now>>,
                    \/ \E n \in Requests : u = Reserved(t, n)
                    \/ \E lf \in LoadFactors : u =
                         IF lf > 200 /\ lf < 950 THEN [t EXCEPT !.mlf = (FixedOne * 1000) \div lf] ELSE t
                    \/ u = Rehashed(t, t.filled)
                    \/ u = Cleaned(t)
                    \/ u = t
                    \/ (\A b \in Expired(t) : ~ Followed(t, b)) /\ u = Swept(t)
                    \/ \E b \in Filled(t) : u = ClearBucket(EraseBucket(t, b))
             PROVE  CacheOK(u) /\ Elements(u) \subseteq Elements(t)
  <2>1. CASE Tick
    BY <1>0, <2>1 DEF Tick, Lessened
  <2>2. CASE ClearTimeout
    BY <1>0, <2>2 DEF ClearTimeout, Becomes, Lessened
  <2>3. CASE \E b \in Filled(t) : CheckTimeout(b)
    <3>1. PICK b \in Filled(t) : CheckTimeout(b)
      BY <2>3
    <3>2. /\ HashMain(t, b) = b /\ t.pairs[b].bucket = b /\ t' = Cleared(t, b) /\ ret' = <<"void">>
          /\ UNCHANGED <<rhs, now>>
      BY <3>1 DEF CheckTimeout, Followed, Becomes
    <3>3. ClearBucket(EraseBucket(t, b)) = Cleared(t, b)
      BY <3>2 DEF EraseBucket, ClearBucket
    <3> QED BY <1>0, <3>2, <3>3 DEF Lessened
  <2>4. CASE \E n \in Requests : Becomes(Reserved(t, n), <<"void">>)
    BY <1>0, <2>4 DEF Becomes, Lessened
  <2>5. CASE \E lf \in LoadFactors : MaxLoadFactor(lf)
    BY <1>0, <2>5 DEF Becomes, MaxLoadFactor, Lessened
  <2>6. CASE Becomes(Rehashed(t, t.filled), <<"void">>)
    BY <1>0, <2>6 DEF Becomes, Lessened
  <2>7. CASE Becomes(Cleaned(t), <<"void">>)
    BY <1>0, <2>7 DEF Becomes, Lessened
  <2> QED BY <2>1, <2>2, <2>3, <2>4, <2>5, <2>6, <2>7 DEF One
<1>1. CASE \E n \in Requests : u = Reserved(t, n)
  <2>1. PICK n \in Requests : u = Reserved(t, n)
    BY <1>1
  <2>2. n \in Nat
    BY RequestAssumption
  <2> QED BY <1>0, <2>1, <2>2, ReserveKeeps DEF Kept
<1>2. CASE \E lf \in LoadFactors : u =
             IF lf > 200 /\ lf < 950 THEN [t EXCEPT !.mlf = (FixedOne * 1000) \div lf] ELSE t
  <2>1. PICK lf \in LoadFactors :
          u = IF lf > 200 /\ lf < 950 THEN [t EXCEPT !.mlf = (FixedOne * 1000) \div lf] ELSE t
    BY <1>2
  <2>2. CASE ~ (lf > 200 /\ lf < 950)
    BY <1>0, <2>1, <2>2
  <2>3. CASE lf > 200 /\ lf < 950
    <3> DEFINE mlf == (FixedOne * 1000) \div lf
    <3>1. lf \in 201 .. 949
      BY <2>3, LoadAssumption
    <3>2. mlf \in Nat /\ mlf >= FixedOne
      BY <3>1, LoadInRange
    <3>3. u = [t EXCEPT !.mlf = mlf]
      BY <2>1, <2>3
    <3> HIDE DEF mlf
    <3>4. SameBut(t, u, {"mlf", "hint"}) /\ u.mlf = mlf /\ u.hint = t.hint
      BY <1>0, <3>3 DEF CacheOK, IsTable, SameBut
    <3>5. u.hint \in Nat /\ u.mlf \in Nat /\ u.mlf >= FixedOne
      BY <1>0, <3>2, <3>4 DEF CacheOK
    <3> QED BY <1>0, <3>4, <3>5, SameBuckets
  <2> QED BY <2>2, <2>3
<1>3. CASE u = Rehashed(t, t.filled)
  BY <1>0, <1>3, RehashKeeps
<1>4. CASE u = Cleaned(t)
  BY <1>0, <1>4, CleanedOK
<1>5. CASE (\A b \in Expired(t) : ~ Followed(t, b)) /\ u = Swept(t)
  BY <1>0, <1>5, SweptOK
<1>6. CASE \E b \in Filled(t) : u = ClearBucket(EraseBucket(t, b))
  BY <1>0, <1>6, ErasedOK
<1> QED BY <1>0, <1>1, <1>2, <1>3, <1>4, <1>5, <1>6

-----------------------------------------------------------------------------
(* The theorems.                                                           *)

LEMMA InitHolds == Init => Inv
<1> SUFFICES ASSUME NEW n \in Requests, NEW max \in MaxBuckets, t = NewCache(n, max),
                    rhs = NewCache(1, 1), now = 0
             PROVE  Inv
  BY DEF Init
<1>1. n \in Nat /\ max \in Nat \ {0} /\ 1 \in Nat /\ 1 \in Nat \ {0}
  BY RequestAssumption
<1> QED BY <1>1, NewCacheOK DEF Inv

\* Every call writes a key, drops one or forgets some, or is made on both caches.
LEMMA StepCases ==
  ASSUME Careful, Inv, Next
  PROVE  \/ \E k \in Key, v \in Value : Written(k, v)
         \/ \E k \in Key : Dropped(k)
         \/ Lessened
         \/ Two
<1>1. CASE One
  <2>1. ASSUME NEW k \in Key, NEW v \in Value,
               Unique(k, v) \/ \E timeout \in TimeOuts : Insert(k, v, timeout)
        PROVE  Written(k, v)
    BY <2>1, UniqueStep, InsertStep
  <2>2. ASSUME NEW k \in Key, Erase(k) PROVE Dropped(k)
    BY <2>2, EraseStep
  <2>3. ASSUME NEW b \in Filled(t), EraseAt(b) PROVE \E k \in Key : Dropped(k)
    BY <2>3, EraseAtStep
  <2> QED BY <1>1, <2>1, <2>2, <2>3, OtherStep
<1> QED BY <1>1 DEF Next

LEMMA TwoKeeps ==
  ASSUME Inv, Two
  PROVE  /\ Inv' /\ ret' = <<"void">> /\ now' = now /\ Elements(t') = Elements(rhs)
         /\ \/ UNCHANGED rhs
            \/ Elements(rhs') = {}
            \/ Elements(rhs') = Elements(t)
<1>0. CacheOK(t) /\ CacheOK(rhs) /\ now' \in Nat /\ now' = now /\ ret' = <<"void">>
  BY DEF Inv, Two
<1>1. CASE t' = Cloned(rhs) /\ UNCHANGED rhs
  BY <1>0, <1>1, ClonedOK DEF Inv
<1>2. CASE t' = rhs /\ rhs' = NewCache(1, 1)
  BY <1>0, <1>2, NewCacheOK DEF Inv
<1>3. CASE t' = rhs /\ rhs' = Cleaned(t)
  BY <1>0, <1>3, CleanedOK DEF Inv
<1>4. CASE t' = rhs /\ rhs' = t
  BY <1>0, <1>4 DEF Inv
<1> QED BY <1>1, <1>2, <1>3, <1>4 DEF Two

LEMMA StepHolds ==
  ASSUME Careful
  PROVE  Inv /\ [Next]_vars => Inv'
<1> SUFFICES ASSUME Inv, [Next]_vars PROVE Inv'
  OBVIOUS
<1>1. CASE UNCHANGED vars
  BY <1>1 DEF vars, Inv
<1>2. CASE \E k \in Key, v \in Value : Written(k, v)
  BY <1>2 DEF Written, Wrote, Inv
<1>3. CASE (\E k \in Key : Dropped(k)) \/ Lessened
  BY <1>3 DEF Dropped, Lessened, Inv
<1>4. CASE Two
  BY <1>4, TwoKeeps
<1> QED BY <1>1, <1>2, <1>3, <1>4, StepCases

\* Through every sequence of calls both caches are sound tables with room
\* between their probes.
THEOREM InvHolds == Careful => (Spec => []Inv)
<1> SUFFICES ASSUME Careful PROVE Spec => []Inv
  OBVIOUS
<1> QED BY InitHolds, StepHolds, PTL DEF Spec

\* The links of either cache stay sound chains, the counters count, and no key
\* is stored twice.
THEOREM TablesAlwaysSound == Careful => (Spec => []TablesSound)
<1> SUFFICES ASSUME Careful PROVE Spec => []TablesSound
  OBVIOUS
<1>1. Inv => SoundChains(t) /\ SoundChains(rhs)
  BY DEF Inv, CacheOK, TableOK
<1>2. Inv => SoundCount(t) /\ SoundCount(rhs)
  BY CountIsSound DEF Inv, CacheOK
<1>3. Inv => TablesSound
  BY <1>1, <1>2 DEF TablesSound
<1> QED BY <1>3, InvHolds, PTL

\* No probe starts in a full table.
THEOREM ProbeAlwaysHasRoom == Careful => (Spec => []ProbeHasRoom)
<1> SUFFICES ASSUME Careful PROVE Spec => []ProbeHasRoom
  OBVIOUS
<1>1. Inv => ProbeHasRoom
  BY DEF Inv, CacheOK, ProbeHasRoom
<1> QED BY <1>1, InvHolds, PTL

\* An insertion loses no entry of a cache within its bound before its deadline.
THEOREM FreshAlwaysKept == Careful => (Spec => KeepsFresh)
<1> SUFFICES ASSUME Careful PROVE Spec => KeepsFresh
  OBVIOUS
<1> DEFINE Loses ==
      \E k \in Keys(t) \ Keys(t') :
        /\ StampOf(t, k) > now /\ t.filled =< t.max
        /\ \E i \in Key, v \in Value, x \in TimeOuts : Insert(i, v, x)
<1>1. Inv => ~ Loses
  <2> SUFFICES ASSUME Inv, NEW k \in Keys(t) \ Keys(t'), StampOf(t, k) > now, t.filled =< t.max,
                      NEW i \in Key, NEW v \in Value, NEW x \in TimeOuts, Insert(i, v, x)
               PROVE  FALSE
    OBVIOUS
  <2>1. PICK g : Kept(t, g) /\ Wrote(g, t', i)
    BY InsertStep DEF Written
  <2>2. TableOK(t, Entries) /\ now \in Nat
    BY DEF Inv, CacheOK
  <2>3. k \in Key
    BY <2>2, ElementsType
  <2>4. PICK s : <<k, s>> \in Elements(t)
    BY KeysAreFirsts
  <2>5. s \in Entries /\ s.stamp > now
    BY <2>2, <2>3, <2>4, ElementFound
  <2>6. <<k, s>> \in Elements(g)
    <3> DEFINE e == <<k, s>>
    <3>1. e[2].stamp > now /\ e \in Elements(t)
      BY <2>4, <2>5
    <3> HIDE DEF e
    <3>2. e \in Elements(g)
      BY <2>1, <3>1 DEF Kept
    <3> QED BY <3>2 DEF e
  <2>7. k \in Keys(t')
    <3> DEFINE e == <<k, s>>
    <3>1. s.stamp >= now
      BY <2>2, <2>5 DEF Entries
    <3>2. e[2].stamp >= now /\ e[1] = k /\ e \in Elements(g)
      BY <2>6, <3>1
    <3> HIDE DEF e
    <3> QED BY <2>1, <3>2 DEF Wrote
  <2> QED BY <2>7
<1>2. Inv /\ [Next]_vars =>
        [\A k \in Keys(t) \ Keys(t') :
           StampOf(t, k) > now /\ t.filled =< t.max =>
             ~ \E i \in Key, v \in Value, x \in TimeOuts : Insert(i, v, x)]_vars
  BY <1>1
<1> QED BY <1>2, InvHolds, PTL DEF Spec, KeepsFresh

\* Every call does to what a search finds what a call of CacheSpec does.
LEMMA StepImplements ==
  ASSUME Careful, Inv, [Next]_vars
  PROVE  [Abstract!Next]_(Abstract!vars)
<1> DEFINE C == ContentsAt(t, now)
           D == ContentsAt(t', now')
           O == ContentsAt(rhs, now)
           P == ContentsAt(rhs', now')
<1>0. Contents(t) = C /\ Contents(rhs) = O
  BY DEF Contents, FindLive, IsTimeout, ContentsAt
<1>1. Contents(t)' = D /\ Contents(rhs)' = P
  BY DEF Contents, FindLive, IsTimeout, ContentsAt
<1>2. CacheOK(t) /\ CacheOK(rhs) /\ now \in Nat
  BY DEF Inv
<1>3. CacheOK(t') /\ CacheOK(rhs') /\ now' \in Nat
  BY StepHolds DEF Inv
<1>4. CASE UNCHANGED vars
  <2>1. C = D /\ O = P /\ ret' = ret
    BY <1>4 DEF vars
  <2> HIDE DEF C, D, O, P
  <2> QED BY <1>0, <1>1, <2>1 DEF Abstract!vars
<1>5. ASSUME NEW k \in Key, NEW v \in Value, Written(k, v)
      PROVE  Abstract!Insert(k, v)
  <2>1. PICK g : /\ Kept(t, g) /\ Wrote(g, t', k)
                 /\ \/ ret' = <<"new", k>> /\ NewIn(t', k, v)
                    \/ ret' = <<"held", k>> /\ HeldIn(g, t', k)
                 /\ rhs' = rhs /\ now' = now
    BY <1>5 DEF Written
  <2>2. Elements(g) \subseteq Elements(t)
    BY <2>1 DEF Kept
  <2>3. P = O
    BY <2>1
  <2>4. \A i \in Key \ {k} : D[i] \in {C[i], NoValue}
    <3> SUFFICES ASSUME NEW i \in Key, i # k PROVE D[i] \in {C[i], NoValue}
      OBVIOUS
    <3>1. \A e \in Elements(t') : e[1] = i => e \in Elements(t)
      BY <2>1, <2>2 DEF Wrote
    <3> QED BY <1>2, <1>3, <2>1, <3>1, LessSeen
  <2>5. ASSUME NewIn(t', k, v) PROVE D[k] = v
    <3>1. PICK s \in Entries : s.value = v /\ s.stamp >= now' /\ <<k, s>> \in Elements(t')
      BY <2>1, <2>5 DEF NewIn
    <3>2. D[k] = IF s.stamp < now' THEN NoValue ELSE s.value
      BY <1>3, <3>1, ElementSeen
    <3>3. s.stamp \in Nat
      BY DEF Entries
    <3> HIDE DEF D
    <3> QED BY <1>3, <3>1, <3>2, <3>3
  <2>6. ASSUME HeldIn(g, t', k) PROVE D[k] = C[k] /\ C[k] # NoValue
    <3>1. PICK s \in Entries, r \in Entries :
            /\ s.value = r.value /\ s.stamp >= now /\ r.stamp >= now
            /\ <<k, s>> \in Elements(g) /\ <<k, r>> \in Elements(t')
      BY <2>6 DEF HeldIn
    <3>2. <<k, s>> \in Elements(t)
      BY <2>2, <3>1
    <3>3. /\ C[k] = IF s.stamp < now THEN NoValue ELSE s.value
          /\ D[k] = IF r.stamp < now' THEN NoValue ELSE r.value
      BY <1>2, <1>3, <3>1, <3>2, ElementSeen
    <3>4. s.stamp \in Nat /\ r.stamp \in Nat /\ s.value # NoValue
      BY ValueAssumption DEF Entries
    <3> HIDE DEF C, D
    <3> QED BY <1>2, <2>1, <3>1, <3>3, <3>4
  <2> HIDE DEF C, D, O, P
  <2> QED BY <1>0, <1>1, <2>1, <2>3, <2>4, <2>5, <2>6 DEF Abstract!Insert, Abstract!Within
<1>6. ASSUME NEW k \in Key, Dropped(k) PROVE Abstract!Remove(k)
  <2>1. rhs' = rhs /\ now' = now /\ Elements(t') = { e \in Elements(t) : e[1] # k }
        /\ (ret' = <<"one", k>> \/ (ret' = <<"none", k>> /\ k \notin Keys(t)))
    BY <1>6 DEF Dropped
  <2>2. D = [C EXCEPT ![k] = NoValue] /\ P = O
    BY <1>2, <1>3, <2>1, GoneSeen
  <2>3. k \notin Keys(t) => C[k] = NoValue
    <3> SUFFICES ASSUME C[k] # NoValue PROVE k \in Keys(t)
      OBVIOUS
    <3>1. \E s \in Entries : <<k, s>> \in Elements(t)
      BY <1>2, ElementSeen
    <3> QED BY <3>1, KeysAreFirsts
  <2> HIDE DEF C, D, O, P
  <2> QED BY <1>0, <1>1, <2>1, <2>2, <2>3 DEF Abstract!Remove
<1>7. ASSUME Lessened PROVE Abstract!Forget
  <2>1. rhs' = rhs /\ Elements(t') \subseteq Elements(t) /\ now' >= now /\ ret' = <<"void">>
    BY <1>7 DEF Lessened
  <2>2. \A i \in Key : D[i] \in {C[i], NoValue} /\ P[i] \in {O[i], NoValue}
    BY <1>2, <1>3, <2>1, LessSeen
  <2> HIDE DEF C, D, O, P
  <2> QED BY <1>0, <1>1, <2>1, <2>2 DEF Abstract!Forget, Abstract!Within
<1>8. ASSUME Two PROVE Abstract!Copy \/ Abstract!Move \/ Abstract!Swap
  <2>1. /\ ret' = <<"void">> /\ now' = now /\ Elements(t') = Elements(rhs)
        /\ UNCHANGED rhs \/ Elements(rhs') = {} \/ Elements(rhs') = Elements(t)
    BY <1>8, TwoKeeps
  <2>2. D = O
    BY <1>2, <1>3, <2>1, SameSeen
  <2>3. UNCHANGED rhs => P = O
    BY <2>1
  <2>4. Elements(rhs') = {} => P = [k \in Key |-> NoValue]
    BY <1>3, NothingSeen
  <2>5. Elements(rhs') = Elements(t) => P = C
    BY <1>2, <1>3, <2>1, SameSeen
  <2> HIDE DEF C, D, O, P
  <2> QED BY <1>0, <1>1, <2>1, <2>2, <2>3, <2>4, <2>5
          DEF Abstract!Copy, Abstract!Move, Abstract!Swap, Abstract!Nothing
<1> QED BY <1>4, <1>5, <1>6, <1>7, <1>8, StepCases DEF Abstract!Next

\* The caches implement the abstract ones.
THEOREM CachesImplementSpec == Careful => (Spec => ImplementsCaches)
<1> SUFFICES ASSUME Careful PROVE Spec => ImplementsCaches
  OBVIOUS
<1>1. Init => Abstract!Init
  <2> SUFFICES ASSUME Init PROVE Abstract!Init
    OBVIOUS
  <2>1. PICK n \in Requests, max \in MaxBuckets : t = NewCache(n, max)
    BY DEF Init
  <2>2. n \in Nat /\ max \in Nat \ {0} /\ 1 \in Nat /\ 1 \in Nat \ {0} /\ now \in Nat
        /\ rhs = NewCache(1, 1) /\ ret = <<"void">>
    BY RequestAssumption DEF Init
  <2>3. CacheOK(t) /\ Elements(t) = {} /\ CacheOK(rhs) /\ Elements(rhs) = {}
    BY <2>1, <2>2, NewCacheOK
  <2>4. /\ ContentsAt(t, now) = [k \in Key |-> NoValue]
        /\ ContentsAt(rhs, now) = [k \in Key |-> NoValue]
    BY <2>2, <2>3, NothingSeen
  <2>5. Contents(t) = ContentsAt(t, now) /\ Contents(rhs) = ContentsAt(rhs, now)
    BY DEF Contents, FindLive, IsTimeout, ContentsAt
  <2> QED BY <2>2, <2>4, <2>5 DEF Abstract!Init, Abstract!Nothing
<1>2. Inv /\ [Next]_vars => [Abstract!Next]_(Abstract!vars)
  BY StepImplements
<1> QED BY <1>1, <1>2, InvHolds, PTL DEF Spec, ImplementsCaches, Abstract!Spec
=============================================================================
