--------------------------- MODULE LruTableProofs ---------------------------
(***************************************************************************)
(* What the operators of LinkedTable and of LruTable do to a sound table,  *)
(* for every set of keys, hash function and size.  Walks, loops and        *)
(* searches are recursive functions; the first section has the induction   *)
(* they need.  Then: a probe finds an empty bucket if there is one, a new  *)
(* key is placed in a sound table, an erased element is gone and nothing   *)
(* else is, and the doubling for a rehash makes enough room.               *)
(***************************************************************************)
EXTENDS LruTable, ChainsProofs, FiniteSetTheorems, WellFoundedInduction, TLAPS

-----------------------------------------------------------------------------
(* Induction, and loops.                                                   *)

LEMMA LowestIsIn ==
  ASSUME NEW S \in SUBSET Nat, S # {}
  PROVE  Lowest(S) \in S /\ \A y \in S : Lowest(S) =< y
<1> DEFINE R == { ss \in Nat \X Nat : ss[1] < ss[2] }
<1>1. IsWellFoundedOn(R, Nat)
  BY NatLessThanWellFounded, Zenon DEF OpToRel
<1>2. \A a, b \in Nat : a < b => <<a, b>> \in R
  OBVIOUS
<1> HIDE DEF R
<1>3. PICK x \in S : \A y \in S : ~ (<<y, x>> \in R)
  BY <1>1, WFMin
<1>4. \A y \in S : x =< y
  <2> SUFFICES ASSUME NEW y \in S PROVE ~ (y < x)
    OBVIOUS
  <2> QED BY <1>2, <1>3
<1> QED BY <1>4 DEF Lowest

\* Induction up to n: what 0 has, and passes on, all have.
LEMMA UpTo ==
  ASSUME NEW n \in Nat, NEW S, 0 \in S,
         \A i \in 0 .. n - 1 : i \in S => i + 1 \in S
  PROVE  \A i \in 0 .. n : i \in S
<1> SUFFICES ASSUME NEW j \in 0 .. n, j \notin S PROVE FALSE
  OBVIOUS
<1> DEFINE T == { i \in 0 .. n : i \notin S }
<1>1. T \in SUBSET Nat /\ T # {}
  OBVIOUS
<1>2. PICK i \in T : \A y \in T : i =< y
  <2> HIDE DEF T
  <2> QED BY <1>1, LowestIsIn
<1>3. i # 0 /\ i - 1 \in 0 .. n - 1 /\ i - 1 \in T
  BY DEF T
<1> QED BY <1>2, <1>3

\* The values a loop takes, when its turn i takes y to s[i][y].
IsRun(g, s, x, n) == g = [i \in 0 .. n |-> IF i = 0 THEN x ELSE s[i][g[i - 1]]]

\* A loop whose turn i takes what is in I[i - 1] into I[i] has a run, and the
\* run stays in them.
LEMMA GuidedRun ==
  ASSUME NEW n \in Nat, NEW I, NEW s, NEW x \in I[0],
         \A i \in 1 .. n : \A y \in I[i - 1] : s[i][y] \in I[i]
  PROVE  \E g : IsRun(g, s, x, n) /\ \A i \in 0 .. n : g[i] \in I[i]
<1> DEFINE S == UNION { I[i] : i \in 0 .. n }
           Good(m, g) == /\ g[0] = x /\ \A j \in 1 .. m : g[j] = s[j][g[j - 1]]
                         /\ \A j \in 0 .. m : g[j] \in I[j]
           T == { m \in 0 .. n : \E g \in [0 .. m -> S] : Good(m, g) }
<1>1. 0 \in T
  <2> DEFINE g == [j \in 0 .. 0 |-> x]
  <2>1. x \in S
    OBVIOUS
  <2>2. g \in [0 .. 0 -> S] /\ Good(0, g)
    <3> HIDE DEF S
    <3> QED BY <2>1
  <2> HIDE DEF g, Good, S
  <2> QED BY <2>2
<1>2. ASSUME NEW m \in 0 .. n - 1, m \in T PROVE m + 1 \in T
  <2>1. PICK g \in [0 .. m -> S] : Good(m, g)
    BY <1>2
  <2> DEFINE y == s[m + 1][g[m]]
             h == [j \in 0 .. m + 1 |-> IF j = m + 1 THEN y ELSE g[j]]
  <2>2. y \in I[m + 1] /\ m + 1 \in 0 .. n
    <3>1. m + 1 \in 1 .. n /\ (m + 1) - 1 = m /\ g[m] \in I[m]
      BY <2>1
    <3> QED BY <3>1
  <2>3. y \in S
    BY <2>2
  <2>4. h \in [0 .. m + 1 -> S]
    <3> HIDE DEF S, y
    <3> QED BY <2>1, <2>3
  <2>5. h[0] = x
    BY <2>1
  <2>6. ASSUME NEW j \in 1 .. m + 1 PROVE h[j] = s[j][h[j - 1]]
    <3>1. /\ h[j] = IF j = m + 1 THEN y ELSE g[j]
          /\ h[j - 1] = g[j - 1]
          /\ j # m + 1 => j \in 1 .. m
          /\ j = m + 1 => j - 1 = m
      OBVIOUS
    <3> HIDE DEF h
    <3> QED BY <2>1, <3>1
  <2>7. ASSUME NEW j \in 0 .. m + 1 PROVE h[j] \in I[j]
    <3> HIDE DEF y
    <3> QED BY <2>1, <2>2
  <2>8. Good(m + 1, h)
    BY <2>5, <2>6, <2>7
  <2> HIDE DEF h, Good, S
  <2> QED BY <2>2, <2>4, <2>8
<1>3. n \in T
  <2> HIDE DEF T
  <2> QED BY <1>1, <1>2, UpTo
<1>4. PICK g \in [0 .. n -> S] : Good(n, g)
  BY <1>3
<1>5. \A i \in 0 .. n : g[i] = IF i = 0 THEN x ELSE s[i][g[i - 1]]
  <2>1. \A i \in 0 .. n : i = 0 \/ i \in 1 .. n
    OBVIOUS
  <2> QED BY <1>4, <2>1
<1>6. g = [i \in 0 .. n |-> IF i = 0 THEN x ELSE s[i][g[i - 1]]]
  <2> HIDE DEF S
  <2> QED BY <1>5
<1>7. IsRun(g, s, x, n)
  BY <1>6 DEF IsRun
<1> QED BY <1>4, <1>7

\* The same with one set for all turns.
LEMMA RunExists ==
  ASSUME NEW S, NEW s, NEW x \in S, NEW n \in Nat,
         \A i \in 1 .. n, y \in S : s[i][y] \in S
  PROVE  \E g \in [0 .. n -> S] : IsRun(g, s, x, n)
<1> DEFINE I == [i \in 0 .. n |-> S]
<1>1. /\ \A i \in 0 .. n : I[i] = S
      /\ \A i \in 1 .. n : i - 1 \in 0 .. n /\ i \in 0 .. n
      /\ 0 \in 0 .. n
  OBVIOUS
<1> HIDE DEF I
<1>2. x \in I[0] /\ \A i \in 1 .. n : \A y \in I[i - 1] : s[i][y] \in I[i]
  BY <1>1
<1>3. PICK g : IsRun(g, s, x, n) /\ \A i \in 0 .. n : g[i] \in I[i]
  BY <1>2, GuidedRun
<1>4. g \in [0 .. n -> S]
  BY <1>1, <1>3 DEF IsRun
<1> QED BY <1>3, <1>4

-----------------------------------------------------------------------------
(* A sound table, with the seconds of its elements in S.                   *)

PairSet(S) == [first : Key, second : S, bucket : Nat]
Pair(k, v, b) == [first |-> k, second |-> v, bucket |-> b]

\* The types of what the chains are made of.
Shape(t, S) ==
  /\ t.size \in Nat \ {0}
  /\ t.pairs \in [Buckets(t) -> PairSet(S) \cup {NoPair}]

TableOK(t, S) ==
  /\ Shape(t, S)
  /\ SoundChains(t)
  /\ \A a, b \in Filled(t) : t.pairs[a].first = t.pairs[b].first => a = b
  /\ t.filled = Cardinality(Filled(t))

\* A record with at least the fields of a table.
IsTable(t) ==
  /\ t = [x \in DOMAIN t |-> t[x]]
  /\ {"size", "filled", "mlf", "hint", "pairs", "stuck"} \subseteq DOMAIN t

\* u is t with nothing changed but these fields.
SameBut(t, u, fields) ==
  /\ u = [x \in DOMAIN u |-> u[x]] /\ DOMAIN u = DOMAIN t
  /\ \A x \in DOMAIN t \ fields : u[x] = t[x]

Elements(t) == { <<t.pairs[b].first, t.pairs[b].second>> : b \in Filled(t) }

LEMMA MainInRange ==
  ASSUME NEW t, t.size \in Nat \ {0}, NEW k \in Key
  PROVE  Main(t, k) \in Buckets(t)
<1>1. Hash[k] \in Nat
  BY HashAssumption
<1> QED BY <1>1 DEF Main, Buckets

LEMMA FilledType ==
  ASSUME NEW S, NEW t, TableOK(t, S)
  PROVE  /\ IsFiniteSet(Filled(t)) /\ t.filled \in Nat
         /\ Filled(t) \subseteq Buckets(t) /\ \A b \in Buckets(t) : b \in Nat
         /\ \A b \in Filled(t) :
              /\ t.pairs[b] \in PairSet(S) /\ t.pairs[b] # NoPair
              /\ Home(t)[b] = HashMain(t, b) /\ Home(t)[b] \in Filled(t)
              /\ Link(t)[b] = t.pairs[b].bucket /\ Link(t)[b] \in Filled(t)
<1>1. IsFiniteSet(Buckets(t))
  BY FS_Interval DEF TableOK, Shape, Buckets
<1>2. IsFiniteSet(Filled(t)) /\ Cardinality(Filled(t)) \in Nat
  BY <1>1, FS_Subset, FS_CardinalityType DEF Filled
<1>3. ASSUME NEW b \in Filled(t)
      PROVE  /\ t.pairs[b] \in PairSet(S) /\ t.pairs[b] # NoPair
             /\ Home(t)[b] = HashMain(t, b) /\ Home(t)[b] \in Filled(t)
             /\ Link(t)[b] = t.pairs[b].bucket /\ Link(t)[b] \in Filled(t)
  <2>1. t.pairs[b] \in PairSet(S) /\ t.pairs[b] # NoPair
    BY DEF TableOK, Shape, Filled
  <2>2. Home(t)[b] \in Filled(t) /\ Link(t)[b] \in Filled(t)
    BY DEF TableOK, SoundChains, WellChained, HeadsAtHome, LinksStayInChain
  <2> QED BY <2>1, <2>2 DEF Home, Link
<1> QED BY <1>2, <1>3 DEF Filled, TableOK, Shape, Buckets

-----------------------------------------------------------------------------
(* Walks and searches.                                                     *)

\* As many turns as the table has buckets make a walk complete: each turn
\* but the last ones meets a bucket more.
LEMMA WalkIsReach ==
  ASSUME NEW S, NEW t, TableOK(t, S), NEW b \in Filled(t)
  PROVE  Walk(t, b) = Reach(Filled(t), Link(t), b)
<1> DEFINE F == Filled(t)
           next(met) == UNION { IF x \in F THEN {x, t.pairs[x].bucket} ELSE {x} : x \in met }
           n == t.size
           s == [i \in 1 .. n |-> [met \in SUBSET F |-> next(met)]]
<1>n. n \in Nat \ {0}
  BY DEF TableOK, Shape
<1>0. /\ IsFiniteSet(F) /\ Cardinality(F) =< n
      /\ \A y \in F : t.pairs[y].bucket = Link(t)[y] /\ Link(t)[y] \in F
  <2>1. IsFiniteSet(0 .. n - 1) /\ Cardinality(0 .. n - 1) = n
    <3> HIDE DEF n
    <3> QED BY <1>n, FS_Interval
  <2>2. F \subseteq 0 .. n - 1
    BY DEF Filled, Buckets
  <2>3. Cardinality(F) =< n
    <3> HIDE DEF n, F
    <3> QED BY <2>1, <2>2, FS_Subset
  <2> QED BY <2>3, FilledType
<1>1. \A met \in SUBSET F : next(met) \in SUBSET F
  BY <1>0
<1> HIDE DEF n
<1>2. PICK g \in [0 .. n -> SUBSET F] : IsRun(g, s, {b}, n)
  <2>1. \A i \in 1 .. n, met \in SUBSET F : s[i][met] \in SUBSET F
    BY <1>1
  <2> HIDE DEF s
  <2> QED BY <1>n, <2>1, RunExists
<1> DEFINE T(h) == [i \in 0 .. n |-> IF i = 0 THEN {b} ELSE next(h[i - 1])]
           f == CHOOSE h : h = T(h)
<1>3. f = T(f)
  <2>1. \A i \in 0 .. n : g[i] = IF i = 0 THEN {b} ELSE next(g[i - 1])
    <3>1. \A i \in 0 .. n : i # 0 => i \in 1 .. n /\ i - 1 \in 0 .. n
      BY <1>n
    <3>2. \A i \in 1 .. n : s[i][g[i - 1]] = next(g[i - 1])
      BY <3>1
    <3> HIDE DEF s, next
    <3> QED BY <1>2, <3>1, <3>2 DEF IsRun
  <2>2. g = T(g)
    BY <2>1, <1>2
  <2> HIDE DEF T
  <2> QED BY <2>2
<1>4. Walk(t, b) = f[n]
  BY DEF Walk, Iterate, n
<1> HIDE DEF f
<1>5. /\ f[0] = {b}
      /\ \A i \in 0 .. n - 1 : f[i + 1] = next(f[i])
  <2>1. 0 \in 0 .. n /\ \A i \in 0 .. n - 1 : i + 1 \in 0 .. n /\ i + 1 # 0 /\ (i + 1) - 1 = i
    BY <1>n
  <2> HIDE DEF next
  <2> QED BY <1>3, <2>1
\* What the first i turns meet: b, never more than the reach, and a bucket
\* more in each turn until the walk is complete.
<1> DEFINE Closed(met) == \A y \in met : Link(t)[y] \in met
           D == { i \in 0 .. n : /\ b \in f[i] /\ f[i] \subseteq Reach(F, Link(t), b)
                                 /\ Closed(f[i]) \/ Cardinality(f[i]) > i }
<1>6. b \in Reach(F, Link(t), b) /\ Reach(F, Link(t), b) \subseteq F /\ Closed(Reach(F, Link(t), b))
  BY <1>0, ReachClosed
<1>7. 0 \in D
  <2>1. Cardinality({b}) = 1
    BY FS_Singleton
  <2>2. b \in f[0] /\ f[0] \subseteq Reach(F, Link(t), b) /\ Cardinality(f[0]) > 0
    BY <1>5, <1>6, <2>1
  <2> HIDE DEF Closed
  <2> QED BY <1>n, <2>2
<1>8. ASSUME NEW i \in 0 .. n - 1, i \in D PROVE i + 1 \in D
  <2> DEFINE met == f[i]
  <2>0. /\ f[i + 1] = next(met) /\ b \in met /\ met \subseteq Reach(F, Link(t), b)
        /\ i + 1 \in 0 .. n
        /\ Closed(met) \/ Cardinality(met) > i
    BY <1>5, <1>8, <1>n
  <2>1. next(met) = met \cup { Link(t)[y] : y \in met }
    BY <2>0, <1>6, <1>0
  <2> HIDE DEF met, next
  <2>2. b \in next(met) /\ next(met) \subseteq Reach(F, Link(t), b)
    BY <2>0, <2>1, <1>6
  <2>3. CASE Closed(met)
    <3>1. next(met) = met
      BY <2>1, <2>3
    <3> QED BY <2>0, <2>2, <2>3, <3>1
  <2>4. CASE ~ Closed(met)
    <3>1. PICK y \in met : Link(t)[y] \notin met
      BY <2>4
    <3>2. IsFiniteSet(next(met)) /\ met \subseteq next(met) /\ Link(t)[y] \in next(met)
      BY <2>1, <2>2, <1>6, <1>0, FS_Subset
    <3>3. IsFiniteSet(met) /\ IsFiniteSet(met \cup {Link(t)[y]})
      BY <3>2, FS_Subset, FS_AddElement
    <3>4. Cardinality(met \cup {Link(t)[y]}) = Cardinality(met) + 1
      BY <3>1, <3>3, FS_AddElement
    <3>5. met \cup {Link(t)[y]} \subseteq next(met)
      BY <3>2
    <3>6. Cardinality(met \cup {Link(t)[y]}) =< Cardinality(next(met))
      BY <3>2, <3>5, FS_Subset
    <3>7. Cardinality(met) \in Nat /\ Cardinality(next(met)) \in Nat
      BY <3>2, <3>3, FS_CardinalityType
    <3>8. Cardinality(next(met)) > i + 1
      BY <2>0, <2>4, <3>4, <3>6, <3>7
    <3> QED BY <2>0, <2>2, <3>8
  <2> QED BY <2>3, <2>4
<1>9. n \in D
  <2> HIDE DEF D
  <2>1. \A i \in 0 .. n : i \in D
    BY <1>7, <1>8, <1>n, UpTo
  <2> QED BY <2>1, <1>n
<1>10. Closed(f[n])
  <2>1. Cardinality(f[n]) =< Cardinality(F) /\ Cardinality(f[n]) \in Nat
    BY <1>9, <1>6, <1>0, FS_Subset, FS_CardinalityType
  <2>2. Cardinality(F) \in Nat
    BY <1>0, FS_CardinalityType
  <2> QED BY <1>9, <2>1, <2>2, <1>0, <1>n
<1>11. Reach(F, Link(t), b) \subseteq f[n]
  BY <1>6, <1>9, <1>10, ReachLeast
<1> QED BY <1>4, <1>9, <1>11

\* A search finds exactly the keys that are stored, each in its own bucket.
LEMMA FindExact ==
  ASSUME NEW S, NEW t, TableOK(t, S), NEW k \in Key
  PROVE  /\ \A b \in Filled(t) : t.pairs[b].first = k => Find(t, k) = b
         /\ (\A b \in Filled(t) : t.pairs[b].first # k) => Find(t, k) = t.size
<1> DEFINE hits == { b \in Filled(t) : /\ t.pairs[b].first = k /\ Main(t, k) \notin Empty(t)
                                      /\ b \in Walk(t, Main(t, k)) }
<1>1. \A b \in hits : b \in Filled(t) /\ t.pairs[b].first = k
  OBVIOUS
<1>2. ASSUME NEW c \in Filled(t), t.pairs[c].first = k PROVE Find(t, k) = c
  <2>1. Home(t)[c] = Main(t, k) /\ Main(t, k) \in Filled(t)
    BY <1>2, FilledType DEF HashMain
  <2>2. c \in Reach(Filled(t), Link(t), Main(t, k))
    BY <2>1 DEF TableOK, SoundChains, WellChained, AllReachable
  <2>3. c \in Walk(t, Main(t, k))
    BY <2>1, <2>2, WalkIsReach
  <2>4. c \in hits
    BY <1>2, <2>1, <2>3 DEF Filled, Empty
  <2>5. \A b \in hits : b = c
    BY <1>1, <1>2 DEF TableOK
  <2> QED BY <2>4, <2>5 DEF Find
<1>3. ASSUME \A c \in Filled(t) : t.pairs[c].first # k PROVE Find(t, k) = t.size
  <2>1. hits = {}
    BY <1>1, <1>3
  <2> QED BY <2>1 DEF Find
<1> QED BY <1>2, <1>3

\* The same in terms of what is stored.
LEMMA FindStored ==
  ASSUME NEW S, NEW t, TableOK(t, S), NEW k \in Key
  PROVE  /\ Find(t, k) # t.size <=> k \in Keys(t)
         /\ Find(t, k) # t.size => /\ Find(t, k) \in Filled(t)
                                   /\ t.pairs[Find(t, k)].first = k
         /\ \A s : <<k, s>> \in Elements(t)
                     <=> Find(t, k) # t.size /\ s = t.pairs[Find(t, k)].second
<1>1. \A b \in Filled(t) : b # t.size
  <2>1. t.size \in Nat /\ Filled(t) \subseteq 0 .. t.size - 1
    BY DEF TableOK, Shape, Filled, Buckets
  <2> QED BY <2>1
<1>2. ASSUME k \in Keys(t)
      PROVE  Find(t, k) # t.size /\ Find(t, k) \in Filled(t) /\ t.pairs[Find(t, k)].first = k
  <2>1. PICK b \in Filled(t) : t.pairs[b].first = k
    BY <1>2 DEF Keys
  <2> QED BY <2>1, <1>1, FindExact
<1>3. ASSUME k \notin Keys(t) PROVE Find(t, k) = t.size
  <2>1. \A b \in Filled(t) : t.pairs[b].first # k
    BY <1>3 DEF Keys
  <2> QED BY <2>1, FindExact
<1>4. ASSUME NEW s, <<k, s>> \in Elements(t)
      PROVE  Find(t, k) # t.size /\ s = t.pairs[Find(t, k)].second
  <2>1. PICK b \in Filled(t) : t.pairs[b].first = k /\ t.pairs[b].second = s
    BY <1>4 DEF Elements
  <2>2. Find(t, k) = b
    BY <2>1, FindExact
  <2> QED BY <2>1, <2>2, <1>1
<1>5. ASSUME Find(t, k) # t.size PROVE <<k, t.pairs[Find(t, k)].second>> \in Elements(t)
  BY <1>2, <1>3, <1>5 DEF Elements
<1> QED BY <1>2, <1>3, <1>4, <1>5

\* find_last_bucket, from the head of a chain.
LEMMA LastIsTail ==
  ASSUME NEW S, NEW t, TableOK(t, S), NEW m \in Filled(t), HashMain(t, m) = m
  PROVE  LET x == FindLastBucket(t, m)
         IN  x \in Filled(t) /\ HashMain(t, x) = m /\ t.pairs[x].bucket = x
<1> DEFINE F == Filled(t)
           nx == Link(t)
           mn == Home(t)
<1>1. WellChained(F, nx, mn) /\ mn[m] = m
  BY FilledType DEF TableOK, SoundChains
<1>2. \E x \in Reach(F, nx, m) : nx[x] = x
  <2> HIDE DEF F, nx, mn
  <2> QED BY <1>1, LastExists DEF F
<1>3. \A x \in Reach(F, nx, m) : x \in F /\ mn[x] = m
  <2> HIDE DEF nx, mn
  <2> QED BY <1>1, ReachStaysHome
<1>4. \A x \in F : nx[x] = t.pairs[x].bucket /\ mn[x] = HashMain(t, x)
  BY FilledType
<1>5. Walk(t, m) = Reach(F, nx, m)
  BY WalkIsReach
<1> HIDE DEF nx, mn
<1>6. \E x \in Walk(t, m) : t.pairs[x].bucket = x
  BY <1>2, <1>3, <1>4, <1>5
<1>7. FindLastBucket(t, m) \in Walk(t, m)
      /\ t.pairs[FindLastBucket(t, m)].bucket = FindLastBucket(t, m)
  BY <1>6 DEF FindLastBucket
<1> QED BY <1>3, <1>4, <1>5, <1>7

\* find_prev_bucket, for a bucket that is not a head.
LEMMA PrevLinks ==
  ASSUME NEW S, NEW t, TableOK(t, S), NEW b \in Filled(t), HashMain(t, b) # b
  PROVE  LET p == FindPrevBucket(t, HashMain(t, b), b)
         IN  /\ p \in Filled(t) /\ p # b /\ t.pairs[p].bucket = b
             /\ HashMain(t, p) = HashMain(t, b)
<1> DEFINE F == Filled(t)
           nx == Link(t)
           mn == Home(t)
           m == HashMain(t, b)
<1>1. WellChained(F, nx, mn) /\ mn[b] = m /\ m \in F /\ m # b
  BY FilledType DEF TableOK, SoundChains
<1>2. mn[m] = m
  BY <1>1 DEF WellChained, HeadsAtHome
<1>3. \E x \in Reach(F, nx, m) : x # b /\ nx[x] = b
  <2> HIDE DEF nx, mn, m
  <2> QED BY <1>1, PrevExists
<1>4. \A x \in Reach(F, nx, m) : x \in F /\ mn[x] = m
  <2> HIDE DEF nx, mn, m
  <2> QED BY <1>1, <1>2, ReachStaysHome
<1>5. \A x \in F : nx[x] = t.pairs[x].bucket /\ mn[x] = HashMain(t, x)
  BY FilledType
<1>6. Walk(t, m) = Reach(F, nx, m)
  BY <1>1, WalkIsReach
<1> HIDE DEF nx, mn, m
<1>7. \E x \in Walk(t, m) : x # b /\ t.pairs[x].bucket = b
  BY <1>3, <1>4, <1>5, <1>6
<1> DEFINE p == FindPrevBucket(t, m, b)
<1>8. p \in Walk(t, m) /\ p # b /\ t.pairs[p].bucket = b
  BY <1>7 DEF FindPrevBucket
<1> QED BY <1>4, <1>5, <1>6, <1>8 DEF m

LEMMA KeysAreFirsts ==
  ASSUME NEW t
  PROVE  \A k : k \in Keys(t) <=> \E s : <<k, s>> \in Elements(t)
BY DEF Keys, Elements

\* As many keys as buckets: no key is stored twice.
LEMMA CountIsSound ==
  ASSUME NEW S, NEW t, TableOK(t, S)
  PROVE  SoundCount(t)
<1> DEFINE F == Filled(t)
           K == Keys(t)
           f == [b \in F |-> t.pairs[b].first]
<1>1. IsFiniteSet(F)
  BY FilledType
<1>2. /\ f \in [F -> K] /\ \A k \in K : \E b \in F : f[b] = k
      /\ \A a, b \in F : f[a] = f[b] => a = b
  BY DEF Keys, TableOK
<1> HIDE DEF f, F, K
<1>3. f \in Surjection(F, K) /\ f \in Injection(F, K)
  BY <1>2 DEF Surjection, Injection, IsInjective
<1>4. Cardinality(K) = Cardinality(F)
  BY <1>1, <1>3, FS_Surjection
<1> QED BY <1>4 DEF SoundCount, TableOK, F, K

-----------------------------------------------------------------------------
(* One bucket more, and one less.  The lemmas name the table t before a    *)
(* change and u after it.                                                  *)

LEMMA OneMore ==
  ASSUME NEW S, NEW t, TableOK(t, S), NEW n \in Empty(t), NEW u,
         Filled(u) = Filled(t) \cup {n}, u.filled = t.filled + 1
  PROVE  n \notin Filled(t) /\ u.filled = Cardinality(Filled(u))
<1>1. n \notin Filled(t)
  BY DEF Filled, Empty
<1>2. IsFiniteSet(Filled(t))
  BY FilledType
<1>3. Cardinality(Filled(t) \cup {n}) = Cardinality(Filled(t)) + 1
  BY <1>1, <1>2, FS_AddElement
<1> QED BY <1>1, <1>3 DEF TableOK

LEMMA OneLess ==
  ASSUME NEW S, NEW t, TableOK(t, S), NEW n \in Filled(t), NEW u,
         Filled(u) = Filled(t) \ {n}, u.filled = t.filled - 1
  PROVE  u.filled = Cardinality(Filled(u))
<1>1. IsFiniteSet(Filled(t))
  BY FilledType
<1>2. Cardinality(Filled(t) \ {n}) = Cardinality(Filled(t)) - 1
  BY <1>1, FS_RemoveElement
<1> QED BY <1>2 DEF TableOK

\* u holds what t holds, and k with v.
Gained(t, u, S, k, v) ==
  /\ TableOK(u, S)
  /\ u.size = t.size /\ u.filled = t.filled + 1
  /\ Elements(u) = Elements(t) \cup {<<k, v>>}

\* EMH_NEW at an empty main bucket.
LEMMA NewAtMain ==
  ASSUME NEW S, NoPair \notin PairSet(S), NEW t, TableOK(t, S),
         NEW k \in Key, k \notin Keys(t), NEW v \in S,
         NEW b \in Empty(t), b = Main(t, k),
         NEW u, u.size = t.size, u.filled = t.filled + 1,
         u.pairs = [t.pairs EXCEPT ![b] = Pair(k, v, b)]
  PROVE  Gained(t, u, S, k, v)
<1>0. b \in Buckets(t) /\ b \in Nat /\ Buckets(u) = Buckets(t)
  BY FilledType DEF Empty, Buckets
<1>1. Pair(k, v, b) \in PairSet(S) /\ Pair(k, v, b) # NoPair
  BY <1>0 DEF Pair, PairSet
<1>2. /\ u.pairs \in [Buckets(t) -> PairSet(S) \cup {NoPair}]
      /\ u.pairs[b] = Pair(k, v, b)
      /\ \A c \in Buckets(t) \ {b} : u.pairs[c] = t.pairs[c]
  BY <1>0, <1>1 DEF TableOK, Shape
<1>3. Filled(u) = Filled(t) \cup {b}
  BY <1>0, <1>1, <1>2 DEF Filled
<1>4. b \notin Filled(t) /\ u.filled = Cardinality(Filled(u))
  BY <1>3, OneMore
<1>5. \A c \in Filled(t) : u.pairs[c] = t.pairs[c]
  BY <1>2, <1>4, FilledType
<1>6. SoundChains(u)
  <2>1. \A c \in Filled(t) : Link(u)[c] = Link(t)[c]
    BY <1>3, <1>5 DEF Link
  <2>2. \A c \in Filled(t) : Home(u)[c] = Home(t)[c]
    BY <1>3, <1>5 DEF Home, HashMain, Main
  <2>3. Link(u)[b] = b /\ Home(u)[b] = b
    BY <1>2, <1>3 DEF Link, Home, HashMain, Main, Pair
  <2>4. WellChained(Filled(t), Link(t), Home(t)) /\ b \notin Filled(t)
    BY <1>4 DEF TableOK, SoundChains
  <2>5. WellChained(Filled(t) \cup {b}, Link(u), Home(u))
    BY <2>1, <2>2, <2>3, <2>4, AddHead
  <2> QED BY <2>5, <1>3 DEF SoundChains
<1>7. \A c \in Filled(t) : t.pairs[c].first # k
  BY DEF Keys
<1>8. u.pairs[b].first = k /\ u.pairs[b].second = v
  BY <1>2 DEF Pair
<1>9. \A c, d \in Filled(u) : u.pairs[c].first = u.pairs[d].first => c = d
  BY <1>3, <1>5, <1>7, <1>8 DEF TableOK
<1>10. Elements(u) = Elements(t) \cup {<<k, v>>}
  BY <1>3, <1>5, <1>8 DEF Elements
<1> QED BY <1>0, <1>2, <1>4, <1>6, <1>9, <1>10 DEF Gained, TableOK, Shape

\* link_new: behind the tail of the chain of k, in any empty bucket.
LEMMA NewAtTail ==
  ASSUME NEW S, NoPair \notin PairSet(S), NEW t, TableOK(t, S),
         NEW k \in Key, k \notin Keys(t), NEW v \in S,
         NEW tail \in Filled(t), HashMain(t, tail) = Main(t, k), t.pairs[tail].bucket = tail,
         NEW n \in Empty(t),
         NEW u, u.size = t.size, u.filled = t.filled + 1,
         u.pairs = [[t.pairs EXCEPT ![tail] = Pair(t.pairs[tail].first, t.pairs[tail].second, n)]
                      EXCEPT ![n] = Pair(k, v, n)]
  PROVE  Gained(t, u, S, k, v)
<1> DEFINE moved == Pair(t.pairs[tail].first, t.pairs[tail].second, n)
<1>0. /\ n \in Buckets(t) /\ n \in Nat /\ tail \in Buckets(t) /\ n \notin Filled(t) /\ n # tail
      /\ Buckets(u) = Buckets(t)
  BY FilledType DEF Empty, Filled, Buckets
<1>1. /\ Pair(k, v, n) \in PairSet(S) /\ Pair(k, v, n) # NoPair
      /\ moved \in PairSet(S) /\ moved # NoPair
  <2>1. t.pairs[tail] \in PairSet(S)
    BY FilledType
  <2> QED BY <1>0, <2>1 DEF Pair, PairSet
<1>2. /\ u.pairs \in [Buckets(t) -> PairSet(S) \cup {NoPair}]
      /\ u.pairs[n] = Pair(k, v, n) /\ u.pairs[tail] = moved
      /\ \A c \in Buckets(t) \ {n, tail} : u.pairs[c] = t.pairs[c]
  BY <1>0, <1>1 DEF TableOK, Shape
<1> HIDE DEF moved
<1>3. Filled(u) = Filled(t) \cup {n}
  BY <1>0, <1>1, <1>2 DEF Filled
<1>4. u.filled = Cardinality(Filled(u))
  BY <1>3, OneMore
<1>5. \A c \in Filled(t) \ {tail} : u.pairs[c] = t.pairs[c]
  BY <1>0, <1>2, FilledType
<1>6. /\ u.pairs[n].first = k /\ u.pairs[n].second = v /\ u.pairs[n].bucket = n
      /\ u.pairs[tail].bucket = n
      /\ \A c \in Filled(t) : /\ u.pairs[c].first = t.pairs[c].first
                              /\ u.pairs[c].second = t.pairs[c].second
  BY <1>2, <1>5 DEF Pair, moved
<1>7. SoundChains(u)
  <2>1. \A c \in Filled(t) \ {tail} : Link(u)[c] = Link(t)[c]
    BY <1>3, <1>5 DEF Link
  <2>2. \A c \in Filled(t) : Home(u)[c] = Home(t)[c]
    BY <1>3, <1>6 DEF Home, HashMain, Main
  <2>3. Link(u)[tail] = n /\ Link(u)[n] = n /\ Link(t)[tail] = tail
    BY <1>3, <1>6, FilledType DEF Link
  <2>4. Home(u)[n] = Home(t)[tail]
    BY <1>3, <1>6 DEF Home, HashMain, Main
  <2>5. WellChained(Filled(t), Link(t), Home(t)) /\ n \notin Filled(t)
    BY <1>0 DEF TableOK, SoundChains
  <2>6. WellChained(Filled(t) \cup {n}, Link(u), Home(u))
    BY <2>1, <2>2, <2>3, <2>4, <2>5, AppendTail
  <2> QED BY <2>6, <1>3 DEF SoundChains
<1>8. \A c \in Filled(t) : t.pairs[c].first # k
  BY DEF Keys
<1>9. \A c, d \in Filled(u) : u.pairs[c].first = u.pairs[d].first => c = d
  BY <1>3, <1>6, <1>8 DEF TableOK
<1>10. Elements(u) = Elements(t) \cup {<<k, v>>}
  BY <1>3, <1>6 DEF Elements
<1> QED BY <1>0, <1>2, <1>4, <1>7, <1>9, <1>10 DEF Gained, TableOK, Shape

\* The buckets when the guest of bucket b, which p links to, moves to n.
GuestMoved(t, b, p, n) ==
  [[[t.pairs EXCEPT ![n] = Pair(t.pairs[b].first, t.pairs[b].second,
                                IF t.pairs[b].bucket = b THEN n ELSE t.pairs[b].bucket)]
      EXCEPT ![p] = Pair(t.pairs[p].first, t.pairs[p].second, n)]
      EXCEPT ![b] = NoPair]

\* kickout_bucket: the guest of bucket b moves to the empty bucket n.
LEMMA GuestMoves ==
  ASSUME NEW S, NoPair \notin PairSet(S), NEW t, TableOK(t, S),
         NEW b \in Filled(t), HashMain(t, b) # b,
         NEW p \in Filled(t), p # b, t.pairs[p].bucket = b,
         NEW n \in Empty(t),
         NEW u, u.size = t.size, u.filled = t.filled,
         u.pairs = GuestMoved(t, b, p, n)
  PROVE  /\ TableOK(u, S) /\ Elements(u) = Elements(t)
         /\ b \in Empty(u)
<1> DEFINE link == IF t.pairs[b].bucket = b THEN n ELSE t.pairs[b].bucket
           guest == Pair(t.pairs[b].first, t.pairs[b].second, link)
           relinked == Pair(t.pairs[p].first, t.pairs[p].second, n)
<1>0. /\ n \in Buckets(t) /\ n \in Nat /\ p \in Buckets(t) /\ b \in Buckets(t)
      /\ n \notin Filled(t) /\ n # p /\ n # b
      /\ Buckets(u) = Buckets(t)
  BY FilledType DEF Empty, Filled, Buckets
<1>1. guest \in PairSet(S) /\ guest # NoPair /\ relinked \in PairSet(S) /\ relinked # NoPair
  <2>1. t.pairs[b] \in PairSet(S) /\ t.pairs[p] \in PairSet(S)
    BY FilledType
  <2>2. link \in Nat
    BY <1>0, <2>1 DEF PairSet
  <2> HIDE DEF link
  <2> QED BY <1>0, <2>1, <2>2 DEF Pair, PairSet
<1> HIDE DEF guest, relinked
<1>2. /\ u.pairs \in [Buckets(t) -> PairSet(S) \cup {NoPair}]
      /\ u.pairs[n] = guest /\ u.pairs[p] = relinked /\ u.pairs[b] = NoPair
      /\ \A c \in Buckets(t) \ {n, p, b} : u.pairs[c] = t.pairs[c]
  <2>1. u.pairs = [[[t.pairs EXCEPT ![n] = guest] EXCEPT ![p] = relinked] EXCEPT ![b] = NoPair]
    BY DEF guest, relinked, GuestMoved
  <2> QED BY <2>1, <1>0, <1>1 DEF TableOK, Shape
<1>3. Filled(u) = (Filled(t) \ {b}) \cup {n}
  BY <1>0, <1>1, <1>2 DEF Filled
<1>4. u.filled = Cardinality(Filled(u))
  <2>0. IsFiniteSet(Filled(t))
    BY FilledType
  <2>1. Cardinality(Filled(t) \ {b}) = Cardinality(Filled(t)) - 1 /\ IsFiniteSet(Filled(t) \ {b})
    BY <2>0, FS_RemoveElement
  <2>2. Cardinality((Filled(t) \ {b}) \cup {n}) = Cardinality(Filled(t) \ {b}) + 1
    BY <2>1, <1>0, FS_AddElement
  <2>3. Cardinality(Filled(t)) \in Nat
    BY FilledType DEF TableOK
  <2> QED BY <1>3, <2>1, <2>2, <2>3 DEF TableOK
<1>5. \A c \in Filled(t) \ {b, p} : u.pairs[c] = t.pairs[c]
  BY <1>0, <1>2, FilledType
<1>6. /\ u.pairs[n].first = t.pairs[b].first /\ u.pairs[n].second = t.pairs[b].second
      /\ u.pairs[n].bucket = link /\ u.pairs[p].bucket = n
      /\ \A c \in Filled(t) \ {b} : /\ u.pairs[c].first = t.pairs[c].first
                                    /\ u.pairs[c].second = t.pairs[c].second
  BY <1>2, <1>5 DEF Pair, guest, relinked
<1>7. SoundChains(u)
  <2>1. \A c \in Filled(t) \ {b, p} : Link(u)[c] = Link(t)[c]
    BY <1>3, <1>5 DEF Link
  <2>2. \A c \in Filled(t) \ {b} : Home(u)[c] = Home(t)[c]
    BY <1>3, <1>6 DEF Home, HashMain, Main
  <2>3. /\ Link(u)[n] = (IF Link(t)[b] = b THEN n ELSE Link(t)[b])
        /\ Link(u)[p] = n /\ Link(t)[p] = b
    BY <1>0, <1>3, <1>6 DEF Link
  <2>4. Home(u)[n] = Home(t)[b] /\ Home(t)[b] # b
    BY <1>3, <1>6 DEF Home, HashMain, Main
  <2>5. WellChained(Filled(t), Link(t), Home(t)) /\ n \notin Filled(t)
    BY <1>0 DEF TableOK, SoundChains
  <2> HIDE DEF link
  <2>6. WellChained((Filled(t) \ {b}) \cup {n}, Link(u), Home(u))
    BY <2>1, <2>2, <2>3, <2>4, <2>5, Relocate
  <2> QED BY <2>6, <1>3 DEF SoundChains
<1> DEFINE from(c) == IF c = n THEN b ELSE c
<1>f. \A c \in Filled(u) : /\ from(c) \in Filled(t)
                             /\ u.pairs[c].first = t.pairs[from(c)].first
                             /\ u.pairs[c].second = t.pairs[from(c)].second
  BY <1>3, <1>6
<1>g. \A c \in Filled(t) : \E d \in Filled(u) : from(d) = c
  BY <1>3, <1>0
<1>h. \A c, d \in Filled(u) : from(c) = from(d) => c = d
  BY <1>3
<1> HIDE DEF from, link
<1>8. \A c, d \in Filled(u) : u.pairs[c].first = u.pairs[d].first => c = d
  BY <1>f, <1>h DEF TableOK
<1>9. Elements(u) = Elements(t)
  BY <1>f, <1>g DEF Elements
<1>10. b \in Empty(u)
  BY <1>0, <1>2 DEF Empty
<1> QED BY <1>0, <1>2, <1>4, <1>7, <1>8, <1>9, <1>10 DEF TableOK, Shape

-----------------------------------------------------------------------------
(* A table with no elements, and a table with elements written over.       *)

LEMMA NoElements ==
  ASSUME NEW S, NEW t, t.size \in Nat \ {0}, t.pairs = Fresh(t.size), t.filled = 0
  PROVE  TableOK(t, S) /\ Filled(t) = {} /\ Elements(t) = {} /\ Empty(t) = Buckets(t)
<1>1. t.pairs = [b \in Buckets(t) |-> NoPair]
  BY DEF Fresh, Buckets
<1>2. Filled(t) = {} /\ Elements(t) = {} /\ Empty(t) = Buckets(t)
  BY <1>1 DEF Filled, Empty, Elements
<1>3. SoundChains(t)
  BY <1>2 DEF SoundChains, WellChained, LinksStayInChain, HeadsAtHome, AllReachable,
              NoSharedTails, TailsExist
<1>4. Cardinality(Filled(t)) = 0
  BY <1>2, FS_EmptySet
<1> QED BY <1>1, <1>2, <1>3, <1>4 DEF TableOK, Shape

\* A table that holds less than it has buckets has an empty one.
LEMMA RoomLeft ==
  ASSUME NEW S, NEW t, TableOK(t, S), t.filled < t.size
  PROVE  Empty(t) # {}
<1> SUFFICES ASSUME Empty(t) = {} PROVE FALSE
  OBVIOUS
<1>1. Filled(t) = 0 .. t.size - 1
  BY DEF Empty, Filled, Buckets
<1> DEFINE n == t.size
<1>2. n \in Nat \ {0}
  BY DEF TableOK, Shape
<1>3. Cardinality(0 .. n - 1) = n
  <2> HIDE DEF n
  <2> QED BY <1>2, FS_Interval
<1> QED BY <1>1, <1>2, <1>3 DEF TableOK

\* It holds no more than it has buckets.
LEMMA FilledFits ==
  ASSUME NEW S, NEW t, TableOK(t, S)
  PROVE  t.filled \in Nat /\ t.filled =< t.size
<1> DEFINE n == t.size
<1>1. n \in Nat \ {0} /\ t.filled = Cardinality(Filled(t)) /\ t.filled \in Nat
  BY FilledType DEF TableOK, Shape
<1>2. Filled(t) \subseteq 0 .. n - 1
  BY DEF Filled, Buckets
<1>3. IsFiniteSet(0 .. n - 1) /\ Cardinality(0 .. n - 1) = n
  <2> HIDE DEF n
  <2> QED BY <1>1, FS_Interval
<1>4. Cardinality(Filled(t)) =< Cardinality(0 .. n - 1)
  BY <1>2, <1>3, FS_Subset
<1> QED BY <1>1, <1>3, <1>4

\* The buckets, their number and the counter are all that matters.
LEMMA SameTable ==
  ASSUME NEW S, NEW t, TableOK(t, S), NEW u,
         u.size = t.size, u.pairs = t.pairs, u.filled = t.filled
  PROVE  TableOK(u, S) /\ Filled(u) = Filled(t) /\ Elements(u) = Elements(t)
<1>1. Filled(u) = Filled(t)
  BY DEF Filled, Buckets
<1>2. Link(u) = Link(t) /\ Home(u) = Home(t)
  BY <1>1 DEF Link, Home, HashMain, Main
<1>3. TableOK(u, S)
  BY <1>1, <1>2 DEF TableOK, Shape, SoundChains, Buckets
<1> QED BY <1>1, <1>3 DEF Elements

\* The keys of the elements stay in their chains, and the links stay.
LEMMA WrittenOver ==
  ASSUME NEW S, NEW t, TableOK(t, S),
         NEW u, u.size = t.size, u.filled = t.filled,
         u.pairs \in [Buckets(t) -> PairSet(S) \cup {NoPair}],
         Filled(u) = Filled(t),
         \A b \in Filled(t) : /\ u.pairs[b].bucket = t.pairs[b].bucket
                              /\ HashMain(u, b) = HashMain(t, b),
         \A a, b \in Filled(t) : u.pairs[a].first = u.pairs[b].first => a = b
  PROVE  TableOK(u, S)
<1>1. Link(u) = Link(t) /\ Home(u) = Home(t)
  BY DEF Link, Home
<1>2. SoundChains(u)
  BY <1>1 DEF SoundChains, TableOK
<1>3. Buckets(u) = Buckets(t)
  BY DEF Buckets
<1> QED BY <1>2, <1>3 DEF TableOK, Shape

\* u is t with the element of bucket b written over by k and v.
Rewritten(t, u, S, b, k, v) ==
  /\ TableOK(u, S) /\ u.size = t.size /\ u.filled = t.filled
  /\ Filled(u) = Filled(t)
  /\ Elements(u) = (Elements(t) \ {<<t.pairs[b].first, t.pairs[b].second>>}) \cup {<<k, v>>}

\* An element is written over by one of its own chain.
LEMMA WriteOver ==
  ASSUME NEW S, NoPair \notin PairSet(S), NEW t, TableOK(t, S), NEW b \in Filled(t),
         NEW k \in Key, Main(t, k) = HashMain(t, b), NEW v \in S,
         \A c \in Filled(t) : t.pairs[c].first = k => c = b,
         NEW u, u.size = t.size, u.filled = t.filled,
         u.pairs = [t.pairs EXCEPT ![b] = Pair(k, v, t.pairs[b].bucket)]
  PROVE  Rewritten(t, u, S, b, k, v)
<1> DEFINE new == Pair(k, v, t.pairs[b].bucket)
<1>1. b \in Buckets(t) /\ Buckets(u) = Buckets(t) /\ new \in PairSet(S) /\ new # NoPair
  <2>1. t.pairs[b] \in PairSet(S)
    BY FilledType
  <2>2. new \in PairSet(S)
    BY <2>1 DEF Pair, PairSet
  <2> QED BY <2>2 DEF Filled, Buckets
<1>2. /\ u.pairs \in [Buckets(t) -> PairSet(S) \cup {NoPair}] /\ u.pairs[b] = new
      /\ \A c \in Buckets(t) \ {b} : u.pairs[c] = t.pairs[c]
  <2> HIDE DEF new
  <2> QED BY <1>1 DEF TableOK, Shape, new
<1>3. Filled(u) = Filled(t)
  <2> HIDE DEF new
  <2> QED BY <1>1, <1>2 DEF Filled
<1>4. /\ u.pairs[b].first = k /\ u.pairs[b].second = v /\ u.pairs[b].bucket = t.pairs[b].bucket
      /\ \A c \in Filled(t) \ {b} : u.pairs[c] = t.pairs[c]
  BY <1>2, FilledType DEF Pair
<1>5. \A c \in Filled(t) : HashMain(u, c) = HashMain(t, c)
  BY <1>4 DEF HashMain, Main
<1>6. \A a, c \in Filled(t) : u.pairs[a].first = u.pairs[c].first => a = c
  BY <1>4 DEF TableOK
<1>7. TableOK(u, S)
  BY <1>2, <1>3, <1>4, <1>5, <1>6, WrittenOver
<1>8. Elements(u) = (Elements(t) \ {<<t.pairs[b].first, t.pairs[b].second>>}) \cup {<<k, v>>}
  BY <1>3, <1>4 DEF Elements, TableOK
<1> QED BY <1>3, <1>7, <1>8 DEF Rewritten

\* Two elements of one chain change places.
LEMMA PlacesChanged ==
  ASSUME NEW S, NoPair \notin PairSet(S), NEW t, TableOK(t, S),
         NEW a \in Filled(t), NEW b \in Filled(t), a # b, HashMain(t, a) = HashMain(t, b),
         NEW u, u.size = t.size, u.filled = t.filled,
         u.pairs = [[t.pairs EXCEPT ![a] = Pair(t.pairs[b].first, t.pairs[b].second, t.pairs[a].bucket)]
                       EXCEPT ![b] = Pair(t.pairs[a].first, t.pairs[a].second, t.pairs[b].bucket)]
  PROVE  TableOK(u, S) /\ Elements(u) = Elements(t) /\ Filled(u) = Filled(t)
<1> DEFINE newA == Pair(t.pairs[b].first, t.pairs[b].second, t.pairs[a].bucket)
           newB == Pair(t.pairs[a].first, t.pairs[a].second, t.pairs[b].bucket)
<1>1. /\ a \in Buckets(t) /\ b \in Buckets(t) /\ Buckets(u) = Buckets(t)
      /\ newA \in PairSet(S) /\ newA # NoPair /\ newB \in PairSet(S) /\ newB # NoPair
  <2>1. t.pairs[a] \in PairSet(S) /\ t.pairs[b] \in PairSet(S)
    BY FilledType
  <2>2. newA \in PairSet(S) /\ newB \in PairSet(S)
    BY <2>1 DEF Pair, PairSet
  <2> QED BY <2>2 DEF Filled, Buckets
<1>2. /\ u.pairs \in [Buckets(t) -> PairSet(S) \cup {NoPair}]
      /\ u.pairs[a] = newA /\ u.pairs[b] = newB
      /\ \A c \in Buckets(t) \ {a, b} : u.pairs[c] = t.pairs[c]
  <2>1. u.pairs = [[t.pairs EXCEPT ![a] = newA] EXCEPT ![b] = newB]
    OBVIOUS
  <2> HIDE DEF newA, newB
  <2> QED BY <1>1, <2>1 DEF TableOK, Shape
<1>3. Filled(u) = Filled(t)
  <2> HIDE DEF newA, newB
  <2> QED BY <1>1, <1>2 DEF Filled
<1> DEFINE from(c) == IF c = a THEN b ELSE IF c = b THEN a ELSE c
<1>4. \A c \in Filled(t) : /\ u.pairs[c].bucket = t.pairs[c].bucket
                           /\ from(c) \in Filled(t) /\ from(from(c)) = c
                           /\ u.pairs[c].first = t.pairs[from(c)].first
                           /\ u.pairs[c].second = t.pairs[from(c)].second
                           /\ HashMain(t, from(c)) = HashMain(t, c)
  BY <1>2, FilledType DEF Pair
<1> HIDE DEF from
<1>5. \A c \in Filled(t) : HashMain(u, c) = HashMain(t, c)
  BY <1>4 DEF HashMain, Main
<1>6. \A c, d \in Filled(t) : u.pairs[c].first = u.pairs[d].first => c = d
  BY <1>4 DEF TableOK
<1>7. TableOK(u, S)
  BY <1>2, <1>3, <1>4, <1>5, <1>6, WrittenOver
<1>8. Elements(u) = Elements(t)
  BY <1>3, <1>4 DEF Elements
<1> QED BY <1>3, <1>7, <1>8

-----------------------------------------------------------------------------
(* Removing.                                                               *)

\* u is t without the element of bucket b, and freed is the bucket given up.
Lost(t, u, S, b, freed) ==
  /\ TableOK(u, S) /\ u.size = t.size /\ u.filled = t.filled - 1
  /\ freed \in Filled(t) /\ Filled(u) = Filled(t) \ {freed}
  /\ \A c \in Filled(u) \ {b} : /\ u.pairs[c].first = t.pairs[c].first
                                /\ u.pairs[c].second = t.pairs[c].second
  /\ Elements(u) = Elements(t) \ {<<t.pairs[b].first, t.pairs[b].second>>}

\* The only element of a chain is removed.
LEMMA AloneLost ==
  ASSUME NEW S, NEW t, TableOK(t, S),
         NEW b \in Filled(t), HashMain(t, b) = b, t.pairs[b].bucket = b,
         NEW u, u.size = t.size, u.filled = t.filled - 1,
         u.pairs = [t.pairs EXCEPT ![b] = NoPair]
  PROVE  /\ Lost(t, u, S, b, b)
         /\ \A c \in Filled(u) : u.pairs[c] = t.pairs[c]
<1>0. b \in Buckets(t) /\ Buckets(u) = Buckets(t)
  BY DEF Filled, Buckets
<1>1. /\ u.pairs \in [Buckets(t) -> PairSet(S) \cup {NoPair}]
      /\ u.pairs[b] = NoPair
      /\ \A c \in Buckets(t) \ {b} : u.pairs[c] = t.pairs[c]
  BY <1>0 DEF TableOK, Shape
<1>2. Filled(u) = Filled(t) \ {b}
  BY <1>0, <1>1 DEF Filled
<1>3. u.filled = Cardinality(Filled(u))
  BY <1>2, OneLess
<1>4. \A c \in Filled(u) : u.pairs[c] = t.pairs[c]
  BY <1>1, <1>2, FilledType
<1>5. SoundChains(u)
  <2>1. \A c \in Filled(t) \ {b} : Link(u)[c] = Link(t)[c]
    BY <1>2, <1>4 DEF Link
  <2>2. \A c \in Filled(t) \ {b} : Home(u)[c] = Home(t)[c]
    BY <1>2, <1>4 DEF Home, HashMain, Main
  <2>3. Home(t)[b] = b /\ Link(t)[b] = b /\ WellChained(Filled(t), Link(t), Home(t))
    BY FilledType DEF TableOK, SoundChains
  <2>4. WellChained(Filled(t) \ {b}, Link(u), Home(u))
    BY <2>1, <2>2, <2>3, DropAlone
  <2> QED BY <2>4, <1>2 DEF SoundChains
<1>6. \A c, d \in Filled(u) : u.pairs[c].first = u.pairs[d].first => c = d
  BY <1>2, <1>4 DEF TableOK
<1>7. Elements(u) = Elements(t) \ {<<t.pairs[b].first, t.pairs[b].second>>}
  BY <1>2, <1>4 DEF Elements, TableOK
<1> QED BY <1>0, <1>1, <1>2, <1>3, <1>4, <1>5, <1>6, <1>7 DEF Lost, TableOK, Shape

\* The buckets when the one before bucket b takes its link, and when bucket
\* next is pulled into the head b.
PairUnlinked(t, b, p) ==
  [[t.pairs EXCEPT ![p] = Pair(t.pairs[p].first, t.pairs[p].second,
                               IF t.pairs[b].bucket = b THEN p ELSE t.pairs[b].bucket)]
      EXCEPT ![b] = NoPair]

PairPulled(t, b, next) ==
  [[t.pairs EXCEPT ![b] = Pair(t.pairs[next].first, t.pairs[next].second,
                               IF t.pairs[next].bucket = next THEN b ELSE t.pairs[next].bucket)]
      EXCEPT ![next] = NoPair]

\* An element is unlinked: the one before it takes its link.
LEMMA UnlinkedLost ==
  ASSUME NEW S, NoPair \notin PairSet(S), NEW t, TableOK(t, S),
         NEW b \in Filled(t), HashMain(t, b) # b,
         NEW p \in Filled(t), p # b, t.pairs[p].bucket = b,
         NEW u, u.size = t.size, u.filled = t.filled - 1,
         u.pairs = PairUnlinked(t, b, p)
  PROVE  /\ Lost(t, u, S, b, b)
         /\ \A c \in Filled(u) : t.pairs[c].bucket = c => u.pairs[c].bucket = c
<1> DEFINE link == IF t.pairs[b].bucket = b THEN p ELSE t.pairs[b].bucket
           relinked == Pair(t.pairs[p].first, t.pairs[p].second, link)
<1>0. b \in Buckets(t) /\ p \in Buckets(t) /\ Buckets(u) = Buckets(t)
  BY DEF Filled, Buckets
<1>1. relinked \in PairSet(S) /\ relinked # NoPair
  <2>1. t.pairs[b] \in PairSet(S) /\ t.pairs[p] \in PairSet(S) /\ p \in Nat
    BY <1>0, FilledType
  <2>2. link \in Nat
    BY <2>1 DEF PairSet
  <2> HIDE DEF link
  <2> QED BY <2>1, <2>2 DEF Pair, PairSet
<1>2. /\ u.pairs \in [Buckets(t) -> PairSet(S) \cup {NoPair}]
      /\ u.pairs[b] = NoPair /\ u.pairs[p] = relinked
      /\ \A c \in Buckets(t) \ {b, p} : u.pairs[c] = t.pairs[c]
  <2>1. u.pairs = [[t.pairs EXCEPT ![p] = relinked] EXCEPT ![b] = NoPair]
    BY DEF PairUnlinked
  <2> HIDE DEF relinked
  <2> QED BY <2>1, <1>0, <1>1 DEF TableOK, Shape
<1> HIDE DEF relinked
<1>3. Filled(u) = Filled(t) \ {b}
  BY <1>0, <1>1, <1>2 DEF Filled
<1>4. u.filled = Cardinality(Filled(u))
  BY <1>3, OneLess
<1>5. \A c \in Filled(t) \ {b, p} : u.pairs[c] = t.pairs[c]
  BY <1>2, FilledType
<1>6. /\ u.pairs[p].bucket = link
      /\ \A c \in Filled(u) : /\ u.pairs[c].first = t.pairs[c].first
                              /\ u.pairs[c].second = t.pairs[c].second
  BY <1>2, <1>3, <1>5 DEF Pair, relinked
<1>7. SoundChains(u)
  <2>1. \A c \in Filled(t) \ {b, p} : Link(u)[c] = Link(t)[c]
    BY <1>3, <1>5 DEF Link
  <2>2. \A c \in Filled(t) \ {b} : Home(u)[c] = Home(t)[c]
    BY <1>3, <1>6 DEF Home, HashMain, Main
  <2>3. Link(u)[p] = (IF Link(t)[b] = b THEN p ELSE Link(t)[b]) /\ Link(t)[p] = b
    BY <1>3, <1>6 DEF Link
  <2>4. Home(t)[b] # b /\ WellChained(Filled(t), Link(t), Home(t))
    BY FilledType DEF TableOK, SoundChains
  <2> HIDE DEF link
  <2>5. WellChained(Filled(t) \ {b}, Link(u), Home(u))
    BY <2>1, <2>2, <2>3, <2>4, DropNext, SMTT(60)
  <2> QED BY <2>5, <1>3 DEF SoundChains
<1>8. \A c, d \in Filled(u) : u.pairs[c].first = u.pairs[d].first => c = d
  BY <1>3, <1>6 DEF TableOK
<1>9. Elements(u) = Elements(t) \ {<<t.pairs[b].first, t.pairs[b].second>>}
  BY <1>3, <1>6 DEF Elements, TableOK
<1>10. \A c \in Filled(u) : t.pairs[c].bucket = c => u.pairs[c].bucket = c
  BY <1>3, <1>5
<1> QED BY <1>0, <1>2, <1>3, <1>4, <1>6, <1>7, <1>8, <1>9, <1>10 DEF Lost, TableOK, Shape

\* The head of a chain is removed: the element that follows is pulled into it.
LEMMA PulledLost ==
  ASSUME NEW S, NoPair \notin PairSet(S), NEW t, TableOK(t, S),
         NEW b \in Filled(t), HashMain(t, b) = b,
         NEW next \in Filled(t), next # b, t.pairs[b].bucket = next,
         NEW u, u.size = t.size, u.filled = t.filled - 1,
         u.pairs = PairPulled(t, b, next)
  PROVE  Lost(t, u, S, b, next)
<1> DEFINE link == IF t.pairs[next].bucket = next THEN b ELSE t.pairs[next].bucket
           pulled == Pair(t.pairs[next].first, t.pairs[next].second, link)
<1>n. next \in Filled(t) /\ HashMain(t, next) = b
  <2>1. Link(t)[b] = next /\ Home(t)[b] = b /\ next \in Filled(t)
    BY FilledType
  <2>2. Home(t)[next] = b
    BY <2>1 DEF TableOK, SoundChains, WellChained, LinksStayInChain
  <2> QED BY <2>1, <2>2, FilledType
<1>0. b \in Buckets(t) /\ next \in Buckets(t) /\ Buckets(u) = Buckets(t)
  BY <1>n DEF Filled, Buckets
<1>1. pulled \in PairSet(S) /\ pulled # NoPair
  <2>1. t.pairs[next] \in PairSet(S) /\ b \in Nat
    BY <1>0, <1>n, FilledType
  <2>2. link \in Nat
    BY <2>1 DEF PairSet
  <2> HIDE DEF link
  <2> QED BY <2>1, <2>2 DEF Pair, PairSet
<1>2. /\ u.pairs \in [Buckets(t) -> PairSet(S) \cup {NoPair}]
      /\ u.pairs[next] = NoPair /\ u.pairs[b] = pulled
      /\ \A c \in Buckets(t) \ {b, next} : u.pairs[c] = t.pairs[c]
  <2>1. u.pairs = [[t.pairs EXCEPT ![b] = pulled] EXCEPT ![next] = NoPair]
    BY DEF PairPulled
  <2> HIDE DEF pulled
  <2> QED BY <2>1, <1>0, <1>1 DEF TableOK, Shape
<1> HIDE DEF pulled
<1>3. Filled(u) = Filled(t) \ {next}
  BY <1>0, <1>1, <1>2 DEF Filled
<1>4. u.filled = Cardinality(Filled(u))
  BY <1>3, <1>n, OneLess
<1>5. \A c \in Filled(t) \ {b, next} : u.pairs[c] = t.pairs[c]
  BY <1>2, FilledType
<1>6. /\ u.pairs[b].bucket = link
      /\ u.pairs[b].first = t.pairs[next].first /\ u.pairs[b].second = t.pairs[next].second
      /\ \A c \in Filled(u) \ {b} : /\ u.pairs[c].first = t.pairs[c].first
                                    /\ u.pairs[c].second = t.pairs[c].second
  BY <1>2, <1>3, <1>5 DEF Pair, pulled
<1>7. SoundChains(u)
  <2>1. \A c \in Filled(t) \ {next, b} : Link(u)[c] = Link(t)[c]
    BY <1>3, <1>5 DEF Link
  <2>2. \A c \in Filled(t) \ {next} : Home(u)[c] = Home(t)[c]
    BY <1>3, <1>6, <1>n DEF Home, HashMain, Main
  <2>3. Link(u)[b] = (IF Link(t)[next] = next THEN b ELSE Link(t)[next]) /\ Link(t)[b] = next
    BY <1>3, <1>6, <1>n DEF Link
  <2>4. Home(t)[next] # next /\ WellChained(Filled(t), Link(t), Home(t))
    BY <1>n, FilledType DEF TableOK, SoundChains
  <2>5. WellChained(Filled(t) \ {next}, Link(u), Home(u))
    <3> HIDE DEF link
    <3> QED BY <2>1, <2>2, <2>3, <2>4, DropNext, SMTT(60)
  <2> QED BY <2>5, <1>3 DEF SoundChains
<1> DEFINE from(c) == IF c = b THEN next ELSE c
<1>f. \A c \in Filled(u) : /\ from(c) \in Filled(t) \ {b}
                           /\ u.pairs[c].first = t.pairs[from(c)].first
                           /\ u.pairs[c].second = t.pairs[from(c)].second
  BY <1>3, <1>6, <1>n
<1>g. \A c \in Filled(t) \ {b} : \E d \in Filled(u) : from(d) = c
  BY <1>3, <1>n
<1>h. \A c, d \in Filled(u) : from(c) = from(d) => c = d
  BY <1>3
<1> HIDE DEF from, link
<1>8. \A c, d \in Filled(u) : u.pairs[c].first = u.pairs[d].first => c = d
  BY <1>f, <1>h DEF TableOK
<1>9. Elements(u) = Elements(t) \ {<<t.pairs[b].first, t.pairs[b].second>>}
  BY <1>f, <1>g DEF Elements, TableOK
<1> QED BY <1>0, <1>2, <1>3, <1>4, <1>6, <1>7, <1>8, <1>9, <1>n DEF Lost, TableOK, Shape

-----------------------------------------------------------------------------
(* The probe for an empty bucket: with a power of two of buckets, the      *)
(* distances of the first 2 * size turns meet every one.                   *)

\* The least set that holds 1 and twice each of its elements.
Powers == { s \in Nat \ {0} : \A D \in SUBSET Nat :
              1 \in D /\ (\A x \in D : 2 * x \in D) => s \in D }

LEMMA PowersDouble ==
  /\ 1 \in Powers /\ \A s \in Powers : s \in Nat \ {0} /\ 2 * s \in Powers
  /\ MinSize \in Powers
<1>1. 1 \in Powers
  BY DEF Powers
<1>2. ASSUME NEW s \in Powers PROVE s \in Nat \ {0} /\ 2 * s \in Powers
  <2>1. s \in Nat \ {0} /\ 2 * s \in Nat \ {0}
    BY DEF Powers
  <2>2. ASSUME NEW D \in SUBSET Nat, 1 \in D, \A x \in D : 2 * x \in D PROVE 2 * s \in D
    <3>1. s \in D
      BY <2>2 DEF Powers
    <3> QED BY <2>2, <3>1
  <2> QED BY <2>1, <2>2 DEF Powers
<1>3. 2 \in Powers /\ 4 \in Powers /\ 8 \in Powers
  <2>1. 2 * 1 = 2 /\ 2 * 2 = 4 /\ 2 * 4 = 8
    OBVIOUS
  <2> QED BY <1>1, <1>2, <2>1
<1> QED BY <1>1, <1>2, <1>3, DoublingAssumption

Divides(x, y) == \E q \in Int : y = x * q
Odd(x) == \E p \in Int : x = 2 * p + 1

\* A power of two that divides a product with an odd factor divides the other.
LEMMA OddFactor ==
  ASSUME NEW s \in Powers, NEW a \in Int, Odd(a), NEW b \in Int, Divides(s, a * b)
  PROVE  Divides(s, b)
<1> DEFINE D == { x \in Nat : \A y \in Int : Divides(x, a * y) => Divides(x, y) }
<1>1. 1 \in D
  <2>1. \A y \in Int : y = 1 * y
    OBVIOUS
  <2> QED BY <2>1 DEF Divides
<1>2. ASSUME NEW x \in D PROVE 2 * x \in D
  <2> SUFFICES ASSUME NEW y \in Int, Divides(2 * x, a * y) PROVE Divides(2 * x, y)
    OBVIOUS
  <2>0. x \in Nat
    OBVIOUS
  <2>1. PICK p \in Int : a = 2 * p + 1
    BY DEF Odd
  <2>2. PICK m \in Int : a * y = (2 * x) * m
    BY DEF Divides
  <2> DEFINE c == x * m - p * y
  <2>3. c \in Int
    BY <2>0
  <2>4. y = 2 * c
    <3>1. a * y = 2 * (p * y) + y
      BY <2>1
    <3>2. (2 * x) * m = 2 * (x * m) /\ x * m \in Int /\ p * y \in Int
      BY <2>0
    <3> QED BY <3>1, <3>2, <2>2
  <2> HIDE DEF c
  <2>5. a * c = x * m
    <3>1. a * (2 * c) = (2 * x) * m
      BY <2>2, <2>4
    <3>2. a * (2 * c) = 2 * (a * c) /\ (2 * x) * m = 2 * (x * m) /\ x * m \in Int /\ a * c \in Int
      BY <2>0, <2>3
    <3> QED BY <3>1, <3>2
  <2>6. Divides(x, a * c)
    BY <2>5 DEF Divides
  <2>7. Divides(x, c)
    BY <2>3, <2>6
  <2>8. PICK q \in Int : c = x * q
    BY <2>7 DEF Divides
  <2>9. y = (2 * x) * q
    BY <2>0, <2>4, <2>8
  <2> QED BY <2>9 DEF Divides
<1>3. s \in D
  <2>1. D \in SUBSET Nat
    OBVIOUS
  <2> HIDE DEF D
  <2> QED BY <1>1, <1>2, <2>1 DEF Powers
<1> QED BY <1>3

Triangle(j) == (j * (j + 1)) \div 2

LEMMA TriangleTwice ==
  ASSUME NEW j \in Nat
  PROVE  Triangle(j) \in Nat /\ 2 * Triangle(j) = j * (j + 1)
<1>1. PICK q \in Nat : j = 2 * q \/ j = 2 * q + 1
  <2>1. j \div 2 \in Nat /\ (j = 2 * (j \div 2) \/ j = 2 * (j \div 2) + 1)
    OBVIOUS
  <2> QED BY <2>1
<1>2. CASE j = 2 * q
  <2>1. j * (j + 1) = 2 * (q * (j + 1))
    BY <1>2
  <2>2. q * (j + 1) \in Nat
    OBVIOUS
  <2> DEFINE x == j * (j + 1)
             y == q * (j + 1)
  <2> HIDE DEF x, y
  <2>3. x = 2 * y /\ y \in Nat
    BY <2>1, <2>2 DEF x, y
  <2>4. x \div 2 = y
    BY <2>3
  <2> QED BY <2>3, <2>4 DEF Triangle, x
<1>3. CASE j = 2 * q + 1
  <2>1. j * (j + 1) = 2 * (j * (q + 1))
    BY <1>3
  <2>2. j * (q + 1) \in Nat
    OBVIOUS
  <2> DEFINE x == j * (j + 1)
             y == j * (q + 1)
  <2> HIDE DEF x, y
  <2>3. x = 2 * y /\ y \in Nat
    BY <2>1, <2>2 DEF x, y
  <2>4. x \div 2 = y
    BY <2>3
  <2> QED BY <2>3, <2>4 DEF Triangle, x
<1> QED BY <1>1, <1>2, <1>3

\* No two of the first s turns meet the same bucket.
LEMMA TurnsDiffer ==
  ASSUME NEW s \in Powers, NEW x \in Nat, NEW i \in 0 .. s - 1, NEW j \in 0 .. s - 1, i < j
  PROVE  (x + Triangle(i)) % s # (x + Triangle(j)) % s
<1> DEFINE a == Triangle(i)
           b == Triangle(j)
<1>0. s \in Nat \ {0} /\ 2 * s \in Powers /\ i \in Nat /\ j \in Nat /\ i < s /\ j < s
  BY PowersDouble
<1>1. a \in Nat /\ b \in Nat /\ 2 * a = i * (i + 1) /\ 2 * b = j * (j + 1)
  BY <1>0, TriangleTwice
<1> HIDE DEF a, b
<1> SUFFICES ASSUME (x + a) % s = (x + b) % s PROVE FALSE
  BY DEF a, b
<1>2. PICK m \in Int : b - a = s * m
  <2>1. x + a = s * ((x + a) \div s) + ((x + a) % s) /\ (x + a) \div s \in Int
    BY <1>0, <1>1
  <2>2. x + b = s * ((x + b) \div s) + ((x + b) % s) /\ (x + b) \div s \in Int
    BY <1>0, <1>1
  <2> DEFINE u == (x + a) \div s
             v == (x + b) \div s
  <2>3. b - a = s * v - s * u
    BY <2>1, <2>2, <1>1, <1>0
  <2>4. u \in Int /\ v \in Int
    BY <2>1, <2>2
  <2> HIDE DEF u, v
  <2>5. b - a = s * (v - u)
    BY <2>3, <2>4, <1>0
  <2> QED BY <2>4, <2>5
<1> DEFINE less == j - i
           more == i + j + 1
<1>3. Divides(2 * s, less * more) /\ Divides(2 * s, more * less)
  <2>1. less * more = j * (j + 1) - i * (i + 1) /\ more * less = less * more
    BY <1>0
  <2>2. j * (j + 1) - i * (i + 1) = 2 * (b - a)
    BY <1>1
  <2>3. 2 * (s * m) = (2 * s) * m
    BY <1>0
  <2>4. less * more = (2 * s) * m
    BY <2>1, <2>2, <2>3, <1>2
  <2> HIDE DEF less, more
  <2> QED BY <2>1, <2>4 DEF Divides
<1>4. Odd(less) \/ Odd(more)
  <2>1. PICK p \in Int : less = 2 * p + 1 \/ less = 2 * p
    <3>1. less \in Int
      BY <1>0
    <3> HIDE DEF less
    <3>2. less \div 2 \in Int /\ (less = 2 * (less \div 2) \/ less = 2 * (less \div 2) + 1)
      BY <3>1
    <3> QED BY <3>2
  <2>2. less = 2 * p => more = 2 * (i + p) + 1 /\ i + p \in Int
    BY <1>0
  <2> QED BY <2>1, <2>2 DEF Odd
<1>5. /\ less \in Int /\ less > 0 /\ less < 2 * s
      /\ more \in Int /\ more > 0 /\ more < 2 * s
  BY <1>0
<1> HIDE DEF less, more
<1>6. Divides(2 * s, less) \/ Divides(2 * s, more)
  BY <1>0, <1>3, <1>4, <1>5, OddFactor
<1>7. ASSUME NEW c \in Int, c > 0, c < 2 * s PROVE ~ Divides(2 * s, c)
  BY <1>0, <1>7 DEF Divides
<1> QED BY <1>5, <1>6, <1>7

LEMMA RemainderIs ==
  ASSUME NEW s \in Nat \ {0}, NEW k \in Nat, NEW r \in 0 .. s - 1
  PROVE  (s * k + r) % s = r
<1> DEFINE y == s * k + r
           q == y \div s
           m == y % s
<1>1. y \in Nat
  OBVIOUS
<1>2. y = s * q + m /\ m \in 0 .. s - 1 /\ q \in Int
  <2> HIDE DEF y
  <2> QED BY <1>1
<1> HIDE DEF q, m
<1>3. s * (k - q) = m - r
  BY <1>2
<1>4. k - q < 1
  <2> SUFFICES ASSUME k - q >= 1 PROVE FALSE
    BY <1>2
  <2>1. s * (k - q) >= s
    BY <1>2
  <2> QED BY <2>1, <1>2, <1>3
<1>5. k - q > -1
  <2> SUFFICES ASSUME k - q =< -1 PROVE FALSE
    BY <1>2
  <2>1. s * (k - q) =< - s
    BY <1>2
  <2> QED BY <2>1, <1>2, <1>3
<1>6. k = q
  BY <1>2, <1>4, <1>5
<1> QED BY <1>2, <1>6 DEF m

LEMMA TurnsMeetAll ==
  ASSUME NEW s \in Powers, NEW x \in Nat, NEW e \in 0 .. s - 1
  PROVE  \E j \in 1 .. 2 * s : (x + Triangle(j)) % s = e
<1> DEFINE at == [j \in 0 .. s - 1 |-> (x + Triangle(j)) % s]
<1>0. s \in Nat \ {0}
  BY PowersDouble
<1>1. at \in [0 .. s - 1 -> 0 .. s - 1]
  <2> SUFFICES ASSUME NEW j \in 0 .. s - 1 PROVE (x + Triangle(j)) % s \in 0 .. s - 1
    OBVIOUS
  <2>1. Triangle(j) \in Nat
    BY TriangleTwice
  <2> QED BY <2>1, <1>0
<1>2. \A i, j \in 0 .. s - 1 : i # j => at[i] # at[j]
  <2> SUFFICES ASSUME NEW i \in 0 .. s - 1, NEW j \in 0 .. s - 1, i < j PROVE at[i] # at[j]
    BY <1>0
  <2> QED BY TurnsDiffer
<1>3. \E j \in 0 .. s - 1 : at[j] = e
  <2> SUFFICES ASSUME \A j \in 0 .. s - 1 : at[j] # e PROVE FALSE
    OBVIOUS
  <2> HIDE DEF at
  <2>1. at \in [0 .. s - 1 -> (0 .. s - 1) \ {e}]
    BY <1>1
  <2>2. IsFiniteSet(0 .. s - 1) /\ Cardinality(0 .. s - 1) = s
    BY <1>0, FS_Interval
  <2>3. IsFiniteSet((0 .. s - 1) \ {e}) /\ Cardinality((0 .. s - 1) \ {e}) = s - 1
    BY <2>2, FS_RemoveElement
  <2>4. \E i, j \in 0 .. s - 1 : i # j /\ at[i] = at[j]
    BY <2>1, <2>2, <2>3, <1>0, FS_PigeonHole
  <2> QED BY <2>4, <1>2
<1>4. PICK j \in 0 .. s - 1 : (x + Triangle(j)) % s = e
  BY <1>3
<1>5. CASE j # 0
  BY <1>0, <1>4, <1>5
<1>6. CASE j = 0
  <2> DEFINE l == 2 * s - 1
  <2>1. l \in Nat /\ l \in 1 .. 2 * s
    BY <1>0
  <2>2. Triangle(0) = 0
    BY DEF Triangle
  <2>3. Triangle(l) = s * l
    <3>1. l * (l + 1) = 2 * (s * l) /\ s * l \in Nat
      BY <1>0, <2>1
    <3>2. Triangle(l) \in Nat /\ 2 * Triangle(l) = l * (l + 1)
      BY <2>1, TriangleTwice
    <3> HIDE DEF l
    <3> QED BY <3>1, <3>2
  <2>4. (x + s * l) % s = x % s
    <3> HIDE DEF l
    <3>1. x = s * (x \div s) + (x % s) /\ x % s \in 0 .. s - 1 /\ x \div s \in Nat
      BY <1>0
    <3> DEFINE k == x \div s + l
               r == x % s
    <3>2. x + s * l = s * k + r /\ k \in Nat /\ r \in 0 .. s - 1
      BY <1>0, <2>1, <3>1
    <3> HIDE DEF k, r
    <3>3. (s * k + r) % s = r
      BY <1>0, <3>2, RemainderIs
    <3> QED BY <3>2, <3>3 DEF r
  <2> QED BY <1>4, <1>6, <2>1, <2>2, <2>3, <2>4
<1> QED BY <1>5, <1>6

LEMMA FirstIsEmpty ==
  ASSUME NEW t, NEW places, DOMAIN places \subseteq Nat, SomeEmpty(t, places)
  PROVE  \E i \in DOMAIN places :
           FirstEmpty(t, places) = places[i] /\ places[i].at \in Empty(t)
<1> DEFINE I == { i \in DOMAIN places : places[i].at \in Empty(t) }
<1>1. I \in SUBSET Nat /\ I # {}
  BY DEF SomeEmpty
<1>2. Lowest(I) \in I
  <2> HIDE DEF I
  <2> QED BY <1>1, LowestIsIn
<1> QED BY <1>2 DEF FirstEmpty

LEMMA PlacesLookAt ==
  ASSUME NEW t, t.size \in Nat \ {0}, t.hint \in Nat, NEW from \in Nat, NEW j \in Nat \ {0}
  PROVE  LET p == Places(t, from, j)
         IN  /\ DOMAIN p \subseteq Nat /\ 1 \in DOMAIN p
             /\ p[1].at = (from + 3 + Triangle(j)) % t.size
             /\ \A i \in DOMAIN p : p[i].hint \in Nat
<1>1. \A i \in Nat : HintAfter(t, i) \in Nat /\ (i >= HintTurn => HintAfter(t, i) - 1 \in Nat)
  <2> SUFFICES ASSUME NEW i \in Nat
               PROVE  HintAfter(t, i) \in Nat /\ (i >= HintTurn => HintAfter(t, i) - 1 \in Nat)
    OBVIOUS
  <2>1. HintTurn \in Nat
    BY ProbeAssumption
  <2>2. CASE i < HintTurn
    BY <2>1, <2>2 DEF HintAfter
  <2>3. CASE ~ (i < HintTurn)
    <3> DEFINE x == t.hint + 2 * (i - HintTurn)
    <3>1. x \in Nat
      BY <2>1, <2>3
    <3> HIDE DEF x
    <3>2. x % t.size \in Nat
      BY <3>1
    <3> QED BY <3>2, <2>3, <2>1 DEF HintAfter, x
  <2> QED BY <2>2, <2>3
<1>2. HintAfter(t, j - 1) \in Nat /\ HintAfter(t, j) \in Nat
      /\ (~ (j < HintTurn) => HintAfter(t, j) - 1 \in Nat)
  BY <1>1, ProbeAssumption
<1>3. CASE j < HintTurn
  <2>1. DOMAIN Places(t, from, j) = 1 .. 2
    BY <1>3 DEF Places
  <2> QED BY <1>2, <1>3, <2>1 DEF Places, Triangle
<1>4. CASE ~ (j < HintTurn)
  <2>1. DOMAIN Places(t, from, j) = 1 .. 6
    BY <1>4 DEF Places
  <2> QED BY <1>2, <1>4, <2>1 DEF Places, Triangle
<1> QED BY <1>3, <1>4

\* find_empty_bucket finds one if there is one.
LEMMA ProbeFinds ==
  ASSUME NEW t, t.size \in Powers, t.hint \in Nat, NEW from \in Nat, Empty(t) # {}
  PROVE  /\ FindEmptyBucket(t, from).at \in Empty(t)
         /\ FindEmptyBucket(t, from).hint \in Nat
<1>0. t.size \in Nat \ {0}
  BY PowersDouble
<1> DEFINE hits == { i \in 1 .. 2 * t.size : SomeEmpty(t, Places(t, from, i)) }
           j == Lowest(hits)
<1>1. hits \in SUBSET Nat /\ hits # {}
  <2>1. PICK e \in Empty(t) : TRUE
    OBVIOUS
  <2>2. e \in 0 .. t.size - 1 /\ from + 3 \in Nat
    BY DEF Empty, Buckets
  <2> DEFINE x == from + 3
  <2>3. PICK i \in 1 .. 2 * t.size : (x + Triangle(i)) % t.size = e
    <3> HIDE DEF x
    <3> QED BY <2>2, TurnsMeetAll DEF x
  <2>4. i \in Nat \ {0}
    BY <1>0
  <2>5. 1 \in DOMAIN Places(t, from, i) /\ Places(t, from, i)[1].at = e
    BY <1>0, <2>3, <2>4, PlacesLookAt
  <2>6. SomeEmpty(t, Places(t, from, i))
    BY <2>1, <2>5 DEF SomeEmpty
  <2> QED BY <1>0, <2>6
<1>2. j \in 1 .. 2 * t.size /\ SomeEmpty(t, Places(t, from, j)) /\ j \in Nat \ {0}
  <2>1. Lowest(hits) \in hits
    <3> HIDE DEF hits
    <3> QED BY <1>1, LowestIsIn
  <2> QED BY <2>1, <1>0
<1> HIDE DEF j
<1>3. CASE SomeEmpty(t, Behind(t, from))
  <2> DEFINE p == Behind(t, from)
  <2>1. DOMAIN p = 1 .. 2 /\ p[1].hint = t.hint /\ p[2].hint = t.hint
    BY DEF Behind
  <2>2. DOMAIN p \subseteq Nat /\ \A i \in DOMAIN p : p[i].hint \in Nat
    BY <2>1
  <2> HIDE DEF p
  <2>3. PICK i \in DOMAIN p : FirstEmpty(t, p) = p[i] /\ p[i].at \in Empty(t)
    BY <1>3, <2>2, FirstIsEmpty DEF p
  <2> QED BY <1>3, <2>2, <2>3 DEF FindEmptyBucket, p
<1>4. CASE ~ SomeEmpty(t, Behind(t, from))
  <2> DEFINE p == Places(t, from, j)
  <2>1. DOMAIN p \subseteq Nat /\ \A i \in DOMAIN p : p[i].hint \in Nat
    BY <1>0, <1>2, PlacesLookAt
  <2>2. FindEmptyBucket(t, from) = FirstEmpty(t, p)
    BY <1>4 DEF FindEmptyBucket, j
  <2> HIDE DEF p
  <2>3. PICK i \in DOMAIN p : FirstEmpty(t, p) = p[i] /\ p[i].at \in Empty(t)
    BY <1>2, <2>1, FirstIsEmpty DEF p
  <2> QED BY <2>1, <2>2, <2>3
<1> QED BY <1>3, <1>4

-----------------------------------------------------------------------------
(* Placing a key that the table does not hold.                             *)

\* What every placement starts from.
Placeable(t, S) ==
  /\ IsTable(t) /\ TableOK(t, S) /\ t.size \in Powers /\ t.hint \in Nat /\ t.stuck = FALSE
  /\ Empty(t) # {}

\* u is t with k and v placed.
KeyPlaced(t, u, S, k, v) ==
  /\ Gained(t, u, S, k, v)
  /\ SameBut(t, u, {"pairs", "filled", "hint"}) /\ u.hint \in Nat

LEMMA NewIs ==
  ASSUME NEW t, IsTable(t), NEW b, NEW k, NEW v, NEW next
  PROVE  LET u == New(t, b, k, v, next)
         IN  /\ SameBut(t, u, {"pairs", "filled"}) /\ IsTable(u)
             /\ u.filled = t.filled + 1
             /\ u.pairs = [t.pairs EXCEPT ![b] = Pair(k, v, next)]
BY DEF New, With, SameBut, IsTable, Pair

LEMMA LinkedIs ==
  ASSUME NEW t, IsTable(t), NEW S, TableOK(t, S), NEW b \in Filled(t), NEW next
  PROVE  LET u == Linked(t, b, next)
         IN  /\ SameBut(t, u, {"pairs"}) /\ IsTable(u)
             /\ u.pairs = [t.pairs EXCEPT ![b] =
                             Pair(t.pairs[b].first, t.pairs[b].second, next)]
<1>1. t.pairs[b] \in PairSet(S)
  BY FilledType
<1> QED BY <1>1 DEF Linked, SameBut, IsTable, Pair, PairSet

LEMMA MovedIs ==
  ASSUME NEW t, IsTable(t), NEW S, TableOK(t, S),
         NEW b \in Filled(t), NEW p \in Filled(t), NEW n \in Empty(t), NEW hint
  PROVE  LET link == IF t.pairs[b].bucket = b THEN n ELSE t.pairs[b].bucket
             moved == With(t, n, [t.pairs[b] EXCEPT !.bucket = link])
             u == [With(Linked(moved, p, n), b, NoPair) EXCEPT !.hint = hint]
         IN  /\ SameBut(t, u, {"pairs", "hint"}) /\ IsTable(u) /\ u.hint = hint
             /\ u.pairs = GuestMoved(t, b, p, n)
<1> DEFINE link == IF t.pairs[b].bucket = b THEN n ELSE t.pairs[b].bucket
           moved == With(t, n, [t.pairs[b] EXCEPT !.bucket = link])
           next == Linked(moved, p, n)
<1>1. t.pairs[b] \in PairSet(S) /\ t.pairs[p] \in PairSet(S)
  BY FilledType
<1>2. n # p /\ p \in Buckets(t) /\ n \in Buckets(t) /\ t.pairs = [x \in Buckets(t) |-> t.pairs[x]]
  BY DEF Filled, Empty, TableOK, Shape
<1>3. /\ SameBut(t, moved, {"pairs"}) /\ IsTable(moved)
      /\ moved.pairs = [t.pairs EXCEPT ![n] = Pair(t.pairs[b].first, t.pairs[b].second, link)]
  BY <1>1 DEF With, SameBut, IsTable, Pair, PairSet
<1> HIDE DEF moved
<1>4. moved.pairs[p] = t.pairs[p]
  BY <1>2, <1>3
<1>5. /\ SameBut(t, next, {"pairs"}) /\ IsTable(next)
      /\ next.pairs = [moved.pairs EXCEPT ![p] = Pair(t.pairs[p].first, t.pairs[p].second, n)]
  BY <1>1, <1>3, <1>4 DEF Linked, SameBut, IsTable, Pair, PairSet
<1> HIDE DEF next
<1>6. LET u == [With(next, b, NoPair) EXCEPT !.hint = hint]
      IN  /\ SameBut(t, u, {"pairs", "hint"}) /\ IsTable(u) /\ u.hint = hint
          /\ u.pairs = [next.pairs EXCEPT ![b] = NoPair]
  BY <1>5 DEF With, SameBut, IsTable
<1> QED BY <1>3, <1>5, <1>6 DEF next, moved, GuestMoved

LEMMA KickoutOK ==
  ASSUME NEW S, NoPair \notin PairSet(S), NEW t, Placeable(t, S),
         NEW b \in Filled(t), HashMain(t, b) # b
  PROVE  LET u == Kickout(t, HashMain(t, b), b, FindEmptyBucket)
         IN  /\ Placeable(u, S) /\ u.size = t.size /\ u.filled = t.filled
             /\ Elements(u) = Elements(t) /\ b \in Empty(u)
             /\ SameBut(t, u, {"pairs", "hint"})
<1> DEFINE next == t.pairs[b].bucket
           hit == FindEmptyBucket(t, next)
           p == FindPrevBucket(t, HashMain(t, b), b)
           link == IF next = b THEN hit.at ELSE next
           moved == With(t, hit.at, [t.pairs[b] EXCEPT !.bucket = link])
           u == [With(Linked(moved, p, hit.at), b, NoPair) EXCEPT !.hint = hit.hint]
<1>1. ~ Full(t)
  BY DEF Placeable, Full
<1>2. Kickout(t, HashMain(t, b), b, FindEmptyBucket) = u
  BY <1>1 DEF Kickout
<1>3. next \in Nat
  <2>1. t.pairs[b] \in PairSet(S)
    BY FilledType DEF Placeable
  <2> QED BY <2>1 DEF PairSet
<1>4. hit.at \in Empty(t) /\ hit.hint \in Nat
  BY <1>3, ProbeFinds DEF Placeable
<1>5. p \in Filled(t) /\ p # b /\ t.pairs[p].bucket = b
  BY PrevLinks DEF Placeable
<1> DEFINE n == hit.at
           h == hit.hint
<1>6. /\ SameBut(t, u, {"pairs", "hint"}) /\ IsTable(u) /\ u.hint = h
      /\ u.pairs = GuestMoved(t, b, p, n)
  <2>1. u = [With(Linked(With(t, n, [t.pairs[b] EXCEPT !.bucket =
                    IF t.pairs[b].bucket = b THEN n ELSE t.pairs[b].bucket]), p, n), b, NoPair)
                EXCEPT !.hint = h]
    OBVIOUS
  <2>2. n \in Empty(t)
    BY <1>4
  <2> HIDE DEF p, n, h, u
  <2> QED BY <1>5, <2>1, <2>2, MovedIs DEF Placeable
<1> HIDE DEF u
<1>7. u.size = t.size /\ u.filled = t.filled /\ u.stuck = t.stuck
  BY <1>6 DEF SameBut, IsTable, Placeable
<1>8. TableOK(u, S) /\ Elements(u) = Elements(t) /\ b \in Empty(u)
  <2>2. n \in Empty(t)
    BY <1>4
  <2> HIDE DEF p, n
  <2> QED BY <1>5, <1>6, <1>7, <2>2, GuestMoves DEF Placeable
<1> QED BY <1>2, <1>4, <1>6, <1>7, <1>8 DEF Placeable

LEMMA LinkNewOK ==
  ASSUME NEW S, NoPair \notin PairSet(S), NEW t, Placeable(t, S),
         NEW k \in Key, k \notin Keys(t), NEW v \in S,
         NEW tail \in Filled(t), HashMain(t, tail) = Main(t, k), t.pairs[tail].bucket = tail,
         NEW from \in Nat
  PROVE  KeyPlaced(t, LinkNew(t, k, v, from, tail, FindEmptyBucket), S, k, v)
<1> DEFINE hit == FindEmptyBucket(t, from)
           n == hit.at
           linked == Linked(t, tail, n)
           new == New(linked, n, k, v, n)
           u == [new EXCEPT !.hint = hit.hint]
<1>1. LinkNew(t, k, v, from, tail, FindEmptyBucket) = u
  BY DEF LinkNew, Placeable, Full
<1>2. n \in Empty(t) /\ hit.hint \in Nat
  BY ProbeFinds DEF Placeable
<1> HIDE DEF hit
<1>3. /\ SameBut(t, linked, {"pairs"}) /\ IsTable(linked)
      /\ linked.pairs = [t.pairs EXCEPT ![tail] =
                           Pair(t.pairs[tail].first, t.pairs[tail].second, n)]
  <2> HIDE DEF n
  <2> QED BY LinkedIs DEF Placeable
<1> HIDE DEF linked
<1>4. /\ SameBut(linked, new, {"pairs", "filled"}) /\ IsTable(new)
      /\ new.filled = linked.filled + 1
      /\ new.pairs = [linked.pairs EXCEPT ![n] = Pair(k, v, n)]
  <2> HIDE DEF n
  <2> QED BY <1>3 DEF New, With, SameBut, IsTable, Pair
<1> HIDE DEF new
<1>5. /\ SameBut(t, u, {"pairs", "filled", "hint"}) /\ u.hint \in Nat
      /\ u.filled = t.filled + 1 /\ u.size = t.size
      /\ u.pairs = [[t.pairs EXCEPT ![tail] = Pair(t.pairs[tail].first, t.pairs[tail].second, n)]
                      EXCEPT ![n] = Pair(k, v, n)]
  BY <1>2, <1>3, <1>4 DEF SameBut, IsTable, Placeable
<1> HIDE DEF u, n
<1>6. Gained(t, u, S, k, v)
  BY <1>2, <1>5, NewAtTail DEF Placeable
<1> QED BY <1>1, <1>5, <1>6 DEF KeyPlaced

\* find_unique_bucket, and what the callers write into the bucket.
LEMMA FindUniqueBucketPlaces ==
  ASSUME NEW S, NoPair \notin PairSet(S), NEW t, Placeable(t, S),
         NEW k \in Key, k \notin Keys(t), NEW v \in S
  PROVE  KeyPlaced(t, FindUniqueBucket(t, k, v), S, k, v)
<1> DEFINE b == Main(t, k)
           u == FindUniqueBucket(t, k, v)
<1>0. b \in Buckets(t) /\ IsTable(t) /\ TableOK(t, S)
  BY MainInRange DEF Placeable, TableOK, Shape
<1>1. CASE b \in Empty(t)
  <2>1. u = New(t, b, k, v, b)
    BY <1>1 DEF FindUniqueBucket, Place
  <2>2. /\ SameBut(t, u, {"pairs", "filled"})
        /\ u.filled = t.filled + 1 /\ u.size = t.size /\ u.hint = t.hint
        /\ u.pairs = [t.pairs EXCEPT ![b] = Pair(k, v, b)]
    <3> HIDE DEF b, u
    <3>1. /\ SameBut(t, u, {"pairs", "filled"}) /\ u.filled = t.filled + 1
          /\ u.pairs = [t.pairs EXCEPT ![b] = Pair(k, v, b)]
      BY <2>1, <1>0, NewIs
    <3> QED BY <3>1, <1>0 DEF SameBut, IsTable
  <2> HIDE DEF u
  <2>3. Gained(t, u, S, k, v)
    BY <1>0, <1>1, <2>2, NewAtMain
  <2> QED BY <2>2, <2>3 DEF KeyPlaced, Placeable, SameBut, u
<1>2. CASE b \notin Empty(t) /\ HashMain(t, b) # b
  <2> DEFINE free == Kickout(t, HashMain(t, b), b, FindEmptyBucket)
  <2>1. b \in Filled(t)
    BY <1>0, <1>2 DEF Filled, Empty
  <2>2. /\ Placeable(free, S) /\ free.size = t.size /\ free.filled = t.filled
        /\ Elements(free) = Elements(t) /\ b \in Empty(free)
        /\ SameBut(t, free, {"pairs", "hint"})
    BY <1>2, <2>1, KickoutOK
  <2>3. u = New(free, b, k, v, b)
    BY <1>2, <2>2 DEF FindUniqueBucket, Place, Placeable
  <2> HIDE DEF free
  <2>4. b = Main(free, k)
    BY <2>2 DEF Main
  <2>5. k \notin Keys(free)
    BY <2>2, KeysAreFirsts
  <2>6. /\ SameBut(free, u, {"pairs", "filled"})
        /\ u.filled = free.filled + 1 /\ u.size = free.size /\ u.hint = free.hint
        /\ u.pairs = [free.pairs EXCEPT ![b] = Pair(k, v, b)]
    <3> HIDE DEF b, u
    <3>1. /\ SameBut(free, u, {"pairs", "filled"}) /\ u.filled = free.filled + 1
          /\ u.pairs = [free.pairs EXCEPT ![b] = Pair(k, v, b)]
      BY <2>3, <2>2, NewIs DEF Placeable
    <3> QED BY <3>1, <2>2 DEF SameBut, IsTable, Placeable
  <2> HIDE DEF u
  <2>7. Gained(free, u, S, k, v)
    <3> HIDE DEF b
    <3> QED BY <2>2, <2>4, <2>5, <2>6, NewAtMain DEF Placeable
  <2>8. Gained(t, u, S, k, v)
    BY <2>2, <2>7 DEF Gained
  <2> QED BY <2>2, <2>6, <2>8 DEF KeyPlaced, Placeable, SameBut, u
<1>3. CASE b \notin Empty(t) /\ HashMain(t, b) = b
  <2> DEFINE tail == FindLastBucket(t, b)
  <2>1. b \in Filled(t)
    BY <1>0, <1>3 DEF Filled, Empty
  <2>2. tail \in Filled(t) /\ HashMain(t, tail) = b /\ t.pairs[tail].bucket = tail
    BY <1>0, <1>3, <2>1, LastIsTail
  <2>3. tail \in Nat
    BY <1>0, <2>2, FilledType
  <2>4. u = LinkNew(t, k, v, tail, tail, FindEmptyBucket)
    BY <1>3 DEF FindUniqueBucket, Place, FromTail
  <2> HIDE DEF tail
  <2> QED BY <2>2, <2>3, <2>4, LinkNewOK
<1> QED BY <1>1, <1>2, <1>3

-----------------------------------------------------------------------------
(* Removing an element.                                                    *)

\* The seconds of the elements of a cache.
Entries == [value : Value, stamp : Nat]

LEMMA NoPairIsNone == NoPair \notin PairSet(Entries)
BY NoPairAssumption DEF PairSet, Entries

\* e is what an erasure of bucket b of t gives, before the bucket is cleared.
Erasure(t, e, b) ==
  LET u == Cleared(e.t, e.freed)
  IN  /\ Lost(t, u, Entries, b, e.freed)
      /\ SameBut(t, u, {"pairs", "filled"}) /\ IsTable(u)
      /\ Stamp(e.t, e.freed) = Stamp(t, b)
      /\ t.pairs[b].bucket = b \/ HashMain(t, b) # b => e.freed = b
      /\ e.freed = b => \A c \in Filled(u) : t.pairs[c].bucket = c => u.pairs[c].bucket = c

LEMMA ClearedIs ==
  ASSUME NEW t, IsTable(t), NEW b
  PROVE  LET u == Cleared(t, b)
         IN  /\ SameBut(t, u, {"pairs", "filled"}) /\ IsTable(u)
             /\ u.filled = t.filled - 1 /\ u.pairs = [t.pairs EXCEPT ![b] = NoPair]
BY DEF Cleared, With, SameBut, IsTable

LEMMA UnlinkIs ==
  ASSUME NEW t, IsTable(t), TableOK(t, Entries), NEW b \in Filled(t), HashMain(t, b) # b
  PROVE  Erasure(t, Unlink(t, HashMain(t, b), b), b)
<1> DEFINE p == FindPrevBucket(t, HashMain(t, b), b)
           link == IF t.pairs[b].bucket = b THEN p ELSE t.pairs[b].bucket
           m == Linked(t, p, link)
           e == Unlink(t, HashMain(t, b), b)
           u == Cleared(m, b)
<1>1. p \in Filled(t) /\ p # b /\ t.pairs[p].bucket = b
  BY PrevLinks
<1>2. e.t = m /\ e.freed = b
  BY DEF Unlink
<1>3. /\ SameBut(t, m, {"pairs"}) /\ IsTable(m)
      /\ m.pairs = [t.pairs EXCEPT ![p] = Pair(t.pairs[p].first, t.pairs[p].second, link)]
  <2> HIDE DEF p, link
  <2> QED BY <1>1, LinkedIs
<1> HIDE DEF m
<1>4. /\ SameBut(m, u, {"pairs", "filled"}) /\ IsTable(u)
      /\ u.filled = m.filled - 1 /\ u.pairs = [m.pairs EXCEPT ![b] = NoPair]
  BY <1>3, ClearedIs
<1> HIDE DEF u
<1>5. /\ SameBut(t, u, {"pairs", "filled"}) /\ u.filled = t.filled - 1 /\ u.size = t.size
      /\ u.pairs = PairUnlinked(t, b, p)
  BY <1>3, <1>4 DEF SameBut, IsTable, PairUnlinked
<1>6. /\ Lost(t, u, Entries, b, b)
      /\ \A c \in Filled(u) : t.pairs[c].bucket = c => u.pairs[c].bucket = c
  <2> HIDE DEF p
  <2> QED BY <1>1, <1>5, NoPairIsNone, UnlinkedLost
<1>7. Stamp(m, b) = Stamp(t, b)
  <2>1. b \in Buckets(t) /\ t.pairs = [x \in Buckets(t) |-> t.pairs[x]]
    BY DEF Filled, TableOK, Shape
  <2>2. m.pairs[b] = t.pairs[b]
    BY <2>1, <1>1, <1>3
  <2> QED BY <2>2 DEF Stamp
<1>8. Cleared(e.t, e.freed) = u /\ Stamp(e.t, e.freed) = Stamp(t, b) /\ e.freed = b
  BY <1>2, <1>7 DEF u
<1> HIDE DEF e
<1> QED BY <1>4, <1>5, <1>6, <1>8 DEF Erasure, e

LEMMA StampedIs ==
  ASSUME NEW t, IsTable(t), NEW b \in DOMAIN t.pairs, NEW n, NEW k, NEW s \in Entries, NEW link,
         t.pairs[b] = Pair(k, s, link)
  PROVE  LET u == Stamped(t, b, n)
         IN  /\ SameBut(t, u, {"pairs"}) /\ IsTable(u)
             /\ u.pairs = [t.pairs EXCEPT ![b] = Pair(k, [value |-> s.value, stamp |-> n], link)]
<1>1. [t.pairs[b] EXCEPT !.second = [t.pairs[b].second EXCEPT !.stamp = n]]
        = Pair(k, [value |-> s.value, stamp |-> n], link)
  <2>1. [s EXCEPT !.stamp = n] = [value |-> s.value, stamp |-> n]
    BY DEF Entries
  <2>2. t.pairs[b].second = s
    BY DEF Pair
  <2>3. [t.pairs[b] EXCEPT !.second = [value |-> s.value, stamp |-> n]]
          = Pair(k, [value |-> s.value, stamp |-> n], link)
    BY DEF Pair
  <2> QED BY <2>1, <2>2, <2>3
<1>2. Stamped(t, b, n) = [t EXCEPT !.pairs = [t.pairs EXCEPT ![b] =
                            [t.pairs[b] EXCEPT !.second = [t.pairs[b].second EXCEPT !.stamp = n]]]]
  BY DEF Stamped
<1>3. Stamped(t, b, n) = [t EXCEPT !.pairs = [t.pairs EXCEPT ![b] =
                            Pair(k, [value |-> s.value, stamp |-> n], link)]]
  BY <1>1, <1>2
<1> QED BY <1>3 DEF SameBut, IsTable

LEMMA MoveIntoIs ==
  ASSUME NEW t, IsTable(t), TableOK(t, Entries), NEW a \in Filled(t), NEW b \in Filled(t)
  PROVE  LET u == MoveInto(t, a, b)
         IN  /\ SameBut(t, u, {"pairs"}) /\ IsTable(u)
             /\ u.pairs = [t.pairs EXCEPT ![a] =
                             Pair(t.pairs[b].first, t.pairs[b].second, t.pairs[a].bucket)]
<1>1. t.pairs[b] \in PairSet(Entries)
  BY FilledType
<1>2. [t.pairs[b] EXCEPT !.bucket = t.pairs[a].bucket]
        = Pair(t.pairs[b].first, t.pairs[b].second, t.pairs[a].bucket)
  BY <1>1 DEF Pair, PairSet
<1>3. MoveInto(t, a, b) = [t EXCEPT !.pairs = [t.pairs EXCEPT ![a] =
                             Pair(t.pairs[b].first, t.pairs[b].second, t.pairs[a].bucket)]]
  BY <1>2 DEF MoveInto, With
<1> QED BY <1>3 DEF SameBut, IsTable

LEMMA PulledIs ==
  ASSUME NEW t, IsTable(t), TableOK(t, Entries), NEW b \in Filled(t), HashMain(t, b) = b,
         NEW next \in Filled(t), next # b, t.pairs[b].bucket = next
  PROVE  Erasure(t, Pulled(t, b), b)
<1> DEFINE link == IF t.pairs[next].bucket = next THEN b ELSE t.pairs[next].bucket
           moved == MoveInto(t, b, next)
           m == Linked(moved, b, link)
           w == Stamped(m, next, Stamp(t, b))
           e == Pulled(t, b)
           u == Cleared(w, next)
           k == t.pairs[next].first
           s == t.pairs[next].second
<1>1. /\ t.pairs[b] \in PairSet(Entries) /\ t.pairs[next] \in PairSet(Entries)
      /\ b \in Buckets(t) /\ next \in Buckets(t)
      /\ t.pairs = [x \in Buckets(t) |-> t.pairs[x]]
  BY FilledType DEF Filled, TableOK, Shape
<1>2. e.t = w /\ e.freed = next
  BY DEF Pulled, PullNext
<1>3. /\ SameBut(t, moved, {"pairs"}) /\ IsTable(moved)
      /\ moved.pairs = [t.pairs EXCEPT ![b] = Pair(k, s, next)]
  BY MoveIntoIs
<1> HIDE DEF moved
<1>4. /\ SameBut(t, m, {"pairs"}) /\ IsTable(m)
      /\ m.pairs = [t.pairs EXCEPT ![b] = Pair(k, s, link)]
  <2> HIDE DEF link, k, s
  <2>1. moved.pairs[b] = Pair(k, s, next)
    BY <1>1, <1>3
  <2>2. /\ SameBut(moved, m, {"pairs"}) /\ IsTable(m)
        /\ m.pairs = [moved.pairs EXCEPT ![b] = [moved.pairs[b] EXCEPT !.bucket = link]]
    BY <1>3 DEF Linked, SameBut, IsTable
  <2> HIDE DEF m
  <2>3. [moved.pairs[b] EXCEPT !.bucket = link] = Pair(k, s, link)
    BY <2>1 DEF Pair
  <2>4. [moved.pairs EXCEPT ![b] = Pair(k, s, link)] = [t.pairs EXCEPT ![b] = Pair(k, s, link)]
    BY <1>1, <1>3
  <2> QED BY <1>3, <2>2, <2>3, <2>4 DEF SameBut, IsTable
<1> HIDE DEF m
<1>5. m.pairs[next] = Pair(k, s, t.pairs[next].bucket) /\ next \in DOMAIN m.pairs /\ s \in Entries
  <2>1. m.pairs[next] = t.pairs[next] /\ next \in DOMAIN m.pairs
    BY <1>1, <1>4
  <2>2. t.pairs[next] = Pair(k, s, t.pairs[next].bucket) /\ s \in Entries
    BY <1>1 DEF Pair, PairSet
  <2> QED BY <2>1, <2>2
<1> DEFINE wiped == Pair(k, [value |-> s.value, stamp |-> Stamp(t, b)], t.pairs[next].bucket)
<1>6. /\ SameBut(t, w, {"pairs"}) /\ IsTable(w)
      /\ w.pairs = [m.pairs EXCEPT ![next] = wiped]
  <2>1. /\ SameBut(m, w, {"pairs"}) /\ IsTable(w)
        /\ w.pairs = [m.pairs EXCEPT ![next] = wiped]
    <3> HIDE DEF k, s
    <3> QED BY <1>4, <1>5, StampedIs
  <2> QED BY <1>4, <2>1 DEF SameBut, IsTable
<1> HIDE DEF w
<1>7. Stamp(w, next) = Stamp(t, b)
  <2>1. w.pairs[next] = wiped
    BY <1>5, <1>6
  <2> QED BY <2>1 DEF Stamp, Pair
<1> HIDE DEF wiped
<1>8. /\ SameBut(w, u, {"pairs", "filled"}) /\ IsTable(u)
      /\ u.filled = w.filled - 1 /\ u.pairs = [w.pairs EXCEPT ![next] = NoPair]
  BY <1>6, ClearedIs
<1> HIDE DEF u
<1>9. /\ SameBut(t, u, {"pairs", "filled"}) /\ u.filled = t.filled - 1 /\ u.size = t.size
      /\ u.pairs = PairPulled(t, b, next)
  <2>1. [w.pairs EXCEPT ![next] = NoPair] = [m.pairs EXCEPT ![next] = NoPair]
    <3>1. w.pairs = [m.pairs EXCEPT ![next] = wiped]
      BY <1>6
    <3> QED BY <3>1
  <2>2. u.pairs = PairPulled(t, b, next)
    BY <2>1, <1>4, <1>8 DEF PairPulled
  <2> QED BY <2>2, <1>4, <1>6, <1>8 DEF SameBut, IsTable
<1>10. Lost(t, u, Entries, b, next)
  BY <1>9, NoPairIsNone, PulledLost
<1>11. Cleared(e.t, e.freed) = u /\ Stamp(e.t, e.freed) = Stamp(t, b) /\ e.freed = next
  BY <1>2, <1>7 DEF u
<1> HIDE DEF e
<1> QED BY <1>8, <1>9, <1>10, <1>11 DEF Erasure, e

\* erase_bucket: the stamp that is left in the bucket given up is the one of
\* the erased element.
LEMMA EraseBucketErases ==
  ASSUME NEW t, IsTable(t), TableOK(t, Entries), NEW b \in Filled(t)
  PROVE  Erasure(t, EraseBucket(t, b), b)
<1>1. CASE HashMain(t, b) # b
  BY <1>1, UnlinkIs DEF EraseBucket
<1>2. CASE HashMain(t, b) = b /\ t.pairs[b].bucket # b
  <2>1. t.pairs[b].bucket \in Filled(t)
    BY FilledType
  <2>2. EraseBucket(t, b) = Pulled(t, b)
    BY <1>2 DEF EraseBucket
  <2> QED BY <1>2, <2>1, <2>2, PulledIs
<1>3. CASE HashMain(t, b) = b /\ t.pairs[b].bucket = b
  <2> DEFINE u == Cleared(t, b)
             e == EraseBucket(t, b)
  <2>1. e = [t |-> t, freed |-> b]
    BY <1>3 DEF EraseBucket
  <2>2. /\ SameBut(t, u, {"pairs", "filled"}) /\ IsTable(u) /\ u.size = t.size
        /\ u.filled = t.filled - 1 /\ u.pairs = [t.pairs EXCEPT ![b] = NoPair]
    <3>1. /\ SameBut(t, u, {"pairs", "filled"}) /\ IsTable(u)
          /\ u.filled = t.filled - 1 /\ u.pairs = [t.pairs EXCEPT ![b] = NoPair]
      BY ClearedIs
    <3> HIDE DEF u
    <3> QED BY <3>1 DEF SameBut, IsTable
  <2>3. Cleared(e.t, e.freed) = u /\ Stamp(e.t, e.freed) = Stamp(t, b) /\ e.freed = b
    BY <2>1
  <2> HIDE DEF u, e
  <2>4. Lost(t, u, Entries, b, b) /\ \A c \in Filled(u) : u.pairs[c] = t.pairs[c]
    BY <1>3, <2>2, AloneLost
  <2> QED BY <2>2, <2>3, <2>4 DEF Erasure, e
<1> QED BY <1>1, <1>2, <1>3

\* erase_key looks for the key first.
LEMMA EraseKeyErases ==
  ASSUME NEW t, IsTable(t), TableOK(t, Entries), NEW k \in Key, Find(t, k) # t.size
  PROVE  /\ Find(t, k) \in Filled(t) /\ t.pairs[Find(t, k)].first = k
         /\ EraseKey(t, k) = EraseBucket(t, Find(t, k))
<1>1. Find(t, k) \in Filled(t) /\ t.pairs[Find(t, k)].first = k
  BY FindStored
<1> QED BY <1>1 DEF EraseKey, EraseBucket, HashMain

-----------------------------------------------------------------------------
(* Searching, and writing over.                                            *)

LEMMA ElementFound ==
  ASSUME NEW t, TableOK(t, Entries), NEW k \in Key
  PROVE  /\ k \notin Keys(t) => Find(t, k) = t.size
         /\ k \in Keys(t) => /\ Find(t, k) # t.size /\ Find(t, k) \in Filled(t)
                             /\ t.pairs[Find(t, k)].first = k
                             /\ <<k, t.pairs[Find(t, k)].second>> \in Elements(t)
         /\ \A s : <<k, s>> \in Elements(t) =>
              s \in Entries /\ k \in Keys(t) /\ s = t.pairs[Find(t, k)].second
              /\ ValueOf(t, k) = s.value /\ StampOf(t, k) = s.stamp
<1>1. k \notin Keys(t) => Find(t, k) = t.size
  BY FindStored
<1>2. k \in Keys(t) => /\ Find(t, k) # t.size /\ Find(t, k) \in Filled(t)
                       /\ t.pairs[Find(t, k)].first = k
                       /\ <<k, t.pairs[Find(t, k)].second>> \in Elements(t)
  BY FindStored
<1>3. ASSUME NEW s, <<k, s>> \in Elements(t)
      PROVE  s \in Entries /\ k \in Keys(t) /\ s = t.pairs[Find(t, k)].second
  <2>1. Find(t, k) # t.size /\ s = t.pairs[Find(t, k)].second
    BY <1>3, FindStored
  <2>2. k \in Keys(t) /\ Find(t, k) \in Filled(t)
    BY <2>1, FindStored
  <2>3. t.pairs[Find(t, k)] \in PairSet(Entries)
    BY <2>2, FilledType
  <2> QED BY <2>1, <2>2, <2>3 DEF PairSet
<1> QED BY <1>1, <1>2, <1>3 DEF ValueOf, StampOf, Stamp

\* No key has two elements, and each is an entry.
LEMMA ElementsType ==
  ASSUME NEW t, TableOK(t, Entries)
  PROVE  /\ \A x \in Elements(t) : x = <<x[1], x[2]>> /\ x[1] \in Key /\ x[2] \in Entries
         /\ \A x, y \in Elements(t) : x[1] = y[1] => x = y
         /\ Keys(t) \subseteq Key
<1>1. \A b \in Filled(t) : t.pairs[b].first \in Key /\ t.pairs[b].second \in Entries
  <2>1. \A b \in Filled(t) : t.pairs[b] \in PairSet(Entries)
    BY FilledType
  <2> QED BY <2>1 DEF PairSet
<1>2. \A x \in Elements(t) : x = <<x[1], x[2]>> /\ x[1] \in Key /\ x[2] \in Entries
  BY <1>1 DEF Elements
<1>3. ASSUME NEW x \in Elements(t), NEW y \in Elements(t), x[1] = y[1] PROVE x = y
  <2>1. PICK a \in Filled(t) : x = <<t.pairs[a].first, t.pairs[a].second>>
    BY DEF Elements
  <2>2. PICK b \in Filled(t) : y = <<t.pairs[b].first, t.pairs[b].second>>
    BY DEF Elements
  <2>3. a = b
    BY <1>3, <2>1, <2>2 DEF TableOK
  <2> QED BY <2>1, <2>2, <2>3
<1> QED BY <1>1, <1>2, <1>3 DEF Keys

\* As many elements as the counter says.
LEMMA ElementsCount ==
  ASSUME NEW t, TableOK(t, Entries)
  PROVE  IsFiniteSet(Elements(t)) /\ Cardinality(Elements(t)) = t.filled
<1> DEFINE F == Filled(t)
           E == Elements(t)
           f == [b \in F |-> <<t.pairs[b].first, t.pairs[b].second>>]
<1>1. IsFiniteSet(F)
  BY FilledType
<1>2. /\ f \in [F -> E] /\ \A e \in E : \E b \in F : f[b] = e
      /\ \A a, b \in F : f[a] = f[b] => a = b
  BY DEF Elements, TableOK
<1> HIDE DEF f, F, E
<1>3. f \in Surjection(F, E) /\ f \in Injection(F, E)
  BY <1>2 DEF Surjection, Injection, IsInjective
<1>4. IsFiniteSet(E) /\ Cardinality(E) = Cardinality(F)
  BY <1>1, <1>3, FS_Surjection
<1> QED BY <1>4 DEF TableOK, F, E

\* The stamp of a bucket is written.
LEMMA StampWritten ==
  ASSUME NEW t, IsTable(t), TableOK(t, Entries), NEW b \in Filled(t), NEW n \in Nat
  PROVE  LET u == Stamped(t, b, n)
             k == t.pairs[b].first
             s == t.pairs[b].second
         IN  /\ SameBut(t, u, {"pairs"}) /\ IsTable(u)
             /\ k \in Key /\ s \in Entries /\ [value |-> s.value, stamp |-> n] \in Entries
             /\ Rewritten(t, u, Entries, b, k, [value |-> s.value, stamp |-> n])
             /\ \A c \in Filled(t) : u.pairs[c].bucket = t.pairs[c].bucket
                                     /\ HashMain(u, c) = HashMain(t, c)
<1> DEFINE u == Stamped(t, b, n)
           k == t.pairs[b].first
           s == t.pairs[b].second
           new == [value |-> s.value, stamp |-> n]
<1>1. k \in Key /\ s \in Entries /\ t.pairs[b] = Pair(k, s, t.pairs[b].bucket)
  <2>1. t.pairs[b] \in PairSet(Entries)
    BY FilledType
  <2> QED BY <2>1 DEF PairSet, Pair
<1>2. new \in Entries
  BY <1>1 DEF Entries
<1>3. b \in DOMAIN t.pairs
  BY DEF TableOK, Shape, Filled
<1>4. /\ SameBut(t, u, {"pairs"}) /\ IsTable(u)
      /\ u.pairs = [t.pairs EXCEPT ![b] = Pair(k, new, t.pairs[b].bucket)]
  <2> HIDE DEF k, s
  <2> QED BY <1>1, <1>3, StampedIs
<1> HIDE DEF u, new
<1>5. u.size = t.size /\ u.filled = t.filled
  BY <1>4 DEF SameBut, IsTable
<1>6. Main(t, k) = HashMain(t, b) /\ \A c \in Filled(t) : t.pairs[c].first = k => c = b
  BY DEF HashMain, TableOK
<1>7. Rewritten(t, u, Entries, b, k, new)
  <2> HIDE DEF k
  <2> QED BY <1>1, <1>2, <1>4, <1>5, <1>6, NoPairIsNone, WriteOver
<1>8. \A c \in Filled(t) : u.pairs[c].bucket = t.pairs[c].bucket /\ HashMain(u, c) = HashMain(t, c)
  <2>1. \A c \in Filled(t) : c # b => u.pairs[c] = t.pairs[c]
    BY <1>3, <1>4 DEF TableOK, Shape, Filled
  <2>2. u.pairs[b].bucket = t.pairs[b].bucket /\ u.pairs[b].first = t.pairs[b].first
    BY <1>3, <1>4 DEF Pair
  <2> QED BY <1>5, <2>1, <2>2 DEF HashMain, Main
<1> QED BY <1>1, <1>2, <1>4, <1>7, <1>8 DEF u, new

LEMMA ExchangeSame ==
  ASSUME NEW t, IsTable(t), TableOK(t, Entries), NEW a \in Filled(t), NEW b \in Filled(t),
         a # b, HashMain(t, a) = HashMain(t, b)
  PROVE  LET u == Exchange(t, a, b)
         IN  /\ SameBut(t, u, {"pairs"}) /\ IsTable(u)
             /\ TableOK(u, Entries) /\ Elements(u) = Elements(t)
             /\ Filled(u) = Filled(t) /\ u.size = t.size /\ u.filled = t.filled
             /\ u.pairs[a].first = t.pairs[b].first /\ u.pairs[a].second = t.pairs[b].second
<1> DEFINE u == Exchange(t, a, b)
           newA == Pair(t.pairs[b].first, t.pairs[b].second, t.pairs[a].bucket)
           newB == Pair(t.pairs[a].first, t.pairs[a].second, t.pairs[b].bucket)
<1>1. t.pairs[a] \in PairSet(Entries) /\ t.pairs[b] \in PairSet(Entries) /\ a \in DOMAIN t.pairs
  BY FilledType DEF TableOK, Shape, Filled
<1>2. /\ [t.pairs[b] EXCEPT !.bucket = t.pairs[a].bucket] = newA
      /\ [t.pairs[a] EXCEPT !.bucket = t.pairs[b].bucket] = newB
  BY <1>1 DEF PairSet, Pair
<1>3. u = [t EXCEPT !.pairs = [[t.pairs EXCEPT ![a] = newA] EXCEPT ![b] = newB]]
  <2> HIDE DEF newA, newB
  <2> QED BY <1>2 DEF Exchange, IsTable
<1>4. /\ SameBut(t, u, {"pairs"}) /\ IsTable(u) /\ u.size = t.size /\ u.filled = t.filled
      /\ u.pairs = [[t.pairs EXCEPT ![a] = newA] EXCEPT ![b] = newB]
  <2> HIDE DEF newA, newB
  <2> QED BY <1>3 DEF SameBut, IsTable
<1> HIDE DEF u
<1>5. TableOK(u, Entries) /\ Elements(u) = Elements(t) /\ Filled(u) = Filled(t)
  BY <1>4, NoPairIsNone, PlacesChanged
<1>6. u.pairs[a] = newA
  <2> HIDE DEF newA, newB
  <2> QED BY <1>1, <1>4
<1> QED BY <1>4, <1>5, <1>6 DEF Pair, u

-----------------------------------------------------------------------------
(* Growing.                                                                *)

\* The doubling gives a power of two, and room for n elements.
LEMMA BucketsForEnough ==
  ASSUME NEW n \in Nat
  PROVE  BucketsFor(n) \in Powers /\ BucketsFor(n) >= n
<1> DEFINE turn(y) == IF y < n THEN 2 * y ELSE y
           s == [i \in 1 .. n |-> [y \in Powers |-> turn(y)]]
<1>1. \A y \in Powers : turn(y) \in Powers
  BY PowersDouble
<1>2. PICK g \in [0 .. n -> Powers] : IsRun(g, s, MinSize, n)
  <2>1. \A i \in 1 .. n, y \in Powers : s[i][y] \in Powers
    BY <1>1
  <2> HIDE DEF s
  <2> QED BY <2>1, PowersDouble, RunExists
<1> DEFINE T(h) == [i \in 0 .. n |-> IF i = 0 THEN MinSize ELSE turn(h[i - 1])]
           f == CHOOSE h : h = T(h)
<1>3. f = T(f)
  <2>1. \A i \in 0 .. n : g[i] = IF i = 0 THEN MinSize ELSE turn(g[i - 1])
    <3>1. \A i \in 0 .. n : i # 0 => i \in 1 .. n /\ i - 1 \in 0 .. n
      OBVIOUS
    <3>2. \A i \in 1 .. n : s[i][g[i - 1]] = turn(g[i - 1])
      BY <3>1
    <3> HIDE DEF s, turn
    <3> QED BY <1>2, <3>1, <3>2 DEF IsRun
  <2>2. g = T(g)
    BY <2>1, <1>2
  <2> HIDE DEF T
  <2> QED BY <2>2
<1>4. BucketsFor(n) = f[n]
  BY DEF BucketsFor, Iterate
<1> HIDE DEF f
<1>5. /\ f[0] = MinSize
      /\ \A i \in 0 .. n - 1 : f[i + 1] = turn(f[i])
  <2>1. 0 \in 0 .. n /\ \A i \in 0 .. n - 1 : i + 1 \in 0 .. n /\ i + 1 # 0 /\ (i + 1) - 1 = i
    OBVIOUS
  <2> HIDE DEF turn
  <2> QED BY <1>3, <2>1
\* Each turn doubles, or the size is already enough.
<1> DEFINE D == { i \in 0 .. n : f[i] \in Powers /\ (f[i] >= n \/ f[i] > i) }
<1>6. 0 \in D
  BY <1>5, PowersDouble
<1>7. ASSUME NEW i \in 0 .. n - 1, i \in D PROVE i + 1 \in D
  <2>1. f[i] \in Nat \ {0} /\ i + 1 \in 0 .. n
    BY <1>7, PowersDouble
  <2>2. f[i + 1] \in Powers
    BY <1>1, <1>5, <1>7
  <2>3. f[i + 1] >= n \/ f[i + 1] > i + 1
    BY <1>5, <1>7, <2>1
  <2> QED BY <2>1, <2>2, <2>3
<1>8. n \in D
  <2>1. \A i \in 0 .. n : i \in D
    <3> HIDE DEF D
    <3> QED BY <1>6, <1>7, UpTo
  <2> QED BY <2>1
<1>9. f[n] \in Nat
  BY <1>8, PowersDouble
<1> QED BY <1>4, <1>8, <1>9

LEMMA QuotientAtLeast ==
  ASSUME NEW a \in Nat, NEW d \in Nat \ {0}, NEW q \in Nat, q * d =< a
  PROVE  a \div d \in Nat /\ a \div d >= q
<1> DEFINE x == a \div d
           r == a % d
<1>1. a = d * x + r /\ r \in 0 .. d - 1 /\ x \in Nat
  OBVIOUS
<1> HIDE DEF x, r
<1> SUFFICES ASSUME x < q PROVE FALSE
  BY <1>1 DEF x
<1>2. d * (x + 1) =< d * q
  <2>1. q - (x + 1) \in Nat
    BY <1>1
  <2>2. d * (q - (x + 1)) >= 0
    BY <2>1
  <2> QED BY <2>2, <1>1
<1>3. d * (x + 1) = d * x + d /\ d * x \in Nat /\ d * q = q * d /\ d * q \in Nat
  BY <1>1
<1> QED BY <1>1, <1>2, <1>3

\* No bucket is shared: at least as many are required as there are elements.
LEMMA RequiredEnough ==
  ASSUME NEW mlf \in Nat, mlf >= FixedOne, NEW n \in Nat
  PROVE  (n * mlf) \div FixedOne \in Nat /\ (n * mlf) \div FixedOne >= n
<1>1. FixedOne \in Nat \ {0} /\ n * mlf \in Nat
  BY SizeAssumption
<1>2. n * FixedOne =< n * mlf
  <2>1. mlf - FixedOne \in Nat
    BY <1>1
  <2>2. n * (mlf - FixedOne) >= 0
    BY <2>1
  <2> QED BY <2>2, <1>1
<1> DEFINE a == n * mlf
<1> HIDE DEF a
<1>3. a \in Nat /\ n * FixedOne =< a
  BY <1>1, <1>2 DEF a
<1>4. a \div FixedOne \in Nat /\ a \div FixedOne >= n
  BY <1>1, <1>3, QuotientAtLeast
<1> QED BY <1>4 DEF a

LEMMA LoadInRange ==
  ASSUME NEW lf \in 201 .. 949
  PROVE  (FixedOne * 1000) \div lf \in Nat /\ (FixedOne * 1000) \div lf >= FixedOne
<1>1. FixedOne \in Nat /\ FixedOne * 1000 \in Nat /\ lf \in Nat \ {0}
  BY SizeAssumption
<1>2. FixedOne * lf =< FixedOne * 1000
  <2>1. FixedOne * (1000 - lf) >= 0
    BY <1>1
  <2> QED BY <1>1, <2>1
<1> DEFINE a == FixedOne * 1000
<1> HIDE DEF a
<1>3. a \div lf \in Nat /\ a \div lf >= FixedOne
  <2>1. a \in Nat /\ FixedOne * lf =< a
    BY <1>1, <1>2 DEF a
  <2> QED BY <1>1, <2>1, QuotientAtLeast
<1> QED BY <1>3 DEF a

\* A table that a placement has changed is one of these.
Variant(t, p, c, h) == [t EXCEPT !.pairs = p, !.filled = c, !.hint = h]
Variants(t) ==
  { Variant(t, p, c, h) :
      p \in [Buckets(t) -> PairSet(Entries) \cup {NoPair}], c \in Nat, h \in Nat }

LEMMA VariantsHold ==
  ASSUME NEW t, IsTable(t), NEW u, SameBut(t, u, {"pairs", "filled", "hint"}),
         TableOK(u, Entries), u.hint \in Nat
  PROVE  u \in Variants(t)
<1>1. u = [t EXCEPT !.pairs = u.pairs, !.filled = u.filled, !.hint = u.hint]
  BY DEF SameBut, IsTable
<1>2. u.filled \in Nat /\ u.pairs \in [Buckets(t) -> PairSet(Entries) \cup {NoPair}]
  <2>1. u.size = t.size
    BY DEF SameBut, IsTable
  <2> QED BY <2>1, FilledType DEF TableOK, Shape, Buckets
<1>3. u = Variant(t, u.pairs, u.filled, u.hint)
  BY <1>1 DEF Variant
<1> QED BY <1>2, <1>3 DEF Variants

\* The elements of the buckets below i, which a rehash has met after i turns.
FilledBelow(t, i) == { b \in Filled(t) : b < i }
ElementsBelow(t, i) == { <<t.pairs[b].first, t.pairs[b].second>> : b \in FilledBelow(t, i) }

LEMMA BelowGrows ==
  ASSUME NEW t, TableOK(t, Entries), NEW i \in 0 .. t.size - 1
  PROVE  /\ i \in Buckets(t)
         /\ t.pairs[i] = NoPair => /\ FilledBelow(t, i + 1) = FilledBelow(t, i)
                                   /\ ElementsBelow(t, i + 1) = ElementsBelow(t, i)
         /\ t.pairs[i] # NoPair =>
              LET k == t.pairs[i].first
                  s == t.pairs[i].second
              IN  /\ k \in Key /\ s \in Entries /\ <<k, s>> \in Elements(t)
                  /\ \A x \in ElementsBelow(t, i) : x[1] # k
                  /\ ElementsBelow(t, i + 1) = ElementsBelow(t, i) \cup {<<k, s>>}
                  /\ Cardinality(FilledBelow(t, i + 1)) = Cardinality(FilledBelow(t, i)) + 1
                  /\ Cardinality(FilledBelow(t, i)) < t.filled
<1>1. i \in Buckets(t) /\ i \in Nat /\ \A b \in Filled(t) : b \in Nat
  BY FilledType DEF Buckets, TableOK, Shape
<1>2. CASE t.pairs[i] = NoPair
  <2>1. \A b \in Filled(t) : b # i
    BY <1>2 DEF Filled
  <2>2. FilledBelow(t, i + 1) = FilledBelow(t, i)
    BY <1>1, <2>1 DEF FilledBelow
  <2> QED BY <1>1, <1>2, <2>2 DEF ElementsBelow
<1>3. CASE t.pairs[i] # NoPair
  <2>1. i \in Filled(t)
    BY <1>1, <1>3 DEF Filled
  <2>2. FilledBelow(t, i + 1) = FilledBelow(t, i) \cup {i} /\ i \notin FilledBelow(t, i)
    <3>1. i < i + 1 /\ \A b \in Filled(t) : b < i + 1 <=> b < i \/ b = i
      BY <1>1
    <3>2. ~ (i < i)
      BY <1>1
    <3> QED BY <2>1, <3>1, <3>2, Zenon DEF FilledBelow
  <2>3. t.pairs[i].first \in Key /\ t.pairs[i].second \in Entries
    BY <2>1, FilledType DEF PairSet
  <2>4. \A x \in ElementsBelow(t, i) : x[1] # t.pairs[i].first
    <3> SUFFICES ASSUME NEW b \in FilledBelow(t, i) PROVE t.pairs[b].first # t.pairs[i].first
      BY DEF ElementsBelow
    <3> QED BY <2>1, <2>2 DEF FilledBelow, TableOK
  <2>5. IsFiniteSet(Filled(t)) /\ FilledBelow(t, i + 1) \subseteq Filled(t)
    BY FilledType DEF FilledBelow
  <2>6. IsFiniteSet(FilledBelow(t, i + 1)) /\ Cardinality(FilledBelow(t, i + 1)) =< Cardinality(Filled(t))
    BY <2>5, FS_Subset
  <2>7. IsFiniteSet(FilledBelow(t, i)) /\ Cardinality(FilledBelow(t, i)) \in Nat
    BY <2>2, <2>6, FS_Subset, FS_CardinalityType
  <2>8. Cardinality(FilledBelow(t, i + 1)) = Cardinality(FilledBelow(t, i)) + 1
    BY <2>2, <2>7, FS_AddElement
  <2>9. Cardinality(FilledBelow(t, i)) < t.filled
    BY <2>6, <2>7, <2>8, FilledType DEF TableOK
  <2>10. /\ ElementsBelow(t, i + 1) = ElementsBelow(t, i) \cup {<<t.pairs[i].first, t.pairs[i].second>>}
         /\ <<t.pairs[i].first, t.pairs[i].second>> \in Elements(t)
    BY <2>1, <2>2 DEF ElementsBelow, Elements
  <2> QED BY <1>1, <1>3, <2>3, <2>4, <2>8, <2>9, <2>10
<1> QED BY <1>2, <1>3

LEMMA BelowEnds ==
  ASSUME NEW t, TableOK(t, Entries)
  PROVE  /\ ElementsBelow(t, 0) = {} /\ Cardinality(FilledBelow(t, 0)) = 0
         /\ ElementsBelow(t, t.size) = Elements(t) /\ FilledBelow(t, t.size) = Filled(t)
         /\ \A i \in Nat : ElementsBelow(t, i) \subseteq Elements(t)
<1>1. \A b \in Filled(t) : b \in Nat /\ b < t.size
  BY FilledType DEF Filled, Buckets, TableOK, Shape
<1>2. FilledBelow(t, 0) = {} /\ FilledBelow(t, t.size) = Filled(t)
  BY <1>1 DEF FilledBelow
<1>3. Cardinality(FilledBelow(t, 0)) = 0
  BY <1>2, FS_EmptySet
<1> QED BY <1>2, <1>3 DEF ElementsBelow, Elements, FilledBelow
=============================================================================
