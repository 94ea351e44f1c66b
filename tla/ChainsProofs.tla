---------------------------- MODULE ChainsProofs ----------------------------
(***************************************************************************)
(* Every way the tables change their chains keeps them sound, and the      *)
(* walks the code takes along sound chains end where it expects.  The      *)
(* lemmas name the buckets F, links nx and main buckets mn before a change *)
(* and G, ny and mo after it.                                              *)
(***************************************************************************)
EXTENDS Chains, TLAPS

\* A walk starts at its first bucket and never leaves what it has reached.
LEMMA ReachClosed ==
  ASSUME NEW F, NEW nx, NEW b \in F, \A y \in F : nx[y] \in F
  PROVE  /\ b \in Reach(F, nx, b)
         /\ Reach(F, nx, b) \subseteq F
         /\ \A y \in Reach(F, nx, b) : nx[y] \in Reach(F, nx, b)
BY DEF Reach

\* Whatever holds the first bucket and is closed under the links holds the walk.
LEMMA ReachLeast ==
  ASSUME NEW F, NEW nx, NEW b, NEW S \in SUBSET F,
         b \in S, \A y \in S : nx[y] \in S
  PROVE  Reach(F, nx, b) \subseteq S
BY DEF Reach

\* A walk from a head stays in its chain.
LEMMA ReachStaysHome ==
  ASSUME NEW F, NEW nx, NEW mn, WellChained(F, nx, mn), NEW m \in F, mn[m] = m
  PROVE  \A b \in Reach(F, nx, m) : b \in F /\ mn[b] = m
<1> DEFINE S == { b \in F : mn[b] = m }
<1>1. m \in S /\ \A y \in S : nx[y] \in S
  BY DEF WellChained, LinksStayInChain
<1>2. Reach(F, nx, m) \subseteq S
  BY <1>1, ReachLeast
<1> QED BY <1>2

\* find_last_bucket: the walk from a main bucket meets the end of the chain.
LEMMA LastExists ==
  ASSUME NEW F, NEW nx, NEW mn, WellChained(F, nx, mn), NEW m \in F, mn[m] = m
  PROVE  \E t \in Reach(F, nx, m) : nx[t] = t
<1>1. PICK t \in F : mn[t] = mn[m] /\ nx[t] = t
  BY DEF WellChained, TailsExist
<1>2. t \in Reach(F, nx, m)
  BY <1>1 DEF WellChained, AllReachable
<1> QED BY <1>1, <1>2

\* find_prev_bucket: the walk from the main bucket of a bucket that is not a
\* head meets the one that links to it.
LEMMA PrevExists ==
  ASSUME NEW F, NEW nx, NEW mn, WellChained(F, nx, mn), NEW b \in F, mn[b] # b
  PROVE  \E p \in Reach(F, nx, mn[b]) : p # b /\ nx[p] = b
<1> DEFINE R == Reach(F, nx, mn[b])
<1>1. mn[b] \in F /\ \A y \in F : nx[y] \in F
  BY DEF WellChained, HeadsAtHome, LinksStayInChain
<1>2. mn[b] \in R /\ R \subseteq F /\ \A y \in R : nx[y] \in R
  BY <1>1, ReachClosed
<1>3. SUFFICES ASSUME \A p \in R : p # b => nx[p] # b PROVE FALSE
  OBVIOUS
<1>4. R \subseteq R \ {b}
  <2>1. mn[b] \in R \ {b} /\ \A y \in R \ {b} : nx[y] \in R \ {b}
    BY <1>2, <1>3
  <2>2. R \ {b} \in SUBSET F
    BY <1>2
  <2> HIDE DEF R
  <2>3. Reach(F, nx, mn[b]) \subseteq R \ {b}
    BY <2>1, <2>2, ReachLeast
  <2> QED BY <2>3 DEF R
<1>5. b \in R
  BY DEF WellChained, AllReachable
<1> QED BY <1>4, <1>5

\* A key is placed in its empty main bucket.
LEMMA AddHead ==
  ASSUME NEW F, NEW nx, NEW mn, WellChained(F, nx, mn),
         NEW m, m \notin F,
         NEW ny, NEW mo,
         \A b \in F : ny[b] = nx[b],
         \A b \in F : mo[b] = mn[b],
         ny[m] = m, mo[m] = m
  PROVE  WellChained(F \cup {m}, ny, mo)
<1> DEFINE G == F \cup {m}
<1> USE DEF WellChained
<1>1. LinksStayInChain(G, ny, mo)
  BY DEF LinksStayInChain
<1>2. HeadsAtHome(G, mo)
  BY DEF HeadsAtHome
<1>3. AllReachable(G, ny, mo)
  <2> SUFFICES ASSUME NEW b \in G, NEW S \in SUBSET G,
                      mo[b] \in S, \A y \in S : ny[y] \in S
               PROVE  b \in S
    BY DEF AllReachable, Reach
  <2>1. CASE b = m
    BY <2>1
  <2>2. CASE b \in F
    <3>1. mn[b] \in S \cap F /\ \A y \in S \cap F : nx[y] \in S \cap F
      BY <2>2 DEF HeadsAtHome, LinksStayInChain
    <3>2. Reach(F, nx, mn[b]) \subseteq S \cap F
      BY <3>1, ReachLeast
    <3> QED BY <3>2, <2>2 DEF AllReachable
  <2> QED BY <2>1, <2>2
<1>4. NoSharedTails(G, ny, mo)
  BY DEF NoSharedTails, LinksStayInChain, HeadsAtHome
<1>5. TailsExist(G, ny, mo)
  BY DEF TailsExist
<1> QED BY <1>1, <1>2, <1>3, <1>4, <1>5

\* An empty bucket is linked behind the last one of a chain.
LEMMA AppendTail ==
  ASSUME NEW F, NEW nx, NEW mn, WellChained(F, nx, mn),
         NEW t \in F, nx[t] = t,
         NEW n, n \notin F,
         NEW ny, NEW mo,
         \A b \in F \ {t} : ny[b] = nx[b],
         \A b \in F : mo[b] = mn[b],
         ny[t] = n, ny[n] = n, mo[n] = mn[t]
  PROVE  WellChained(F \cup {n}, ny, mo)
<1> DEFINE G == F \cup {n}
<1> USE DEF WellChained
<1>1. LinksStayInChain(G, ny, mo)
  BY DEF LinksStayInChain
<1>2. HeadsAtHome(G, mo)
  BY DEF HeadsAtHome
<1>3. AllReachable(G, ny, mo)
  <2> SUFFICES ASSUME NEW b \in G, NEW S \in SUBSET G,
                      mo[b] \in S, \A y \in S : ny[y] \in S
               PROVE  b \in S
    BY DEF AllReachable, Reach
  <2>1. ASSUME NEW c \in F, mn[c] \in S
        PROVE  c \in S
    <3>1. mn[c] \in S \cap F /\ \A y \in S \cap F : nx[y] \in S \cap F
      BY <2>1 DEF HeadsAtHome, LinksStayInChain
    <3>2. Reach(F, nx, mn[c]) \subseteq S \cap F
      BY <3>1, ReachLeast
    <3> QED BY <3>2 DEF AllReachable
  <2>2. CASE b = n
    <3>1. t \in S
      BY <2>1, <2>2
    <3> QED BY <3>1, <2>2
  <2> QED BY <2>1, <2>2
<1>4. NoSharedTails(G, ny, mo)
  BY DEF NoSharedTails, LinksStayInChain, HeadsAtHome
<1>5. TailsExist(G, ny, mo)
  <2> SUFFICES ASSUME NEW b \in G PROVE \E u \in G : mo[u] = mo[b] /\ ny[u] = u
    BY DEF TailsExist
  <2> DEFINE c == IF b = n THEN t ELSE b
  <2>1. PICK u \in F : mn[u] = mn[c] /\ nx[u] = u
    BY DEF TailsExist
  <2> QED BY <2>1
<1> QED BY <1>1, <1>2, <1>3, <1>4, <1>5

\* kickout_bucket: a guest moves to an empty bucket and p follows it.
LEMMA Relocate ==
  ASSUME NEW F, NEW nx, NEW mn, WellChained(F, nx, mn),
         NEW k \in F, mn[k] # k,
         NEW p \in F, p # k, nx[p] = k,
         NEW n, n \notin F,
         NEW ny, NEW mo,
         \A b \in F \ {k, p} : ny[b] = nx[b],
         \A b \in F \ {k} : mo[b] = mn[b],
         ny[n] = (IF nx[k] = k THEN n ELSE nx[k]), ny[p] = n, mo[n] = mn[k]
  PROVE  WellChained((F \ {k}) \cup {n}, ny, mo)
<1> DEFINE G == (F \ {k}) \cup {n}
<1> USE DEF WellChained
<1>1. \A b \in F : mn[b] # k
  BY DEF HeadsAtHome
<1>2. \A b \in F \ {k, p} : nx[b] # k
  BY DEF NoSharedTails
<1>3. LinksStayInChain(G, ny, mo)
  BY <1>2 DEF LinksStayInChain
<1>4. HeadsAtHome(G, mo)
  BY <1>1 DEF HeadsAtHome
<1>5. AllReachable(G, ny, mo)
  <2> SUFFICES ASSUME NEW b \in G, NEW S \in SUBSET G,
                      mo[b] \in S, \A y \in S : ny[y] \in S
               PROVE  b \in S
    BY DEF AllReachable, Reach
  <2> DEFINE T == { x \in F : IF x = k THEN n \in S ELSE x \in S }
             c == IF b = n THEN k ELSE b
  <2>1. c \in F /\ mn[c] \in T
    BY <1>1 DEF HeadsAtHome
  <2>2. \A y \in T : nx[y] \in T
    BY <1>2 DEF LinksStayInChain
  <2>3. T \in SUBSET F
    OBVIOUS
  <2> HIDE DEF T, c
  <2>4. Reach(F, nx, mn[c]) \subseteq T
    BY <2>1, <2>2, <2>3, ReachLeast
  <2>5. c \in T
    BY <2>1, <2>4 DEF AllReachable
  <2> QED BY <2>5 DEF T, c
<1>6. NoSharedTails(G, ny, mo)
  BY <1>1, <1>2 DEF NoSharedTails, LinksStayInChain, HeadsAtHome
<1>7. TailsExist(G, ny, mo)
  <2> SUFFICES ASSUME NEW b \in G PROVE \E u \in G : mo[u] = mo[b] /\ ny[u] = u
    BY DEF TailsExist
  <2> DEFINE c == IF b = n THEN k ELSE b
  <2>1. PICK u \in F : mn[u] = mn[c] /\ nx[u] = u
    BY DEF TailsExist
  <2>2. CASE u = k
    BY <2>1, <2>2
  <2>3. CASE u # k
    BY <2>1, <2>3
  <2> QED BY <2>2, <2>3
<1> QED BY <1>3, <1>4, <1>5, <1>6, <1>7

\* The only element of a chain is removed.
LEMMA DropAlone ==
  ASSUME NEW F, NEW nx, NEW mn, WellChained(F, nx, mn),
         NEW k \in F, mn[k] = k, nx[k] = k,
         NEW ny, NEW mo,
         \A b \in F \ {k} : ny[b] = nx[b],
         \A b \in F \ {k} : mo[b] = mn[b]
  PROVE  WellChained(F \ {k}, ny, mo)
<1> DEFINE G == F \ {k}
<1> USE DEF WellChained
<1>1. \A b \in G : mn[b] # k
  <2> SUFFICES ASSUME NEW b \in G, mn[b] = k PROVE FALSE
    OBVIOUS
  <2> DEFINE K == {k}
  <2>1. K \in SUBSET F /\ k \in K /\ \A y \in K : nx[y] \in K
    OBVIOUS
  <2> HIDE DEF K
  <2>2. Reach(F, nx, k) \subseteq K
    BY <2>1, ReachLeast
  <2> QED BY <2>2 DEF AllReachable, K
<1>2. \A b \in G : nx[b] # k
  BY <1>1 DEF LinksStayInChain
<1>3. LinksStayInChain(G, ny, mo)
  BY <1>2 DEF LinksStayInChain
<1>4. HeadsAtHome(G, mo)
  BY <1>1 DEF HeadsAtHome
<1>5. AllReachable(G, ny, mo)
  <2> SUFFICES ASSUME NEW b \in G, NEW S \in SUBSET G,
                      mo[b] \in S, \A y \in S : ny[y] \in S
               PROVE  b \in S
    BY DEF AllReachable, Reach
  <2>1. Reach(F, nx, mn[b]) \subseteq S
    BY ReachLeast
  <2> QED BY <2>1 DEF AllReachable
<1>6. NoSharedTails(G, ny, mo)
  BY DEF NoSharedTails
<1>7. TailsExist(G, ny, mo)
  <2> SUFFICES ASSUME NEW b \in G PROVE \E u \in G : mo[u] = mo[b] /\ ny[u] = u
    BY DEF TailsExist
  <2>1. PICK u \in F : mn[u] = mn[b] /\ nx[u] = u
    BY DEF TailsExist
  <2> QED BY <2>1, <1>1
<1> QED BY <1>3, <1>4, <1>5, <1>6, <1>7

\* The bucket behind p leaves the chain: an element is unlinked, or the head
\* takes over the element that follows it.
LEMMA DropNext ==
  ASSUME NEW F, NEW nx, NEW mn, WellChained(F, nx, mn),
         NEW k \in F, mn[k] # k,
         NEW p \in F, p # k, nx[p] = k,
         NEW ny, NEW mo,
         \A b \in F \ {k, p} : ny[b] = nx[b],
         \A b \in F \ {k} : mo[b] = mn[b],
         ny[p] = (IF nx[k] = k THEN p ELSE nx[k])
  PROVE  WellChained(F \ {k}, ny, mo)
<1> DEFINE G == F \ {k}
<1> USE DEF WellChained
<1>1. \A b \in F : mn[b] # k
  BY DEF HeadsAtHome
<1>2. \A b \in F \ {k, p} : nx[b] # k
  BY DEF NoSharedTails
<1>3. LinksStayInChain(G, ny, mo)
  BY <1>2 DEF LinksStayInChain
<1>4. HeadsAtHome(G, mo)
  BY <1>1 DEF HeadsAtHome
<1>5. AllReachable(G, ny, mo)
  <2> SUFFICES ASSUME NEW b \in G, NEW S \in SUBSET G,
                      mo[b] \in S, \A y \in S : ny[y] \in S
               PROVE  b \in S
    BY DEF AllReachable, Reach
  <2> DEFINE T == { x \in F : IF x = k THEN p \in S ELSE x \in S }
  <2>1. mn[b] \in T
    BY <1>1 DEF HeadsAtHome
  <2>2. \A y \in T : nx[y] \in T
    BY <1>2 DEF LinksStayInChain
  <2>3. T \in SUBSET F
    OBVIOUS
  <2> HIDE DEF T
  <2>4. Reach(F, nx, mn[b]) \subseteq T
    BY <2>1, <2>2, <2>3, ReachLeast
  <2>5. b \in T
    BY <2>4 DEF AllReachable
  <2> QED BY <2>5 DEF T
<1>6. NoSharedTails(G, ny, mo)
  BY <1>1, <1>2 DEF NoSharedTails, LinksStayInChain, HeadsAtHome
<1>7. TailsExist(G, ny, mo)
  <2> SUFFICES ASSUME NEW b \in G PROVE \E u \in G : mo[u] = mo[b] /\ ny[u] = u
    BY DEF TailsExist
  <2>1. PICK u \in F : mn[u] = mn[b] /\ nx[u] = u
    BY DEF TailsExist
  <2>2. CASE u = k
    BY <2>1, <2>2 DEF LinksStayInChain
  <2>3. CASE u # k
    BY <2>1, <2>3
  <2> QED BY <2>2, <2>3
<1> QED BY <1>3, <1>4, <1>5, <1>6, <1>7
=============================================================================
