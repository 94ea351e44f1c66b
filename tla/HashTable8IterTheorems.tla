----------------------- MODULE HashTable8IterTheorems -----------------------
(***************************************************************************)
(* The loops of HashTable8Iter remove what they are to remove, for every   *)
(* table, predicate and range: although each erasure moves the last        *)
(* element, no loop misses one, erases another, or leaves the array.       *)
(***************************************************************************)
EXTENDS HashTable8Iter, HashTable8Theorems

-----------------------------------------------------------------------------
(* The invariant of the loops.                                             *)

Wanted(s) == pairs[s].first \in want

\* The elements a range has still to erase lie at the iterator, as many as
\* esize says, with tsize others behind them.
HeadSound ==
  /\ it \in Nat /\ esize \in Nat /\ tsize \in Nat
  /\ it + esize + tsize = num_filled
  /\ \A s \in 0 .. num_filled - 1 : Wanted(s) <=> s \in it .. it + esize - 1

\* In its second loop they lie at the end of the array.
TailSound ==
  /\ esize \in Nat /\ esize =< num_filled /\ it = num_filled - 1
  /\ \A s \in 0 .. num_filled - 1 : Wanted(s) <=> s \in num_filled - esize .. num_filled - 1

\* erase_if has passed nothing that it should have erased.
EraseIfSound ==
  /\ it \in 0 .. num_filled
  /\ \A s \in 0 .. it - 1 : ~ Wanted(s)

\* Of what the table held when the loop began, only wanted elements are gone.
OnlyWantedGone ==
  /\ { e \in start : e[1] \notin want } \subseteq Elements
  /\ Elements \subseteq start

LoopInv ==
  /\ loop \in {"none", "erase_if", "head", "tail"}
  /\ loop # "none" => pc = "ready" /\ OnlyWantedGone
  /\ loop = "erase_if" => EraseIfSound
  /\ loop = "head" => HeadSound
  /\ loop = "tail" => TailSound

IterInv == Inv /\ LoopInv

-----------------------------------------------------------------------------
(* The steps.                                                              *)

\* A loop erases the element at its iterator.
LEMMA EraseHereOK ==
  ASSUME Inv, pc = "ready", OnlyWantedGone, it \in 0 .. num_filled - 1, Wanted(it),
         EraseAt(it), UNCHANGED <<ret, want, start>>
  PROVE  /\ Inv' /\ Effect /\ OnlyWantedGone' /\ pc' = "ready"
         /\ num_filled \in Nat /\ num_filled' = num_filled - 1
         /\ \A s \in 0 .. num_filled' - 1 :
              Wanted(s)' <=> IF s = it THEN Wanted(num_filled - 1) ELSE Wanted(s)
<1>1. PICK h \in 0 .. num_filled - 1 : h = it
  OBVIOUS
<1>2. ret' \in BOOLEAN /\ ret' = ret /\ todo = <<>>
  BY DEF Inv, Types, TodoMatches
<1>3. /\ Inv' /\ pairs[h] \in Entry /\ Dropped(pairs[h].first, pairs[h].second)
      /\ num_filled' = num_filled - 1
      /\ \A s \in 0 .. num_filled' - 1 :
           pairs'[s] = IF s = h THEN pairs[num_filled - 1] ELSE pairs[s]
  BY <1>1, <1>2, EraseAtOK
<1>4. todo' = todo /\ pc' = pc
  BY DEF EraseAt, EraseSlot
<1>5. Effect
  <2>1. pairs[h].first \in Key /\ pairs[h].second \in Value
    BY <1>3 DEF Entry
  <2> QED BY <1>2, <1>3, <1>4, <2>1 DEF Effect
<1>6. OnlyWantedGone'
  <2>1. pairs[h].first \in want
    BY <1>1 DEF Wanted
  <2>2. Elements' = Elements \ {<<pairs[h].first, pairs[h].second>>}
    BY <1>3 DEF Dropped
  <2>3. <<pairs[h].first, pairs[h].second>>[1] \in want
    BY <2>1
  <2> QED BY <2>2, <2>3 DEF OnlyWantedGone
<1>7. num_filled \in Nat
  BY DEF Inv, Array
<1>8. \A s \in 0 .. num_filled' - 1 :
        Wanted(s)' <=> IF s = it THEN Wanted(num_filled - 1) ELSE Wanted(s)
  BY <1>1, <1>3 DEF Wanted
<1> QED BY <1>3, <1>4, <1>5, <1>6, <1>7, <1>8

\* The table stays, whatever the loop's own variables do.
LEMMA TableStays ==
  ASSUME Inv, UNCHANGED vars
  PROVE  /\ Inv' /\ Effect /\ Elements' = Elements
         /\ UNCHANGED <<num_filled, pairs, pc>> /\ num_filled \in Nat
BY StutterOK DEF Effect, Kept, vars, Inv, Array

LEMMA EraseIfOK ==
  ASSUME IterInv, NEW keys, EraseIf(keys)
  PROVE  IterInv' /\ Effect
<1>1. /\ pc = "ready" /\ loop' = "erase_if" /\ it' = 0 /\ start' = Elements
      /\ UNCHANGED vars
  BY DEF EraseIf, LoopStart
<1>2. Inv' /\ Effect /\ Elements' = Elements /\ num_filled' = num_filled /\ pc' = pc
      /\ num_filled \in Nat
  BY <1>1, TableStays DEF IterInv
<1>3. OnlyWantedGone' /\ EraseIfSound'
  BY <1>1, <1>2 DEF OnlyWantedGone, EraseIfSound
<1> QED BY <1>1, <1>2, <1>3 DEF IterInv, LoopInv

LEMMA EraseRangeOK ==
  ASSUME IterInv, NEW from \in 0 .. num_filled, NEW to \in 0 .. num_filled, from =< to,
         EraseRange(from, to)
  PROVE  IterInv' /\ Effect
<1>1. /\ pc = "ready" /\ loop' = "head" /\ it' = from /\ esize' = to - from
      /\ tsize' = num_filled - to /\ start' = Elements
      /\ want' = { pairs[s].first : s \in from .. to - 1 }
      /\ UNCHANGED vars
  BY DEF EraseRange, LoopStart
<1>2. /\ Inv' /\ Effect /\ Elements' = Elements
      /\ num_filled' = num_filled /\ pairs' = pairs /\ pc' = pc /\ num_filled \in Nat
  BY <1>1, TableStays DEF IterInv
<1>3. \A s \in 0 .. num_filled - 1 : Wanted(s)' <=> s \in from .. to - 1
  <2> SUFFICES ASSUME NEW s \in 0 .. num_filled - 1
               PROVE  pairs[s].first \in { pairs[r].first : r \in from .. to - 1 } <=> s \in from .. to - 1
    BY <1>1, <1>2 DEF Wanted
  <2>1. \A r \in from .. to - 1 : r \in 0 .. num_filled - 1
    BY <1>2
  <2>2. \A r \in 0 .. num_filled - 1 : pairs[s].first = pairs[r].first => s = r
    BY DEF IterInv, Inv, Array
  <2> QED BY <2>1, <2>2
<1>4. HeadSound'
  <2>1. from + (to - from) + (num_filled - to) = num_filled /\ from + (to - from) - 1 = to - 1
    BY <1>2
  <2>2. from \in Nat /\ to - from \in Nat /\ num_filled - to \in Nat
    BY <1>2
  <2> QED BY <1>1, <1>2, <1>3, <2>1, <2>2 DEF HeadSound
<1>5. OnlyWantedGone'
  BY <1>1, <1>2 DEF OnlyWantedGone
<1> QED BY <1>1, <1>2, <1>4, <1>5 DEF IterInv, LoopInv

LEMMA KeepOK ==
  ASSUME IterInv, Keep
  PROVE  IterInv' /\ Effect
<1>1. /\ loop = "erase_if" /\ it # num_filled /\ ~ Wanted(it) /\ it' = it + 1
      /\ UNCHANGED vars /\ UNCHANGED <<loop, want, start>>
  BY DEF Keep, End, Here, Wanted
<1>2. /\ Inv' /\ Effect /\ Elements' = Elements
      /\ num_filled' = num_filled /\ pairs' = pairs /\ pc' = pc /\ num_filled \in Nat
  BY <1>1, TableStays DEF IterInv
<1>3. EraseIfSound /\ OnlyWantedGone /\ pc = "ready"
  BY <1>1 DEF IterInv, LoopInv
<1>4. EraseIfSound'
  <2>1. it' \in 0 .. num_filled'
    BY <1>1, <1>2, <1>3 DEF EraseIfSound
  <2>2. \A s \in 0 .. it' - 1 : s \in 0 .. it - 1 \/ s = it
    BY <1>1, <1>3 DEF EraseIfSound
  <2>3. \A s : Wanted(s)' <=> Wanted(s)
    BY <1>1, <1>2 DEF Wanted
  <2> QED BY <1>1, <1>3, <2>1, <2>2, <2>3 DEF EraseIfSound
<1>5. OnlyWantedGone'
  BY <1>1, <1>2, <1>3 DEF OnlyWantedGone
<1> QED BY <1>1, <1>2, <1>3, <1>4, <1>5 DEF IterInv, LoopInv

LEMMA EraseIfStepOK ==
  ASSUME IterInv, EraseHere
  PROVE  IterInv' /\ Effect
<1>1. /\ loop = "erase_if" /\ it # num_filled /\ Wanted(it) /\ EraseAt(it)
      /\ UNCHANGED <<ret, loop, it, want, start>>
  BY DEF EraseHere, End, Here, Wanted, iterating
<1>2. EraseIfSound /\ OnlyWantedGone /\ pc = "ready" /\ Inv
  BY <1>1 DEF IterInv, LoopInv
<1>3. it \in 0 .. num_filled - 1
  BY <1>1, <1>2, IndexedType DEF EraseIfSound
<1>4. /\ Inv' /\ Effect /\ OnlyWantedGone' /\ pc' = "ready"
      /\ num_filled \in Nat /\ num_filled' = num_filled - 1
      /\ \A s \in 0 .. num_filled' - 1 :
           Wanted(s)' <=> IF s = it THEN Wanted(num_filled - 1) ELSE Wanted(s)
  BY <1>1, <1>2, <1>3, EraseHereOK
<1>5. EraseIfSound'
  <2>1. it' \in 0 .. num_filled'
    BY <1>1, <1>3, <1>4
  <2>2. \A s \in 0 .. it - 1 : s \in 0 .. num_filled' - 1 /\ s # it
    BY <1>3, <1>4
  <2>3. \A s \in 0 .. it' - 1 : ~ Wanted(s)'
    BY <1>1, <1>2, <1>4, <2>2 DEF EraseIfSound
  <2> QED BY <2>1, <2>3 DEF EraseIfSound
<1> QED BY <1>1, <1>4, <1>5 DEF IterInv, LoopInv

\* The last element, which fills the slot, is not one of the range.
LEMMA EraseFirstOK ==
  ASSUME IterInv, EraseFirst
  PROVE  IterInv' /\ Effect
<1>1. /\ loop = "head" /\ tsize > 0 /\ esize > 0 /\ EraseAt(it)
      /\ it' = it + 1 /\ esize' = esize - 1 /\ tsize' = tsize - 1
      /\ UNCHANGED <<ret, loop, want, start>>
  BY DEF EraseFirst
<1>2. HeadSound /\ OnlyWantedGone /\ pc = "ready" /\ Inv
  BY <1>1 DEF IterInv, LoopInv
<1>3. it \in 0 .. num_filled - 1 /\ Wanted(it)
  BY <1>1, <1>2 DEF HeadSound
<1>4. /\ Inv' /\ Effect /\ OnlyWantedGone' /\ pc' = "ready"
      /\ num_filled \in Nat /\ num_filled' = num_filled - 1
      /\ \A s \in 0 .. num_filled' - 1 :
           Wanted(s)' <=> IF s = it THEN Wanted(num_filled - 1) ELSE Wanted(s)
  BY <1>1, <1>2, <1>3, EraseHereOK
<1>5. ~ Wanted(num_filled - 1)
  BY <1>1, <1>2, <1>4 DEF HeadSound
<1>6. HeadSound'
  <2>1. /\ it' \in Nat /\ esize' \in Nat /\ tsize' \in Nat
        /\ it' + esize' + tsize' = num_filled'
    BY <1>1, <1>2, <1>4 DEF HeadSound
  <2>2. ASSUME NEW s \in 0 .. num_filled' - 1
        PROVE  Wanted(s)' <=> s \in it' .. it' + esize' - 1
    <3>1. s \in 0 .. num_filled - 1
      BY <1>4
    <3>2. s # it => (s \in it .. it + esize - 1 <=> s \in it' .. it' + esize' - 1)
      BY <1>1, <1>2, <3>1 DEF HeadSound
    <3>3. s = it => ~ (s \in it' .. it' + esize' - 1)
      BY <1>1, <1>2 DEF HeadSound
    <3> QED BY <1>2, <1>4, <1>5, <3>1, <3>2, <3>3 DEF HeadSound
  <2> QED BY <2>1, <2>2 DEF HeadSound
<1> QED BY <1>1, <1>4, <1>6 DEF IterInv, LoopInv

LEMMA TurnRoundOK ==
  ASSUME IterInv, TurnRound
  PROVE  IterInv' /\ Effect
<1>1. /\ loop = "head" /\ (tsize = 0 \/ esize = 0)
      /\ loop' = "tail" /\ it' = num_filled - 1
      /\ UNCHANGED vars /\ UNCHANGED <<esize, want, start>>
  BY DEF TurnRound
<1>2. /\ Inv' /\ Effect /\ Elements' = Elements
      /\ num_filled' = num_filled /\ pairs' = pairs /\ pc' = pc /\ num_filled \in Nat
  BY <1>1, TableStays DEF IterInv
<1>3. HeadSound /\ OnlyWantedGone /\ pc = "ready"
  BY <1>1 DEF IterInv, LoopInv
<1>4. TailSound'
  <2>1. \A s \in 0 .. num_filled - 1 :
          s \in it .. it + esize - 1 <=> s \in num_filled - esize .. num_filled - 1
    BY <1>1, <1>3 DEF HeadSound
  <2>2. \A s : Wanted(s)' <=> Wanted(s)
    BY <1>1, <1>2 DEF Wanted
  <2>3. esize \in Nat /\ esize =< num_filled
    BY <1>2, <1>3 DEF HeadSound
  <2> QED BY <1>1, <1>2, <1>3, <2>1, <2>2, <2>3 DEF HeadSound, TailSound
<1>5. OnlyWantedGone'
  BY <1>1, <1>2, <1>3 DEF OnlyWantedGone
<1> QED BY <1>1, <1>2, <1>3, <1>4, <1>5 DEF IterInv, LoopInv

\* What is erased is the last element: nothing moves.
LEMMA EraseLastOK ==
  ASSUME IterInv, EraseLast
  PROVE  IterInv' /\ Effect
<1>1. /\ loop = "tail" /\ esize > 0 /\ EraseAt(it)
      /\ it' = it - 1 /\ esize' = esize - 1
      /\ UNCHANGED <<ret, loop, want, start>>
  BY DEF EraseLast
<1>2. TailSound /\ OnlyWantedGone /\ pc = "ready" /\ Inv
  BY <1>1 DEF IterInv, LoopInv
<1>3. num_filled \in Nat /\ it \in 0 .. num_filled - 1 /\ Wanted(it)
  BY <1>1, <1>2, IndexedType DEF TailSound
<1>4. /\ Inv' /\ Effect /\ OnlyWantedGone' /\ pc' = "ready"
      /\ num_filled' = num_filled - 1
      /\ \A s \in 0 .. num_filled' - 1 :
           Wanted(s)' <=> IF s = it THEN Wanted(num_filled - 1) ELSE Wanted(s)
  BY <1>1, <1>2, <1>3, EraseHereOK
<1>5. TailSound'
  <2>1. esize' \in Nat /\ esize' =< num_filled' /\ it' = num_filled' - 1
    BY <1>1, <1>2, <1>3, <1>4 DEF TailSound
  <2>2. ASSUME NEW s \in 0 .. num_filled' - 1
        PROVE  Wanted(s)' <=> s \in num_filled' - esize' .. num_filled' - 1
    <3>1. s \in 0 .. num_filled - 1 /\ s # it
      BY <1>2, <1>3, <1>4 DEF TailSound
    <3>2. s \in num_filled - esize .. num_filled - 1
            <=> s \in num_filled' - esize' .. num_filled' - 1
      BY <1>1, <1>2, <1>3, <1>4, <3>1 DEF TailSound
    <3> QED BY <1>2, <1>4, <3>1, <3>2 DEF TailSound
  <2> QED BY <2>1, <2>2 DEF TailSound
<1> QED BY <1>1, <1>4, <1>5 DEF IterInv, LoopInv

LEMMA IterInitOK == IterInit => IterInv
BY InitOK DEF IterInit, IterInv, LoopInv

LEMMA IterNextOK ==
  ASSUME IterInv, IterNext
  PROVE  IterInv' /\ Effect
<1>1. CASE loop = "none" /\ Next /\ UNCHANGED iterating
  <2>1. Inv' /\ Effect
    BY <1>1, NextOK DEF IterInv
  <2> QED BY <1>1, <2>1 DEF IterInv, LoopInv, iterating
<1>2. CASE \E keys \in SUBSET { e[1] : e \in Elements } : EraseIf(keys)
  BY <1>2, EraseIfOK
<1>3. CASE \E from, to \in 0 .. num_filled : from =< to /\ EraseRange(from, to)
  BY <1>3, EraseRangeOK
<1>4. CASE LoopDone
  <2>1. Inv' /\ Effect
    BY <1>4, TableStays DEF IterInv, LoopDone
  <2> QED BY <1>4, <2>1 DEF IterInv, LoopInv, LoopDone
<1>5. CASE LoopStep
  BY <1>4, <1>5, KeepOK, EraseIfStepOK, EraseFirstOK, TurnRoundOK, EraseLastOK DEF LoopStep
<1> QED BY <1>1, <1>2, <1>3, <1>5 DEF IterNext

LEMMA IterStutterOK ==
  ASSUME IterInv, UNCHANGED iterVars
  PROVE  IterInv' /\ Effect
<1>1. UNCHANGED vars /\ UNCHANGED <<loop, it, esize, tsize, want, start>>
  BY DEF iterVars, iterating
<1>2. /\ Inv' /\ Effect /\ Elements' = Elements
      /\ num_filled' = num_filled /\ pairs' = pairs /\ pc' = pc
  BY <1>1, TableStays DEF IterInv
<1>3. LoopInv'
  BY <1>1, <1>2 DEF IterInv, LoopInv, OnlyWantedGone, EraseIfSound, HeadSound, TailSound, Wanted
<1> QED BY <1>2, <1>3 DEF IterInv

-----------------------------------------------------------------------------
(* The theorems.                                                           *)

\* Every step of every loop, and of every call between two loops, keeps it.
THEOREM IterInvHolds == IterSpec => []IterInv
<1>1. IterInit => IterInv
  BY IterInitOK
<1>2. IterInv /\ [IterNext]_iterVars => IterInv'
  BY IterNextOK, IterStutterOK
<1> QED BY <1>1, <1>2, PTL DEF IterSpec

\* erase_if and erase(first, last) never look behind the last element, nor, in
\* their way back, before the first.
THEOREM IteratorStaysInRange == FairIterSpec => []IteratorInRange
<1>1. IterInv => IteratorInRange
  <2> SUFFICES ASSUME IterInv PROVE IteratorInRange
    OBVIOUS
  <2>1. num_filled \in Nat
    BY IndexedType DEF IterInv
  <2>2. loop = "erase_if" => it \in 0 .. End
    BY DEF IterInv, LoopInv, EraseIfSound, End
  <2>3. loop = "head" /\ esize > 0 => it \in 0 .. End - 1
    BY <2>1 DEF IterInv, LoopInv, HeadSound, End
  <2>4. loop = "tail" /\ esize > 0 => it \in 0 .. End - 1
    BY <2>1 DEF IterInv, LoopInv, TailSound, End
  <2> QED BY <2>2, <2>3, <2>4 DEF IteratorInRange
<1> QED BY <1>1, IterInvHolds, PTL DEF FairIterSpec

\* As many elements as slots that hold a wanted key.
LEMMA WantedCounted ==
  ASSUME Array, NEW a \in Nat, NEW c \in Nat, a + c =< num_filled,
         \A s \in 0 .. num_filled - 1 : Wanted(s) <=> s \in a .. a + c - 1
  PROVE  Cardinality({ e \in Elements : e[1] \in want }) = c
<1> DEFINE S == a .. a + c - 1
           T == { e \in Elements : e[1] \in want }
           f == [s \in S |-> <<pairs[s].first, pairs[s].second>>]
<1>1. IsFiniteSet(S) /\ Cardinality(S) = c
  BY FS_Interval
<1>2. num_filled \in Nat /\ \A s \in S : s \in 0 .. num_filled - 1
  BY DEF Array
<1>3. f \in [S -> T]
  BY <1>2 DEF Elements, Wanted
<1>4. \A e \in T : \E s \in S : f[s] = e
  <2> SUFFICES ASSUME NEW e \in T PROVE \E s \in S : f[s] = e
    OBVIOUS
  <2>1. PICK s \in 0 .. num_filled - 1 : e = <<pairs[s].first, pairs[s].second>>
    BY DEF Elements
  <2>2. s \in S
    BY <2>1 DEF Wanted
  <2> QED BY <2>1, <2>2
<1>5. \A s, t \in S : f[s] = f[t] => s = t
  BY <1>2 DEF Array
<1> HIDE DEF S, T, f
<1>6. f \in Surjection(S, T) /\ f \in Injection(S, T)
  BY <1>3, <1>4, <1>5 DEF Surjection, Injection, IsInjective
<1>7. Cardinality(T) = Cardinality(S)
  BY <1>1, <1>6, FS_Surjection
<1> QED BY <1>1, <1>7 DEF T

\* A loop removes exactly what it is to remove: every other element stays,
\* nothing wanted is left behind the iterator of erase_if, and esize is what a
\* range has left to erase.
THEOREM LoopsAlwaysExact == FairIterSpec => []LoopsExact
<1>1. IterInv => LoopsExact
  <2> SUFFICES ASSUME IterInv, loop # "none" PROVE LoopsExact
    BY DEF LoopsExact
  <2>1. OnlyWantedGone /\ Array /\ num_filled \in Nat
    BY IndexedType DEF IterInv, LoopInv, Inv
  <2>2. loop = "erase_if" => \A s \in 0 .. it - 1 : pairs[s].first \notin want
    BY DEF IterInv, LoopInv, EraseIfSound, Wanted
  <2>3. CASE loop = "head"
    <3>1. PICK a \in Nat, c \in Nat : a = it /\ c = esize /\ a + c =< num_filled
      BY <2>1, <2>3 DEF IterInv, LoopInv, HeadSound
    <3>2. \A s \in 0 .. num_filled - 1 : Wanted(s) <=> s \in a .. a + c - 1
      BY <2>3, <3>1 DEF IterInv, LoopInv, HeadSound
    <3>3. esize = Cardinality({ e \in Elements : e[1] \in want })
      BY <2>1, <3>1, <3>2, WantedCounted
    <3> QED BY <2>1, <2>2, <3>3 DEF LoopsExact, OnlyWantedGone
  <2>4. CASE loop = "tail"
    <3>1. PICK a \in Nat, c \in Nat : a = num_filled - esize /\ c = esize /\ a + c = num_filled
             /\ a + c =< num_filled
      BY <2>1, <2>4 DEF IterInv, LoopInv, TailSound
    <3>2. \A s \in 0 .. num_filled - 1 : Wanted(s) <=> s \in a .. a + c - 1
      BY <2>1, <2>4, <3>1 DEF IterInv, LoopInv, TailSound
    <3>3. esize = Cardinality({ e \in Elements : e[1] \in want })
      BY <2>1, <3>1, <3>2, WantedCounted
    <3> QED BY <2>1, <2>2, <3>3 DEF LoopsExact, OnlyWantedGone
  <2>5. CASE loop \notin {"head", "tail"}
    BY <2>1, <2>2, <2>5 DEF LoopsExact, OnlyWantedGone
  <2> QED BY <2>3, <2>4, <2>5
<1> QED BY <1>1, IterInvHolds, PTL DEF FairIterSpec

\* To a caller each step of a loop is an erasure at a position or nothing at
\* all: the table under the loops implements the map of MapSpec.
THEOREM LoopsImplementMap == FairIterSpec => ImplementsMap
<1>1. IterInit => Abstract!Init
  <2> SUFFICES ASSUME Init PROVE Contents = [k \in Key |-> NoValue] /\ todo \in Seq(Request) /\ ret = FALSE
    BY DEF Abstract!Init, Abstract!Request, Request, IterInit
  <2>1. Elements = {} /\ todo \in Seq(Request) /\ ret = FALSE
    BY InitOK DEF Inv, Types
  <2> QED BY <2>1 DEF Contents
<1>2. IterInv /\ [IterNext]_iterVars => [Abstract!Next]_(Abstract!vars)
  <2> SUFFICES ASSUME IterInv, [IterNext]_iterVars
               PROVE  Abstract!Next \/ UNCHANGED <<Contents, todo, ret>>
    BY DEF Abstract!vars
  <2>1. IterInv' /\ Effect
    BY IterNextOK, IterStutterOK
  <2> QED BY <2>1, StepImplements DEF IterInv
<1> QED BY <1>1, <1>2, IterInvHolds, PTL DEF FairIterSpec, IterSpec, ImplementsMap, Abstract!Spec
=============================================================================
