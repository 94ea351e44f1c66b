------------------------------ MODULE HashSet8 ------------------------------
(***************************************************************************)
(* emhash8::HashSet (include/emhash/hash_set8.hpp), two sets at once as in *)
(* HashTable5.  The elements lie without gaps in an array, and the buckets *)
(* are an index into it: the second of a bucket is the number of a slot,   *)
(* its first the key that lies there, which the code reads in the array    *)
(* (Named).  The hash bits beside the slot number are left out.            *)
(***************************************************************************)
EXTENDS LinkedTable

CONSTANTS
  LoadFactors,           \* the arguments of max_load_factor, in 1/1000
  DefaultLoad,           \* EMH_DEFAULT_LOAD_FACTOR, in 1/1000
  MinLoad,               \* EMH_MIN_LOAD_FACTOR, in 1/1000
  QuadraticProbeLength,  \* quadratic_probe_length of the probe (6)
  SafeGuard,             \* the bucket count shrink_to_fit leaves alone (10)
  Batches, Requests      \* the ranges a call may insert, the arguments of reserve

RESERVE_SLOTS == 2
PAIRS_CAPACITY_BUFFER == 4

VARIABLES t, rhs, ret

vars == <<t, rhs, ret>>

-----------------------------------------------------------------------------
(* The probe for an empty bucket.                                          *)

\* The two buckets behind from, then two for each step of the loop, at
\* distances that grow by the step.
Near(m, from, csize) ==
  LET Offset(step) == 1 + csize + (step * (step - 1)) \div 2 - 3
  IN  [i \in 1 .. 2 * QuadraticProbeLength - 4 |->
        [at |-> IF i =< 2 THEN from + i
                ELSE ((from + Offset(2 + (i - 1) \div 2)) % m.size) + ((i - 1) % 2),
         hint |-> m.hint]]

\* Turn i of the last loop: the hint, and a bucket half a table further.
Turned(m, i) ==
  LET last == ((m.hint + i) % m.size) + 1
  IN  <<[at |-> last, hint |-> last], [at |-> (m.size \div 2 + last) % m.size, hint |-> last]>>

FindEmptyBucket(m, from, csize) ==
  LET i == Lowest({ j \in Buckets(m) : SomeEmpty(m, Turned(m, j)) })
      near == Near(m, from, csize)
  IN  FirstEmpty(m, IF SomeEmpty(m, near) THEN near ELSE Turned(m, i))

\* Slot s is named under key k, which is in no chain; csize is how far the
\* chain was walked.
Put(m, k, s, csize) ==
  LET b == Main(m, k)
      tail == FindLastBucket(m, b)
      Two(x, from) == FindEmptyBucket(x, from, 2)
      Far(x, from) == FindEmptyBucket(x, from, csize)
      free == Kickout(m, HashMain(m, b), b, Two)
  IN  IF b \in Empty(m) THEN New(m, b, k, s, b)
      ELSE IF HashMain(m, b) = b THEN LinkNew(m, k, s, tail, tail, Far)
      ELSE IF free.stuck THEN free ELSE New(free, b, k, s, b)

\* EMH_NEW: the element is built behind the last one.
Added(m, k, csize) ==
  IF m.stuck THEN m ELSE [Put(m, k, m.filled, csize) EXCEPT !.array = Append(@, k)]

FindUniqueBucket(m, k, v) == Added(m, k, 2)

-----------------------------------------------------------------------------
(* Growing and inserting.                                                  *)

\* The slots rebuild allocates for an index of so many buckets.
NeedSize(size, required, mlf) ==
  LET share == (size * FixedOne) \div mlf + PAIRS_CAPACITY_BUFFER
  IN  IF share >= required + RESERVE_SLOTS THEN share ELSE required + RESERVE_SLOTS

EmptyTable(size, cap, mlf) ==
  [size |-> size, filled |-> 0, mlf |-> mlf, hint |-> 0, pairs |-> Fresh(size),
   array |-> <<>>, cap |-> cap, stuck |-> FALSE]

\* Every slot is named again, in order.
Reindexed(new, m) == InsertEach(new, m.array, 0, FindUniqueBucket)

Rehashed(m, n) ==
  IF n < m.filled THEN m
  ELSE Reindexed(EmptyTable(BucketsFor(n), NeedSize(BucketsFor(n), n, m.mlf), m.mlf), m)

Expanded(m, n) ==
  IF RequiredBuckets(m, n) < m.size - 1 THEN m
  ELSE Rehashed(m, RequiredBuckets(m, n) + RESERVE_SLOTS)

\* reserve(required_buckets) names the slots again where the index is, when
\* asked for as many as there are elements.
Reserved(m, n) ==
  IF n # m.filled THEN Expanded(m, n) ELSE Reindexed(EmptyTable(m.size, m.cap, m.mlf), m)

DoInsert(m, k, v) ==
  IF Find(m, k) # m.size THEN m
  ELSE Added(m, k, IF Main(m, k) \in Filled(m) THEN Cardinality(Walk(m, Main(m, k))) ELSE 1)

CheckedInsert(m, k) == DoInsert(Expanded(m, m.filled), k, 0)

\* The caller promises that k is new.
InsertUnique(m, k, v) == Added(Expanded(m, m.filled), k, 2)

InsertRange(m, batch) == InsertEach(Expanded(m, Len(batch) + m.filled), batch, 0, DoInsert)

-----------------------------------------------------------------------------
(* Removing.                                                               *)

\* What each bucket names is what lies in the array.
Named(m) ==
  [m EXCEPT !.pairs =
     [b \in Buckets(m) |-> IF m.pairs[b] = NoPair THEN NoPair
                           ELSE [m.pairs[b] EXCEPT !.first = m.array[m.pairs[b].second + 1]]]]

SlotToBucket(m, s) == CHOOSE b \in Walk(m, Main(m, m.array[s + 1])) : m.pairs[b].second = s

\* The bucket that names the last element, once bucket b is unlinked; the head
\* of a chain has taken over what its successor named.
UpdateBucket(m, b, freed) ==
  LET last == SlotToBucket(m, m.filled - 1)
  IN  IF last = freed /\ HashMain(m, b) = b THEN b ELSE last

\* The last element moves into the slot that is given up.
EraseSlot(m, b) ==
  LET s == m.pairs[b].second
      e == IF b # HashMain(m, b) THEN Unlink(m, HashMain(m, b), b)
           ELSE IF m.pairs[b].bucket # b THEN PullNext(m, b)
           ELSE [t |-> m, freed |-> b]
      done == IF s = m.filled - 1 THEN e.t
              ELSE [e.t EXCEPT !.pairs[UpdateBucket(m, b, e.freed)].second = s,
                               !.array[s + 1] = m.array[m.filled]]
  IN  Named([Cleared(done, e.freed) EXCEPT !.array = SubSeq(@, 1, m.filled - 1)])

\* erase(it), pop_front and pop_back.
EraseAt(m, s) == EraseSlot(m, SlotToBucket(m, s))

\* The gap is filled from behind; what is left of the range is then at the end.
EraseRange(m, first, last) ==
  LET f[i \in 0 .. last - first] ==
        IF i = 0 THEN m
        ELSE EraseAt(f[i - 1], IF i =< m.filled - last THEN first + i - 1 ELSE m.filled - i)
  IN  f[last - first]

\* erase leaves the iterator on the slot that was refilled.
EraseIf(m, gone) ==
  LET turn(x) ==
        IF x.at = x.t.filled THEN x
        ELSE IF x.t.array[x.at + 1] \in gone THEN [x EXCEPT !.t = EraseAt(x.t, x.at)]
        ELSE [x EXCEPT !.at = @ + 1]
  IN  Iterate(turn, [t |-> m, at |-> 0], m.filled).t

Cleaned(m) == EmptyTable(m.size, m.cap, m.mlf)

-----------------------------------------------------------------------------
(* Two sets, and the calls.                                                *)

Poured(into, m) == InsertEach(into, m.array, 0, InsertUnique)

Sparse(m) ==
  EmptyTable(BucketsFor(m.filled + RESERVE_SLOTS),
             NeedSize(BucketsFor(m.filled + RESERVE_SLOTS), m.filled + RESERVE_SLOTS, m.mlf), m.mlf)

\* HashSet(const HashSet&): a sparse set is inserted, another is cloned.
Copied(m) ==
  IF 1000 * m.filled > MinLoad * m.size THEN m ELSE Poured(Sparse(m), m)

\* operator=(const HashSet&): an array is kept if the indexes are of one size.
Assigned(m, from) ==
  IF 1000 * from.filled < MinLoad * from.size
  THEN Poured(Sparse([from EXCEPT !.mlf = m.mlf]), from)
  ELSE [from EXCEPT !.cap = IF m.size = from.size THEN m.cap ELSE @]

\* merge; into an empty set, the move assignment.
Merged(a, b) ==
  LET turn(x) ==
        LET k == x.t.array[x.at + 1]
        IN  IF x.at = x.t.filled \/ x.a.stuck THEN x
            ELSE IF Find(x.a, k) # x.a.size THEN [x EXCEPT !.at = @ + 1]
            ELSE [x EXCEPT !.a = InsertUnique(x.a, k, 0), !.t = EraseAt(x.t, x.at)]
  IN  IF a.filled = 0 THEN [a |-> b, t |-> Cleaned(a)]
      ELSE Iterate(turn, [a |-> a, t |-> b, at |-> 0], b.filled)

Equal(a, b) == a.filled = b.filled /\ \A k \in Keys(a) : Find(b, k) # b.size

Becomes(m, flag) == t' = m /\ ret' = flag /\ UNCHANGED rhs

Absent(k) == Find(t, k) = t.size

Insert(k) == Becomes(CheckedInsert(t, k), Absent(k))

Erase(k) == Becomes(IF Absent(k) THEN t ELSE EraseSlot(t, Find(t, k)), ~ Absent(k))

\* The index and the array are built anew, for the same number of buckets.
MaxLoadFactor(lf) ==
  Becomes(IF lf < 992 /\ lf > MinLoad
          THEN Rehashed([t EXCEPT !.mlf = (FixedOne * 1000) \div lf], t.size) ELSE t, FALSE)

NewSet(n) ==
  LET mlf == (FixedOne * 1000) \div DefaultLoad
  IN  EmptyTable(BucketsFor(n), NeedSize(BucketsFor(n), n, mlf), mlf)

\* The constructor from a list asks for as many buckets as it has elements.
FromList(batch) == InsertEach(NewSet(Len(batch)), batch, 0, DoInsert)

Init == \E n \in Requests : t = NewSet(n) /\ rhs = NewSet(2) /\ ret = FALSE

\* With the default argument: below a quarter of the default load.
ShrinkToFit ==
  Becomes(IF 4000 * t.filled < DefaultLoad * t.size /\ t.size > SafeGuard
          THEN Rehashed(t, t.filled + 1) ELSE t, FALSE)

One ==
  \/ \E k \in Key : Insert(k) \/ Erase(k) \/ (Absent(k) /\ Becomes(InsertUnique(t, k, 0), TRUE))
  \/ \E batch \in Batches : Becomes(InsertRange(t, batch), FALSE) \/ Becomes(FromList(batch), FALSE)
  \/ \E n \in Requests : Becomes(Reserved(t, n), FALSE) \/ Becomes(Rehashed(t, n), FALSE)
  \/ \E lf \in LoadFactors : MaxLoadFactor(lf)
  \/ \E first, last \in 0 .. t.filled : first < last /\ Becomes(EraseRange(t, first, last), FALSE)
  \/ \E gone \in SUBSET Keys(t) : Becomes(EraseIf(t, gone), FALSE)
  \/ ShrinkToFit
  \/ Becomes(Cleaned(t), FALSE)

\* The constructor that moves leaves a new set of four buckets behind.
Two ==
  \/ Becomes(Copied(rhs), FALSE)
  \/ Becomes(Assigned(t, rhs), FALSE)
  \/ t' = rhs /\ rhs' = NewSet(0) /\ ret' = FALSE
  \/ t' = rhs /\ rhs' = Cleaned(t) /\ ret' = FALSE
  \/ t' = rhs /\ rhs' = t /\ ret' = FALSE
  \/ LET e == Merged(t, rhs) IN t' = e.a /\ rhs' = e.t /\ ret' = FALSE
  \/ Becomes(t, Equal(t, rhs))

Next == ~ t.stuck /\ ~ rhs.stuck /\ (One \/ Two)

Spec == Init /\ [][Next]_vars

-----------------------------------------------------------------------------

\* The elements lie without gaps, and each is named by one bucket.
Dense(m) ==
  /\ Len(m.array) = m.filled
  /\ { m.pairs[b].second : b \in Filled(m) } = 0 .. m.filled - 1
=============================================================================
