----------------------------- MODULE HashTable8 -----------------------------
(***************************************************************************)
(* emhash8::HashMap (include/emhash/hash_table8.hpp): the elements lie     *)
(* without gaps in the slots 0 .. num_filled - 1 of an array, and an index *)
(* of buckets, chained as in Chains, says which slot holds which key.      *)
(*                                                                         *)
(* index[b] is NoIndex for a bucket whose next is INACTIVE, and pairs[s]   *)
(* is NoPair for a slot that holds no element, so that a read of either    *)
(* stops TLC.  The steps of a call are those of HashTable7.                *)
(***************************************************************************)
EXTENDS Integers, Sequences, FiniteSets, Chains

CONSTANTS
  Key, Value, NoValue, NoPair, NoIndex,
  DefaultValue,   \* ValueT(), what operator[] stores
  Hash,           \* hash_key, a number for each key
  FixedOne,       \* 1 in the fixed point of _mlf (1 << 28 in the code)
  LoadFactors,    \* the arguments max_load_factor is called with, in 1/1000
  InitialLoads,   \* and those the constructors are called with
  DefaultLoad,    \* EMH_DEFAULT_LOAD_FACTOR, in 1/1000
  QuadraticProbeLength,  \* quadratic_probe_length of the probe (6)
  BucketCounts,   \* the sizes an index may take: powers of two from 4
  SafeGuard,      \* the bucket count shrink_to_fit leaves alone (10)
  PAIRS_CAPACITY_BUFFER,  \* the slots an array gets beside its share (4)
  Batches,        \* the ranges given to insert(first, last): sequences of keys
  Requests        \* the numbers given to reserve, rehash and the constructors

ASSUME ValueAssumption == NoValue \notin Value /\ DefaultValue \in Value
ASSUME HashAssumption == Hash \in [Key -> Nat]
ASSUME LoadAssumption ==
  /\ FixedOne \in Nat \ {0}
  /\ LoadFactors \subseteq Nat
  /\ DefaultLoad \in 251..999
  /\ InitialLoads \subseteq Nat /\ DefaultLoad \in InitialLoads
ASSUME BucketAssumption == BucketCounts \subseteq Nat \ {0, 1}
ASSUME BufferAssumption == PAIRS_CAPACITY_BUFFER \in Nat \ {0}
ASSUME InputAssumption ==
  /\ Batches \subseteq Seq(Key) /\ Requests \subseteq Nat
  /\ SafeGuard \in Nat /\ QuadraticProbeLength \in Nat

RESERVE_SLOTS == 2

Entry == [first : Key, second : Value]
Index == [next : Nat, slot : Nat, tag : Nat]

ASSUME NothingAssumption == NoPair \notin Entry /\ NoIndex \notin Index

VARIABLES
  num_buckets, num_filled, mlf, pairs_capacity,
  index,           \* the array of buckets
  pairs,           \* the array of elements
  last,            \* the probe hint
  slot,            \* the slot a rehash will index next
  todo,            \* the insertions the running call has still to do
  ret,             \* the flag the last insertion or erasure returned
  pc               \* "ready" between calls, else what the call is doing

layout == <<num_buckets, pairs_capacity>>
vars == <<layout, num_filled, mlf, index, pairs, last, slot, todo, ret, pc>>

Buckets == 0 .. num_buckets - 1

Pair(k, v) == [first |-> k, second |-> v]
Node(b, s, t) == [next |-> b, slot |-> s, tag |-> t]

-----------------------------------------------------------------------------
(* Reading the table.                                                      *)

\* The low bits of the hash choose the bucket; the others are kept beside the
\* slot number, and a search compares them before it compares keys.
Main(k) == Hash[k] % num_buckets
Tag(k) == Hash[k] \div num_buckets

Filled == { b \in Buckets : index[b] # NoIndex }

KeyAt(b) == pairs[index[b].slot].first

Link == [b \in Filled |-> index[b].next]

Home == [b \in Filled |-> Main(KeyAt(b))]

Chain(b) == Reach(Filled, Link, b)

Hits(k, b) == index[b].tag = Tag(k) /\ KeyAt(b) = k

\* The bucket of k, INACTIVE in the code when there is none.
FindFilledBucket(k) ==
  LET hits == IF Main(k) \notin Filled THEN {} ELSE { b \in Chain(Main(k)) : Hits(k, b) }
  IN  IF hits = {} THEN num_buckets ELSE CHOOSE b \in hits : TRUE

\* find_or_allocate looks along the chain only if it starts at its own bucket.
Meets(k) ==
  LET b == FindFilledBucket(k)
  IN  b # num_buckets /\ (b = Main(k) \/ Home[Main(k)] = Main(k))

FindLastBucket(b) == CHOOSE t \in Chain(b) : Link[t] = t

FindPrevBucket(main, b) == CHOOSE p \in Chain(main) : p # b /\ Link[p] = b

\* find_slot_bucket: the bucket of the chain of its key that names slot s.
SlotToBucket(s) == CHOOSE b \in Chain(Main(pairs[s].first)) : index[b].slot = s

-----------------------------------------------------------------------------
(* The probe for an empty bucket.                                          *)

\* The bucket behind the last one is a sentinel, and not empty.
IsEmpty(b) == b \in Buckets /\ index[b] = NoIndex

Lowest(S) == CHOOSE x \in S : \A y \in S : x =< y

\* The two buckets behind from, then a pair for each step of the loop, at
\* distances that grow by the step.
Offset(step, csize) == 1 + csize + (step * (step - 1)) \div 2 - 3

Near(from, csize) ==
  LET At(offset) == (from + offset) % num_buckets
  IN  [i \in 1 .. 2 * QuadraticProbeLength - 4 |->
        IF i =< 2 THEN At(i)
        ELSE At(Offset(2 + (i - 1) \div 2, csize)) + ((i - 1) % 2)]

NearHits(from, csize) == { i \in DOMAIN Near(from, csize) : IsEmpty(Near(from, csize)[i]) }

\* Then the hint goes round, and a second bucket half a table further with it.
Turn(i) == ((last + i) % num_buckets) + 1
Medium(i) == (num_buckets \div 2 + Turn(i)) % num_buckets
FirstTurn == Lowest({ i \in Buckets : IsEmpty(Turn(i)) \/ IsEmpty(Medium(i)) })

FindEmptyBucket(from, csize) ==
  IF NearHits(from, csize) # {} THEN Near(from, csize)[Lowest(NearHits(from, csize))]
  ELSE IF IsEmpty(Turn(FirstTurn)) THEN Turn(FirstTurn) ELSE Medium(FirstTurn)

LastAfter(from, csize) ==
  IF NearHits(from, csize) # {} THEN last ELSE Turn(FirstTurn)

-----------------------------------------------------------------------------
(* Indexing slot s under a key that is in no chain: find_unique_bucket,    *)
(* and what find_or_allocate does on a miss.                               *)

IndexAtMain(k, s) ==
  LET b == Main(k)
  IN  /\ b \notin Filled
      /\ index' = [index EXCEPT ![b] = Node(b, s, Tag(k))]
      /\ UNCHANGED last

\* kickout_bucket: only the index changes, the guest's element stays.
IndexByKickout(k, s) ==
  LET b == Main(k)
      new == FindEmptyBucket(Link[b], 2)
      prev == FindPrevBucket(Home[b], b)
  IN  /\ b \in Filled /\ Home[b] # b /\ Filled # Buckets
      /\ index' = [index EXCEPT ![new] = Node(IF Link[b] = b THEN new ELSE Link[b],
                                              index[b].slot, index[b].tag),
                                ![prev].next = new,
                                ![b] = Node(b, s, Tag(k))]
      /\ last' = LastAfter(Link[b], 2)

IndexAtTail(k, s, csize) ==
  LET b == Main(k)
      tail == FindLastBucket(b)
      new == FindEmptyBucket(tail, csize)
  IN  /\ b \in Filled /\ Home[b] = b /\ Filled # Buckets
      /\ index' = [index EXCEPT ![tail].next = new, ![new] = Node(new, s, Tag(k))]
      /\ last' = LastAfter(tail, csize)

IndexSlot(k, s, csize) ==
  IndexAtMain(k, s) \/ IndexByKickout(k, s) \/ IndexAtTail(k, s, csize)

-----------------------------------------------------------------------------
(* Growing: reserve, rehash, rebuild.                                      *)

RequiredBuckets(n) == (n * mlf) \div FixedOne

BucketsFor(n) == Lowest({ s \in BucketCounts : s >= n })
Allocatable(n) == \E s \in BucketCounts : s >= n

\* Mutant: only the share, without the slots kept back.
NeedSizeTight(buckets, required) == (buckets * FixedOne) \div mlf

\* The slots the array gets: the share of the index that may be filled, and at
\* least two more than were asked for.
NeedSize(buckets, required) ==
  LET share == (buckets * FixedOne) \div mlf + PAIRS_CAPACITY_BUFFER
  IN  IF share >= required + RESERVE_SLOTS THEN share ELSE required + RESERVE_SLOTS

StartIndexing ==
  /\ index' = [b \in 0 .. num_buckets' - 1 |-> NoIndex]
  /\ last' = 0 /\ slot' = 0
  /\ pc' = "rehash"

\* rehash(required), when it is not below the number of elements.
StartRehash(required) ==
  /\ Allocatable(required)
  /\ num_buckets' = BucketsFor(required)
  /\ pairs_capacity' = NeedSize(num_buckets', required)
  /\ pairs' = [s \in 0 .. pairs_capacity' - 1 |-> IF s < num_filled THEN pairs[s] ELSE NoPair]
  /\ StartIndexing
  /\ UNCHANGED <<num_filled, mlf>>

\* Mutant: the comparison of the early return is one off.
NeedsRehashLate(n) == RequiredBuckets(n) > num_buckets

NeedsRehash(n) == RequiredBuckets(n) >= num_buckets

\* What a call does once its growth, if any, is over.
Resume(requests) == IF requests = <<>> THEN "ready" ELSE "insert"

\* reserve(n, false), and then the insertions of the call.
Call(n, requests) ==
  /\ pc = "ready"
  /\ todo' = requests
  /\ IF NeedsRehash(n)
     THEN StartRehash(RequiredBuckets(n) + RESERVE_SLOTS)
     ELSE pc' = Resume(requests) /\ UNCHANGED <<layout, num_filled, mlf, index, pairs, last, slot>>
  /\ UNCHANGED ret

-----------------------------------------------------------------------------
(* The calls that insert or change the size.                               *)

Insert(k, v) == Call(num_filled, <<[op |-> "insert", key |-> k, val |-> v]>>)

OperatorIndex(k) == Insert(k, DefaultValue)

\* do_assign; set_get does the same and returns the value it replaced.
InsertOrAssign(k, v) == Call(num_filled, <<[op |-> "assign", key |-> k, val |-> v]>>)

\* The caller promises that k is new.
InsertUnique(k, v) ==
  /\ FindFilledBucket(k) = num_buckets
  /\ Call(num_filled, <<[op |-> "unique", key |-> k, val |-> v]>>)

RangeRequests(keys, v) ==
  [i \in DOMAIN keys |-> [op |-> "insert", key |-> keys[i], val |-> v]]

\* One growth for the whole range, then do_insert without a check.
InsertRange(keys, v) == Call(num_filled + Len(keys), RangeRequests(keys, v))

Rehash(n) ==
  /\ pc = "ready"
  /\ IF n < num_filled
     THEN UNCHANGED <<layout, num_filled, mlf, index, pairs, last, slot, pc>>
     ELSE StartRehash(n)
  /\ UNCHANGED <<todo, ret>>

\* reserve(required_buckets): the index is built anew, where it is if the
\* number asked for is that of the elements.
Reserve(n) ==
  IF n # num_filled THEN Rehash(RequiredBuckets(n) + RESERVE_SLOTS)
  ELSE /\ pc = "ready"
       /\ UNCHANGED layout
       /\ StartIndexing
       /\ UNCHANGED <<num_filled, mlf, pairs, todo, ret>>

\* With the default argument: below a quarter of the default load.
ShrinkToFit ==
  /\ 4000 * num_filled < DefaultLoad * num_buckets /\ num_buckets > SafeGuard
  /\ Rehash(num_filled + 1)

Accepted(lf) == lf =< 999 /\ lf > 250

MaxLoadFactor(lf) ==
  /\ pc = "ready"
  /\ mlf' = IF Accepted(lf) THEN (FixedOne * 1000) \div lf ELSE mlf
  /\ UNCHANGED <<layout, num_filled, index, pairs, last, slot, todo, ret, pc>>

\* try_set writes only where the key is.
TrySet(k, v) ==
  LET b == FindFilledBucket(k)
  IN  /\ pc = "ready"
      /\ ret' = (b # num_buckets)
      /\ pairs' = IF b = num_buckets THEN pairs
                  ELSE [pairs EXCEPT ![index[b].slot] = Pair(k, v)]
      /\ UNCHANGED <<layout, num_filled, mlf, index, last, slot, todo, pc>>

-----------------------------------------------------------------------------
(* The steps of a running call.                                            *)

\* The loop of rehash, and of reserve: the next slot is indexed.
RehashStep ==
  /\ pc = "rehash" /\ slot < num_filled
  /\ IndexSlot(pairs[slot].first, slot, 2)
  /\ slot' = slot + 1
  /\ UNCHANGED <<layout, num_filled, mlf, pairs, todo, ret, pc>>

RehashDone ==
  /\ pc = "rehash" /\ slot = num_filled
  /\ slot' = 0
  /\ pc' = Resume(todo)
  /\ UNCHANGED <<layout, num_filled, mlf, index, pairs, last, todo, ret>>

\* Mutant: a plain insert replaces the value as well.
InsertHitOverwrites ==
  LET req == Head(todo)
      s == index[FindFilledBucket(req.key)].slot
  IN  /\ pc = "insert" /\ req.op # "unique" /\ Meets(req.key)
      /\ pairs' = [pairs EXCEPT ![s].second = req.val]
      /\ todo' = Tail(todo)
      /\ pc' = Resume(Tail(todo))
      /\ ret' = FALSE
      /\ UNCHANGED <<layout, num_filled, mlf, index, last, slot>>

InsertHit ==
  LET req == Head(todo)
      s == index[FindFilledBucket(req.key)].slot
  IN  /\ pc = "insert" /\ req.op # "unique" /\ Meets(req.key)
      /\ pairs' = IF req.op = "assign" THEN [pairs EXCEPT ![s].second = req.val] ELSE pairs
      /\ todo' = Tail(todo)
      /\ pc' = Resume(Tail(todo))
      /\ ret' = FALSE
      /\ UNCHANGED <<layout, num_filled, mlf, index, last, slot>>

Misses(req) == req.op = "unique" \/ ~ Meets(req.key)

\* How far find_or_allocate has walked when it finds the end of the chain.
Walked(req) ==
  IF req.op = "unique" \/ Main(req.key) \notin Filled THEN 2
  ELSE Cardinality(Chain(Main(req.key)))

\* EMH_NEW: the element is built behind the last one, if the array has a slot
\* there.
InsertMiss ==
  LET req == Head(todo)
  IN  /\ pc = "insert" /\ Misses(req) /\ num_filled < pairs_capacity
      /\ IndexSlot(req.key, num_filled, Walked(req))
      /\ pairs' = [pairs EXCEPT ![num_filled] = Pair(req.key, req.val)]
      /\ num_filled' = num_filled + 1
      /\ todo' = Tail(todo)
      /\ pc' = Resume(Tail(todo))
      /\ ret' = TRUE
      /\ UNCHANGED <<layout, mlf, slot>>

\* If it has none the program writes behind the array.  Nothing is said of it
\* from then on.
Overrun ==
  /\ pc = "insert" /\ Misses(Head(todo)) /\ num_filled >= pairs_capacity
  /\ UNCHANGED vars

-----------------------------------------------------------------------------
(* Removing: erase_slot, with the erase_bucket it calls.                   *)

\* The bucket erase_bucket gives up: of a head, that of its second element.
Freed(b) == IF Home[b] = b THEN Link[b] ELSE b

\* Mutant: the element before it becomes the last one.
UnlinkedDropsRest(b) ==
  LET next == Link[b]
      prev == FindPrevBucket(Home[b], b)
  IN  IF Home[b] # b
      THEN [index EXCEPT ![prev].next = prev]
      ELSE IF next = b THEN index
      ELSE [index EXCEPT ![b] = Node(IF Link[next] = next THEN b ELSE Link[next],
                                     index[next].slot, index[next].tag)]

\* The index without it.
Unlinked(b) ==
  LET next == Link[b]
      prev == FindPrevBucket(Home[b], b)
  IN  IF Home[b] # b
      THEN [index EXCEPT ![prev].next = IF next = b THEN prev ELSE next]
      ELSE IF next = b THEN index
      ELSE [index EXCEPT ![b] = Node(IF Link[next] = next THEN b ELSE Link[next],
                                     index[next].slot, index[next].tag)]

\* Mutant: the last element is looked for where it was before.
UpdateBucketStale(b) == SlotToBucket(num_filled - 1)

\* The bucket that will name the last element, when it has moved.
UpdateBucket(b) ==
  LET lastBucket == SlotToBucket(num_filled - 1)
  IN  IF lastBucket = Freed(b) /\ Home[b] = b THEN b ELSE lastBucket

\* The last element moves into the slot of the one that is erased.
EraseSlot(b) ==
  LET s == index[b].slot
      lastSlot == num_filled - 1
      moved == IF s = lastSlot THEN Unlinked(b)
               ELSE [Unlinked(b) EXCEPT ![UpdateBucket(b)].slot = s]
  IN  /\ index' = [moved EXCEPT ![Freed(b)] = NoIndex]
      /\ pairs' = [pairs EXCEPT ![s] = pairs[lastSlot], ![lastSlot] = NoPair]
      /\ num_filled' = lastSlot
      /\ UNCHANGED <<layout, mlf, last, slot, todo, pc>>

EraseKey(k) ==
  /\ pc = "ready"
  /\ LET b == FindFilledBucket(k)
     IN  /\ ret' = (b # num_buckets)
         /\ IF b = num_buckets
            THEN UNCHANGED <<layout, num_filled, mlf, index, pairs, last, slot, todo, pc>>
            ELSE EraseSlot(b)

\* erase(iterator), pop_front and pop_back: the bucket is looked up once.
EraseAt(s) == \E b \in {SlotToBucket(s)} : EraseSlot(b)

EraseIterator(s) == pc = "ready" /\ EraseAt(s) /\ UNCHANGED ret

Clear ==
  /\ pc = "ready"
  /\ index' = IF num_filled > 0 THEN [b \in Buckets |-> NoIndex] ELSE index
  /\ pairs' = [s \in DOMAIN pairs |-> NoPair]
  /\ num_filled' = 0
  /\ last' = 0
  /\ UNCHANGED <<layout, mlf, slot, todo, ret, pc>>

-----------------------------------------------------------------------------
\* HashMap(bucket, mlf), and the constructor from an initializer list, which
\* asks for as many buckets as it has elements and inserts them unchecked.
Init ==
  \E n \in Requests, lf \in InitialLoads, keys \in Batches \cup {<<>>}, v \in Value :
    LET asked == IF keys = <<>> THEN n ELSE Len(keys)
        load == IF keys = <<>> /\ Accepted(lf) THEN lf ELSE DefaultLoad
    IN  /\ Allocatable(asked)
        /\ num_buckets = BucketsFor(asked)
        /\ num_filled = 0
        /\ mlf = (FixedOne * 1000) \div load
        /\ pairs_capacity = NeedSize(num_buckets, asked)
        /\ index = [b \in Buckets |-> NoIndex]
        /\ pairs = [s \in 0 .. pairs_capacity - 1 |-> NoPair]
        /\ last = 0 /\ slot = 0
        /\ todo = RangeRequests(keys, v)
        /\ ret = FALSE
        /\ pc = Resume(todo)

Internal == RehashStep \/ RehashDone \/ InsertHit \/ InsertMiss

External ==
  \/ \E k \in Key, v \in Value :
       Insert(k, v) \/ InsertOrAssign(k, v) \/ InsertUnique(k, v) \/ TrySet(k, v)
  \/ \E k \in Key : OperatorIndex(k) \/ EraseKey(k)
  \/ \E keys \in Batches, v \in Value : InsertRange(keys, v)
  \/ \E n \in Requests : Reserve(n) \/ Rehash(n)
  \/ \E lf \in LoadFactors : MaxLoadFactor(lf)
  \/ \E s \in 0 .. num_filled - 1 : EraseIterator(s)
  \/ ShrinkToFit
  \/ Clear

Next == Internal \/ External \/ Overrun

Spec == Init /\ [][Next]_vars

-----------------------------------------------------------------------------
(* Properties.                                                             *)

\* The elements the index names, all of them but in a rehash.
Indexed == IF pc = "rehash" THEN slot ELSE num_filled

\* The index and the array agree: the elements lie without gaps, each one is
\* named by exactly one bucket, and the bits kept there are those of its key's
\* hash, whatever erase_slot moved and kickout_bucket relinked.
DenseExact ==
  /\ \A s \in DOMAIN pairs : pairs[s] # NoPair <=> s < num_filled
  /\ { index[b].slot : b \in Filled } = 0 .. Indexed - 1
  /\ Cardinality(Filled) = Indexed
  /\ \A b \in Filled : index[b].tag = Tag(KeyAt(b))

\* Between calls a search by key finds exactly the keys that are stored, and a
\* search by position (slot_to_bucket) finds every position.
LookupExact ==
  pc = "ready" =>
    /\ \A k \in Key :
         LET b == FindFilledBucket(k)
         IN  IF \E s \in 0 .. num_filled - 1 : pairs[s].first = k
             THEN b \in Filled /\ KeyAt(b) = k
             ELSE b = num_buckets
    /\ \A s \in 0 .. num_filled - 1 : index[SlotToBucket(s)].slot = s

\* The next step of the call needs a bucket other than the main one.
NeedsProbe ==
  \/ pc = "rehash" /\ slot < num_filled /\ Main(pairs[slot].first) \in Filled
  \/ pc = "insert" /\ Misses(Head(todo)) /\ Main(Head(todo).key) \in Filled

\* The probe for an empty bucket never runs on an index that has none, on which
\* it would not end.
ProbeHasRoom == NeedsProbe => Filled # Buckets

\* An element is never built behind the end of the array: the room reserve
\* decided to have is room for an element, and not only for its bucket.
PairsFit == pc = "insert" /\ Misses(Head(todo)) => num_filled < pairs_capacity

\* The array has the slots that the present load factor would give it.  This
\* ends when the factor is raised, until a rehash or until it is lowered again.
HasShare == pairs_capacity >= NeedSize(num_buckets, 0)

\* So long as it has them, no element is built behind its end, also if it was
\* filled to the last slot under a higher factor.
PairsFitShare == HasShare => PairsFit

\* The map a caller sees lies in the array, in whatever order.
Elements == { <<pairs[s].first, pairs[s].second>> : s \in 0 .. num_filled - 1 }

Contents ==
  [k \in Key |-> IF \E v \in Value : <<k, v>> \in Elements
                 THEN CHOOSE v \in Value : <<k, v>> \in Elements ELSE NoValue]

Abstract == INSTANCE MapSpec WITH map <- Contents

\* Every step does to the map what the call promises, while elements move from
\* slot to slot and buckets are relinked.
ImplementsMap == Abstract!Spec
=============================================================================
