----------------------------- MODULE HashTable7 -----------------------------
(***************************************************************************)
(* emhash7::HashMap (include/emhash/hash_table7.hpp): an open table whose  *)
(* collision chains are linked through the buckets themselves.  A public   *)
(* call that only searches or removes is one step; a call that may grow    *)
(* the table is a step that decides about the growth, one step for each    *)
(* element the rehash moves, and one for each element it then inserts.     *)
(*                                                                         *)
(* pairs[b] is NoPair where no element is alive, so a read of a bucket     *)
(* that holds none stops TLC, as it would be undefined in C++.             *)
(***************************************************************************)
EXTENDS Integers, Sequences, FiniteSets, Chains

CONSTANTS
  Key, Value, NoValue, NoPair,
  DefaultValue,   \* ValueT(), what operator[] stores
  Hash,           \* hash_key, a number for each key
  FixedOne,       \* 1 in the fixed point of _mlf (1 << 28 in the code)
  LoadFactors,    \* the arguments max_load_factor is called with, in 1/1000
  DefaultLoad,    \* EMH_DEFAULT_LOAD_FACTOR, in 1/1000
  BucketCounts,   \* the sizes a table may take: powers of two below max_size
  SizeBit,        \* bits in the word a probe reads at once (64)
  MaskBit,        \* bits in the unit such a read is aligned to (8)
  SmallTable,     \* the constant 64 of reserve under EMH_HIGH_LOAD
  Batches,        \* the ranges given to insert(first, last): sequences of keys
  Requests,       \* the numbers given to reserve, rehash and the constructors
  EMH_HIGH_LOAD, EMH_LRU_SET  \* the two compile-time switches

ASSUME ValueAssumption == NoValue \notin Value /\ DefaultValue \in Value
ASSUME HashAssumption == Hash \in [Key -> Nat]
ASSUME LoadAssumption ==
  /\ FixedOne \in Nat \ {0}
  /\ LoadFactors \subseteq Nat
  /\ DefaultLoad \in 251..999
ASSUME BucketAssumption == BucketCounts \subseteq Nat \ {0, 1}
ASSUME WordAssumption == SizeBit \in Nat \ {0} /\ MaskBit \in Nat \ {0}
ASSUME SwitchAssumption == EMH_HIGH_LOAD \in BOOLEAN /\ EMH_LRU_SET \in BOOLEAN
ASSUME InputAssumption ==
  Batches \subseteq Seq(Key) /\ Requests \subseteq Nat /\ SmallTable \in Nat

Entry == [first : Key, second : Value, bucket : Nat]

Request == [op : {"insert", "assign", "unique"}, key : Key, val : Value]

ASSUME NoPairAssumption == NoPair \notin Entry

VARIABLES
  num_buckets, num_filled, mlf,
  bitmask,         \* the buckets whose bit is 1: those that are empty
  pairs,           \* the array of entries
  last,            \* the probe hint kept behind the array
  old, old_filled, \* the elements a rehash has still to move, and its target
  todo,            \* the insertions the running call has still to do
  ret,             \* the flag the last insertion or erasure returned
  pc               \* "ready" between calls, else what the call is doing

probe == <<bitmask, pairs, num_filled, last>>
table == <<probe, num_buckets, mlf>>
moving == <<old, old_filled>>
vars == <<table, moving, todo, ret, pc>>

Buckets == 0 .. num_buckets - 1

Pair(k, v, b) == [first |-> k, second |-> v, bucket |-> b]

-----------------------------------------------------------------------------
(* Reading the table.                                                      *)

\* hash_key(key) & _mask, the mask of a power of two.
Main(k) == Hash[k] % num_buckets

Filled == Buckets \ bitmask

Link == [b \in Filled |-> pairs[b].bucket]

Home == [b \in Filled |-> Main(pairs[b].first)]

Chain(b) == Reach(Filled, Link, b)

\* The bucket a walk from the main bucket of k finds it in, else num_buckets.
FindFilledBucket(k) ==
  LET hits == IF Main(k) \in bitmask THEN {}
              ELSE { b \in Chain(Main(k)) : pairs[b].first = k }
  IN  IF hits = {} THEN num_buckets ELSE CHOOSE b \in hits : TRUE

\* find_or_allocate looks along the chain only if it starts at its own bucket.
Meets(k) ==
  LET b == FindFilledBucket(k)
  IN  b # num_buckets /\ (b = Main(k) \/ Home[Main(k)] = Main(k))

FindLastBucket(b) == CHOOSE t \in Chain(b) : Link[t] = t

FindPrevBucket(main, b) == CHOOSE p \in Chain(main) : p # b /\ Link[p] = b

-----------------------------------------------------------------------------
(* The probe for an empty bucket.                                          *)

QMask == (num_buckets - 1) \div SizeBit

\* x & qmask, for an x that is at most one turn too large.
Wrap(x) == IF x > QMask THEN x - (QMask + 1) ELSE x

\* The empty buckets the first, unaligned read sees.
Window(from) ==
  { b \in bitmask : /\ from =< b
                    /\ b \div MaskBit < from \div MaskBit + SizeBit \div MaskBit }

\* The empty buckets of the aligned word w.
Word(w) == { b \in bitmask : b \div SizeBit = w }

\* The i-th turn of the loop reads the word at the hint plus i, then the one
\* half a table further.
Turn(i) == Wrap(Wrap(last) + i)
Mirror(w) == Wrap(QMask \div 2 + w)

Lowest(S) == CHOOSE x \in S : \A y \in S : x =< y

FirstTurn ==
  Turn(Lowest({ i \in 0..QMask : Word(Turn(i)) \cup Word(Mirror(Turn(i))) # {} }))

\* The word the loop ends at, which the hint is left on.
HitWord == IF Word(FirstTurn) # {} THEN FirstTurn ELSE Mirror(FirstTurn)

FindEmptyBucket(from) ==
  IF Window(from) # {} THEN Lowest(Window(from)) ELSE Lowest(Word(HitWord))

LastAfter(from) == IF Window(from) # {} THEN last ELSE HitWord

-----------------------------------------------------------------------------
(* Placing a key that is not in the table: find_unique_bucket, and what    *)
(* find_or_allocate does on a miss, with the EMH_NEW that follows.  There  *)
(* are three ways, and a fourth that never ends.                           *)

\* Its main bucket is empty.
PlaceAtMain(k, v) ==
  LET b == Main(k)
  IN  /\ b \in bitmask
      /\ pairs' = [pairs EXCEPT ![b] = Pair(k, v, b)]
      /\ bitmask' = bitmask \ {b}
      /\ num_filled' = num_filled + 1
      /\ UNCHANGED last

\* Mutant: the bucket that linked to the guest still does.
PlaceByKickoutStale(k, v) ==
  LET b == Main(k)
      next == Link[b]
      new == FindEmptyBucket(next)
      guest == Pair(pairs[b].first, pairs[b].second, IF next = b THEN new ELSE next)
  IN  /\ b \notin bitmask /\ Home[b] # b /\ bitmask # {}
      /\ pairs' = [pairs EXCEPT ![new] = guest, ![b] = Pair(k, v, b)]
      /\ bitmask' = bitmask \ {new}
      /\ num_filled' = num_filled + 1
      /\ last' = LastAfter(next)

\* A guest holds it: kickout_bucket moves the guest to an empty bucket, and
\* whatever linked to the guest follows.
PlaceByKickout(k, v) ==
  LET b == Main(k)
      next == Link[b]
      new == FindEmptyBucket(next)
      prev == FindPrevBucket(Home[b], b)
      guest == Pair(pairs[b].first, pairs[b].second, IF next = b THEN new ELSE next)
  IN  /\ b \notin bitmask /\ Home[b] # b /\ bitmask # {}
      /\ pairs' = [pairs EXCEPT ![new] = guest,
                                ![prev] = Pair(pairs[prev].first, pairs[prev].second, new),
                                ![b] = Pair(k, v, b)]
      /\ bitmask' = bitmask \ {new}
      /\ num_filled' = num_filled + 1
      /\ last' = LastAfter(next)

\* Its own chain starts there: an empty bucket is linked behind the last one.
PlaceAtTail(k, v) ==
  LET b == Main(k)
      tail == FindLastBucket(b)
      new == FindEmptyBucket(tail)
  IN  /\ b \notin bitmask /\ Home[b] = b /\ bitmask # {}
      /\ pairs' = [pairs EXCEPT ![tail] = Pair(pairs[tail].first, pairs[tail].second, new),
                                ![new] = Pair(k, v, new)]
      /\ bitmask' = bitmask \ {new}
      /\ num_filled' = num_filled + 1
      /\ last' = LastAfter(tail)

Place(k, v) == PlaceAtMain(k, v) \/ PlaceByKickout(k, v) \/ PlaceAtTail(k, v)

\* No bucket is empty and one is needed: the assertion of find_empty_bucket
\* fails, or with NDEBUG its loop never ends.  The call then takes no more steps.
NoRoomFor(k) == Main(k) \notin bitmask /\ bitmask = {}

-----------------------------------------------------------------------------
(* Growing: reserve, rehash.                                               *)

RequiredBuckets(n) == (n * mlf) \div FixedOne

\* Mutant: the comparison of the early return is one off.
NeedsRehashLate(n) == RequiredBuckets(n) > num_buckets

NeedsRehash(n) ==
  /\ RequiredBuckets(n) >= num_buckets
  /\ ~ (EMH_HIGH_LOAD /\ RequiredBuckets(n) < SmallTable /\ num_filled < num_buckets)

\* Doubling from two until it suffices; assert(buckets < max_size()) is the
\* condition that a size of BucketCounts does.
BucketsFor(n) == Lowest({ s \in BucketCounts : s >= n })
Allocatable(n) == \E s \in BucketCounts : s >= n

\* Mutant: the hint behind the new array is not reset.
StartRehashStaleHint(n) ==
  /\ Allocatable(n)
  /\ num_buckets' = BucketsFor(n)
  /\ bitmask' = 0 .. num_buckets' - 1
  /\ pairs' = [b \in bitmask' |-> NoPair]
  /\ old' = [b \in Filled |-> pairs[b]]
  /\ old_filled' = num_filled
  /\ num_filled' = 0
  /\ pc' = "rehash"
  /\ UNCHANGED <<mlf, last>>

StartRehash(n) ==
  /\ Allocatable(n)
  /\ num_buckets' = BucketsFor(n)
  /\ bitmask' = 0 .. num_buckets' - 1
  /\ pairs' = [b \in bitmask' |-> NoPair]
  /\ last' = 0
  /\ old' = [b \in Filled |-> pairs[b]]
  /\ old_filled' = num_filled
  /\ num_filled' = 0
  /\ pc' = "rehash"
  /\ UNCHANGED mlf

\* What a call does once its growth, if any, is over.
Resume(requests) == IF requests = <<>> THEN "ready" ELSE "insert"

\* reserve(n), and then the insertions of the call.
Call(n, requests) ==
  /\ pc = "ready"
  /\ todo' = requests
  /\ IF NeedsRehash(n)
     THEN StartRehash(RequiredBuckets(n) + 2)
     ELSE pc' = Resume(requests) /\ UNCHANGED <<table, moving>>
  /\ UNCHANGED ret

-----------------------------------------------------------------------------
(* The calls that insert or change the size.                               *)

Insert(k, v) == Call(num_filled, <<[op |-> "insert", key |-> k, val |-> v]>>)

OperatorIndex(k) == Insert(k, DefaultValue)

InsertOrAssign(k, v) == Call(num_filled, <<[op |-> "assign", key |-> k, val |-> v]>>)

\* The caller promises that k is new.
InsertUnique(k, v) ==
  /\ FindFilledBucket(k) = num_buckets
  /\ Call(num_filled, <<[op |-> "unique", key |-> k, val |-> v]>>)

RangeRequests(keys, v) ==
  [i \in DOMAIN keys |-> [op |-> "insert", key |-> keys[i], val |-> v]]

\* One growth for the whole range, then do_insert without a check.
InsertRange(keys, v) == Call(num_filled + Len(keys), RangeRequests(keys, v))

Reserve(n) == Call(n, <<>>)

Rehash(n) ==
  /\ pc = "ready"
  /\ IF n < num_filled THEN UNCHANGED <<table, moving, pc>> ELSE StartRehash(n)
  /\ UNCHANGED <<todo, ret>>

ShrinkToFit == Rehash(num_filled + 1)

MaxLoadFactor(lf) ==
  /\ pc = "ready"
  /\ mlf' = IF lf =< 999 /\ lf > 250 THEN (FixedOne * 1000) \div lf ELSE mlf
  /\ UNCHANGED <<probe, num_buckets, moving, todo, ret, pc>>

-----------------------------------------------------------------------------
(* The steps of a running call.                                            *)

\* Mutant: the index of the loop is stepped twice.
RehashStepSkips ==
  LET src == CHOOSE b \in DOMAIN old : \A c \in DOMAIN old : c =< b
  IN  /\ pc = "rehash" /\ num_filled < old_filled
      /\ Place(old[src].first, old[src].second)
      /\ old' = [b \in DOMAIN old \ {src, src - 1} |-> old[b]]
      /\ UNCHANGED <<num_buckets, mlf, old_filled, todo, ret, pc>>

\* The loop of rehash moves the elements from the highest old bucket down.
RehashStep ==
  LET src == CHOOSE b \in DOMAIN old : \A c \in DOMAIN old : c =< b
  IN  /\ pc = "rehash" /\ num_filled < old_filled
      /\ Place(old[src].first, old[src].second)
      /\ old' = [b \in DOMAIN old \ {src} |-> old[b]]
      /\ UNCHANGED <<num_buckets, mlf, old_filled, todo, ret, pc>>

\* The old array is freed, with whatever it still holds.
RehashDone ==
  /\ pc = "rehash" /\ num_filled >= old_filled
  /\ old' = [b \in {} |-> NoPair]
  /\ old_filled' = 0
  /\ pc' = Resume(todo)
  /\ UNCHANGED <<table, todo, ret>>

\* Mutant: a plain insert replaces the value as well.
InsertHitOverwrites ==
  LET req == Head(todo)
      b == FindFilledBucket(req.key)
  IN  /\ pc = "insert" /\ req.op # "unique" /\ Meets(req.key)
      /\ pairs' = [pairs EXCEPT ![b] = Pair(req.key, req.val, Link[b])]
      /\ todo' = Tail(todo)
      /\ pc' = Resume(Tail(todo))
      /\ ret' = FALSE
      /\ UNCHANGED <<bitmask, num_filled, last, num_buckets, mlf, moving>>

\* find_or_allocate meets the key: with EMH_LRU_SET its element moves one
\* place towards the head of the chain.  Only insert_or_assign writes.
InsertHit ==
  LET req == Head(todo)
      b == FindFilledBucket(req.key)
      main == Main(req.key)
      to == IF EMH_LRU_SET /\ b # main THEN FindPrevBucket(main, b) ELSE b
      val == IF req.op = "assign" THEN req.val ELSE pairs[b].second
  IN  /\ pc = "insert" /\ req.op # "unique"
      /\ Meets(req.key)
      /\ pairs' = [pairs EXCEPT ![b] = Pair(pairs[to].first, pairs[to].second, Link[b]),
                                ![to] = Pair(req.key, val, Link[to])]
      /\ todo' = Tail(todo)
      /\ pc' = Resume(Tail(todo))
      /\ ret' = FALSE
      /\ UNCHANGED <<bitmask, num_filled, last, num_buckets, mlf, moving>>

InsertMiss ==
  LET req == Head(todo)
  IN  /\ pc = "insert"
      /\ req.op = "unique" \/ ~ Meets(req.key)
      /\ Place(req.key, req.val)
      /\ todo' = Tail(todo)
      /\ pc' = Resume(Tail(todo))
      /\ ret' = TRUE
      /\ UNCHANGED <<num_buckets, mlf, moving>>

-----------------------------------------------------------------------------
(* Removing: erase_bucket and erase_key, with the clear_bucket that follows *)

\* The only element of its chain.
RemoveAlone(b) ==
  /\ Home[b] = b /\ Link[b] = b
  /\ pairs' = [pairs EXCEPT ![b] = NoPair]
  /\ bitmask' = bitmask \cup {b}

\* Mutant: the bit of the head is set, not that of the bucket given up.
RemoveHeadWrongBit(b) ==
  LET next == Link[b]
      link == IF Link[next] = next THEN b ELSE Link[next]
  IN  /\ Home[b] = b /\ next # b
      /\ pairs' = [pairs EXCEPT ![b] = Pair(pairs[next].first, pairs[next].second, link),
                                ![next] = NoPair]
      /\ bitmask' = bitmask \cup {b}

\* The head of a chain: the second element moves into it.
RemoveHead(b) ==
  LET next == Link[b]
      link == IF Link[next] = next THEN b ELSE Link[next]
  IN  /\ Home[b] = b /\ next # b
      /\ pairs' = [pairs EXCEPT ![b] = Pair(pairs[next].first, pairs[next].second, link),
                                ![next] = NoPair]
      /\ bitmask' = bitmask \cup {next}

\* Mutant: the element before it becomes the last one.
UnlinkDropsRest(b) ==
  LET prev == FindPrevBucket(Home[b], b)
  IN  /\ Home[b] # b
      /\ pairs' = [pairs EXCEPT ![prev] = Pair(pairs[prev].first, pairs[prev].second, prev),
                                ![b] = NoPair]
      /\ bitmask' = bitmask \cup {b}

\* An element further down: the one before it takes its link.
Unlink(b) ==
  LET prev == FindPrevBucket(Home[b], b)
      link == IF Link[b] = b THEN prev ELSE Link[b]
  IN  /\ Home[b] # b
      /\ pairs' = [pairs EXCEPT ![prev] = Pair(pairs[prev].first, pairs[prev].second, link),
                                ![b] = NoPair]
      /\ bitmask' = bitmask \cup {b}

EraseBucket(b) ==
  /\ RemoveAlone(b) \/ RemoveHead(b) \/ Unlink(b)
  /\ num_filled' = num_filled - 1
  /\ UNCHANGED <<last, num_buckets, mlf, moving, todo, pc>>

EraseKey(k) ==
  /\ pc = "ready"
  /\ LET b == FindFilledBucket(k)
     IN  /\ ret' = (b # num_buckets)
         /\ IF b = num_buckets THEN UNCHANGED <<table, moving, todo, pc>>
                               ELSE EraseBucket(b)

EraseIterator(b) == pc = "ready" /\ EraseBucket(b) /\ UNCHANGED ret

Clear ==
  /\ pc = "ready"
  /\ bitmask' = Buckets
  /\ pairs' = [b \in Buckets |-> NoPair]
  /\ num_filled' = 0
  /\ UNCHANGED <<last, num_buckets, mlf, moving, todo, ret, pc>>

-----------------------------------------------------------------------------
\* A table for so many elements, that has still to insert the keys.
Constructed(asked, keys, v) ==
  /\ Allocatable(asked)
  /\ num_buckets = BucketsFor(asked)
  /\ num_filled = 0
  /\ mlf = (FixedOne * 1000) \div DefaultLoad
  /\ bitmask = Buckets
  /\ pairs = [b \in Buckets |-> NoPair]
  /\ last = 0
  /\ old = [b \in {} |-> NoPair]
  /\ old_filled = 0
  /\ todo = RangeRequests(keys, v)
  /\ ret = FALSE
  /\ pc = Resume(todo)

\* HashMap(bucket), and the constructor from an initializer list, which asks
\* for as many buckets as it has elements and then inserts them unchecked.
Init ==
  \E n \in Requests, keys \in Batches \cup {<<>>}, v \in Value :
    Constructed(IF keys = <<>> THEN n ELSE Len(keys), keys, v)

Internal == RehashStep \/ RehashDone \/ InsertHit \/ InsertMiss

External ==
  \/ \E k \in Key, v \in Value : Insert(k, v) \/ InsertOrAssign(k, v) \/ InsertUnique(k, v)
  \/ \E k \in Key : OperatorIndex(k) \/ EraseKey(k)
  \/ \E keys \in Batches, v \in Value : InsertRange(keys, v)
  \/ \E n \in Requests : Reserve(n) \/ Rehash(n)
  \/ \E lf \in LoadFactors : MaxLoadFactor(lf)
  \/ \E b \in Filled : EraseIterator(b)
  \/ ShrinkToFit
  \/ Clear

Next == Internal \/ External

Spec == Init /\ [][Next]_vars

\* A call that was made runs to its end: the program has one thread.
FairSpec == Spec /\ WF_vars(Internal)

-----------------------------------------------------------------------------
(* Properties.                                                             *)

\* Every variable has its type; the probe hint is a word of the table.
TypeOK ==
  /\ num_buckets \in BucketCounts
  /\ num_filled \in Nat /\ old_filled \in Nat
  /\ mlf \in Nat /\ mlf >= FixedOne
  /\ bitmask \subseteq Buckets
  /\ pairs \in [Buckets -> Entry \cup {NoPair}]
  /\ last \in 0..QMask
  /\ DOMAIN old \subseteq Nat /\ old \in [DOMAIN old -> Entry]
  /\ todo \in Seq(Request)
  /\ ret \in BOOLEAN
  /\ pc \in {"ready", "rehash", "insert"}

\* The bitmask says exactly which buckets hold a live element, and the counter
\* how many: nothing is built over a live element or destroyed twice.
CountsAgree ==
  /\ \A b \in Buckets : b \in bitmask <=> pairs[b] = NoPair
  /\ num_filled = Cardinality(Filled)

\* The chains are sound after every step of every call.
ChainsSound == WellChained(Filled, Link, Home)

\* No key is stored twice, the elements a rehash has not moved yet included.
KeysUnique ==
  /\ \A a, b \in Filled : pairs[a].first = pairs[b].first => a = b
  /\ \A a, b \in DOMAIN old : old[a].first = old[b].first => a = b
  /\ \A a \in Filled, b \in DOMAIN old : pairs[a].first # old[b].first

\* Between calls, a search finds exactly the keys that are stored.
LookupExact ==
  pc = "ready" =>
    \A k \in Key :
      LET b == FindFilledBucket(k)
      IN  IF \E c \in Filled : pairs[c].first = k
          THEN b \in Filled /\ pairs[b].first = k
          ELSE b = num_buckets

\* assert(_num_filled < _num_buckets) of find_empty_bucket never fails: a
\* probe for an empty bucket always ends, in a rehash and in an insertion.
ProbeHasRoom ==
  /\ pc = "insert" /\ ~ Meets(Head(todo).key) => ~ NoRoomFor(Head(todo).key)
  /\ pc = "rehash" /\ num_filled < old_filled => bitmask # {}

\* What a rehash has placed and what the old array still holds add up to what
\* the map held: assert(old_num_filled == _num_filled) holds at its end, and
\* its loop never runs off the old array.
RehashLosesNothing ==
  IF pc = "rehash" THEN num_filled + Cardinality(DOMAIN old) = old_filled
                   ELSE DOMAIN old = {}

\* Whatever a rehash has moved or kicked out again, each element of the map is
\* once in one of its two arrays.
ElementsKept == KeysUnique /\ RehashLosesNothing

\* The map a caller sees: what is in the table and what a rehash has still to
\* move into it.
TableElements == { <<pairs[b].first, pairs[b].second>> : b \in Filled }
OldElements == { <<old[b].first, old[b].second>> : b \in DOMAIN old }
Elements == TableElements \cup OldElements

Contents ==
  [k \in Key |-> IF \E v \in Value : <<k, v>> \in Elements
                 THEN CHOOSE v \in Value : <<k, v>> \in Elements ELSE NoValue]

Abstract == INSTANCE MapSpec WITH map <- Contents

\* Every step does to the map what the call promises: insert keeps the value of
\* a key it meets, insert_or_assign replaces it, erase removes its key only,
\* and growing, moving and kicking out change nothing.
ImplementsMap == Abstract!Spec

\* Every call returns: no rehash, probe or walk goes on for ever.
CallsReturn == (pc # "ready") ~> (pc = "ready")
=============================================================================
