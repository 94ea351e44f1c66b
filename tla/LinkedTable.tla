---------------------------- MODULE LinkedTable ----------------------------
(***************************************************************************)
(* The table whose collision chains are linked through its own buckets, as *)
(* a value: what hash_table5, hash_table6, hash_set2, hash_set4, lru_size  *)
(* and lru_time share.  A table is a record                                *)
(*                                                                         *)
(*   size    the number of buckets                                         *)
(*   filled  the counter of elements                                       *)
(*   mlf     buckets for one element, in the fixed point FixedOne          *)
(*   hint    where the probe for an empty bucket resumes                   *)
(*   pairs   the buckets: an element with its link, or NoPair              *)
(*   stuck   a probe found no empty bucket, which in the code never ends   *)
(*                                                                         *)
(* and a container may add fields of its own.  The operators here are the  *)
(* plain ones; what a container does its own way is in its module, which   *)
(* hands its probe for an empty bucket to these as Probe: from a table and *)
(* a bucket to start at, to the empty bucket and the hint left behind.     *)
(***************************************************************************)
EXTENDS Integers, Sequences, FiniteSets, Chains

CONSTANTS
  Key, Hash, NoPair,
  FixedOne,     \* 1 in the fixed point of _mlf
  MinSize       \* the size the doubling in rehash starts from

ASSUME HashAssumption == Hash \in [Key -> Nat]
ASSUME SizeAssumption == FixedOne \in Nat \ {0} /\ MinSize \in Nat \ {0}

Lowest(S) == CHOOSE x \in S : \A y \in S : x =< y

\* Step taken n times, which is as often as the loop it stands for can turn.
Iterate(Step(_), x, n) ==
  LET f[i \in 0..n] == IF i = 0 THEN x ELSE Step(f[i - 1]) IN f[n]

Buckets(t) == 0 .. t.size - 1
Filled(t) == { b \in Buckets(t) : t.pairs[b] # NoPair }
Empty(t) == { b \in Buckets(t) : t.pairs[b] = NoPair }
Keys(t) == { t.pairs[b].first : b \in Filled(t) }

Main(t, k) == Hash[k] % t.size
HashMain(t, b) == Main(t, t.pairs[b].first)

Link(t) == [b \in Filled(t) |-> t.pairs[b].bucket]
Home(t) == [b \in Filled(t) |-> HashMain(t, b)]

\* The buckets a walk along the links meets from b, until one is empty.
Walk(t, b) ==
  LET next(met) == UNION { IF x \in Filled(t) THEN {x, t.pairs[x].bucket} ELSE {x} : x \in met }
  IN  Iterate(next, {b}, t.size)

\* The bucket that holds k, found from its main bucket, else the size.
Find(t, k) ==
  LET hits == { b \in Filled(t) : /\ t.pairs[b].first = k /\ Main(t, k) \notin Empty(t)
                                 /\ b \in Walk(t, Main(t, k)) }
  IN  IF hits = {} THEN t.size ELSE CHOOSE b \in hits : TRUE

FindLastBucket(t, b) == CHOOSE x \in Walk(t, b) : t.pairs[x].bucket = x

FindPrevBucket(t, main, b) == CHOOSE x \in Walk(t, main) : x # b /\ t.pairs[x].bucket = b

\* A bucket as it is written: an element, and the link beside it.
With(t, b, pair) == [t EXCEPT !.pairs[b] = pair]
Linked(t, b, next) == [t EXCEPT !.pairs[b].bucket = next]
New(t, b, k, v, next) ==
  [With(t, b, [first |-> k, second |-> v, bucket |-> next]) EXCEPT !.filled = @ + 1]
Cleared(t, b) == [With(t, b, NoPair) EXCEPT !.filled = @ - 1]

\* The element of bucket b moves to bucket a, each keeping its own link.
MoveInto(t, a, b) == With(t, a, [t.pairs[b] EXCEPT !.bucket = t.pairs[a].bucket])

Exchange(t, a, b) ==
  [t EXCEPT !.pairs[a] = [t.pairs[b] EXCEPT !.bucket = t.pairs[a].bucket],
            !.pairs[b] = [t.pairs[a] EXCEPT !.bucket = t.pairs[b].bucket]]

Full(t) == Empty(t) = {}

\* The first of a sequence of places to look at, each with the hint that is
\* left when it is taken, that is empty.
SomeEmpty(t, places) == \E i \in DOMAIN places : places[i].at \in Empty(t)
FirstEmpty(t, places) == places[Lowest({ i \in DOMAIN places : places[i].at \in Empty(t) })]

-----------------------------------------------------------------------------
(* Placing a key the table does not hold.                                  *)

\* The guest of bucket b, of the chain that starts at kmain, moves to a
\* bucket probed from its successor, and b is free.
Kickout(t, kmain, b, Probe(_, _)) ==
  IF Full(t) THEN [t EXCEPT !.stuck = TRUE]
  ELSE LET next == t.pairs[b].bucket
           hit == Probe(t, next)
           moved == With(t, hit.at, [t.pairs[b] EXCEPT !.bucket =
                                       IF next = b THEN hit.at ELSE next])
       IN  [With(Linked(moved, FindPrevBucket(t, kmain, b), hit.at), b, NoPair) EXCEPT !.hint = hit.hint]

\* k is stored in a bucket probed from `from` and linked behind the tail.
LinkNew(t, k, v, from, tail, Probe(_, _)) ==
  IF Full(t) THEN [t EXCEPT !.stuck = TRUE]
  ELSE LET hit == Probe(t, from)
       IN  [New(Linked(t, tail, hit.at), hit.at, k, v, hit.at) EXCEPT !.hint = hit.hint]

\* Whose chain the main bucket of k belongs to decides between the three ways.
Place(t, k, v, From(_, _), Probe(_, _)) ==
  LET b == Main(t, k)
  IN  IF b \in Empty(t) THEN New(t, b, k, v, b)
      ELSE IF HashMain(t, b) # b
      THEN LET free == Kickout(t, HashMain(t, b), b, Probe)
           IN  IF free.stuck THEN free ELSE New(free, b, k, v, b)
      ELSE LinkNew(t, k, v, From(b, FindLastBucket(t, b)), FindLastBucket(t, b), Probe)

-----------------------------------------------------------------------------
(* Growing, and removing.                                                  *)

RequiredBuckets(t, n) == (n * t.mlf) \div FixedOne

\* The size rehash doubles to: after n turns no size is below n.
BucketsFor(n) == Iterate(LAMBDA size : IF size < n THEN 2 * size ELSE size, MinSize, n)

Fresh(size) == [b \in 0 .. size - 1 |-> NoPair]

\* The element in bucket b of the old table is placed into t by Put.
MoveOver(t, old, b, Put(_, _, _)) ==
  IF t.stuck \/ old.pairs[b] = NoPair THEN t
  ELSE Put(t, old.pairs[b].first, old.pairs[b].second)

\* Every element of old placed into t, from the highest bucket down or up.
Down(t, old, Put(_, _, _)) ==
  LET f[i \in 0 .. old.size] ==
        IF i = 0 THEN t ELSE MoveOver(f[i - 1], old, old.size - i, Put)
  IN  f[old.size]
Up(t, old, Put(_, _, _)) ==
  LET f[i \in 0 .. old.size] ==
        IF i = 0 THEN t ELSE MoveOver(f[i - 1], old, i - 1, Put)
  IN  f[old.size]

\* The successor of bucket b moves into it, and its own bucket is given up.
PullNext(t, b) ==
  LET next == t.pairs[b].bucket
      link == t.pairs[next].bucket
  IN  [t |-> Linked(MoveInto(t, b, next), b, IF link = next THEN b ELSE link),
       freed |-> next]

\* The one before bucket b in the chain of main takes its link.
Unlink(t, main, b) ==
  LET prev == FindPrevBucket(t, main, b)
      link == t.pairs[b].bucket
  IN  [t |-> Linked(t, prev, IF link = b THEN prev ELSE link), freed |-> b]

-----------------------------------------------------------------------------
(* The loops a container runs over its elements or over a caller's.        *)

\* Insert for each key of a range, in order.
InsertEach(t, batch, v, Insert(_, _, _)) ==
  LET f[i \in 0 .. Len(batch)] ==
        IF i = 0 THEN t ELSE Insert(f[i - 1], batch[i], v)
  IN  f[Len(batch)]

\* An iterator is a record: at is its bucket, the size at the end.
\* erase_if: it goes on from where an erasure leaves it.
EraseWalk(t, it, gone, Erase(_, _), Goto(_, _)) ==
  LET turn(x) ==
        IF x.it.at = x.t.size THEN x
        ELSE IF x.t.pairs[x.it.at].first \in gone THEN Erase(x.t, x.it)
        ELSE [x EXCEPT !.it = Goto(x.t, x.it)]
  IN  Iterate(turn, [t |-> t, it |-> it], t.size + t.filled).t

\* merge: an iterator walks b; what a does not hold is inserted there as new,
\* and erased from b.
MergeWalk(a, b, it, Insert(_, _, _), Erase(_, _), Goto(_, _)) ==
  LET turn(x) ==
        IF x.it.at = x.t.size \/ x.a.stuck THEN x
        ELSE LET pair == x.t.pairs[x.it.at]
                 e == Erase(x.t, x.it)
             IN  IF Find(x.a, pair.first) # x.a.size THEN [x EXCEPT !.it = Goto(x.t, x.it)]
                 ELSE [a |-> Insert(x.a, pair.first, pair.second), t |-> e.t, it |-> e.it]
  IN  Iterate(turn, [a |-> a, t |-> b, it |-> it], b.size + b.filled)

\* operator==: each element of a is looked up in b.
SameElements(a, b) ==
  /\ a.filled = b.filled
  /\ \A i \in Filled(a) :
       LET j == Find(b, a.pairs[i].first)
       IN  j # b.size /\ a.pairs[i].second = b.pairs[j].second

-----------------------------------------------------------------------------
(* What is asked of a table after every call.                              *)

\* Its links make sound chains, one for each main bucket in use.
SoundChains(t) == WellChained(Filled(t), Link(t), Home(t))

\* The counter counts, and no key is stored twice.
SoundCount(t) ==
  /\ t.filled = Cardinality(Filled(t))
  /\ Cardinality(Keys(t)) = Cardinality(Filled(t))
=============================================================================
