# emhash: models, checks and proofs

emhash is a family of header-only C++ hash tables. Everything is single-threaded:
no component starts a thread, takes a lock or persists anything, so the hard
behaviours are not interleavings of processes but long sequences of calls, calls
that are half done (a rehash that has moved some elements, a kickout that has
moved a guest), iterators that outlive a change, limits (a table that is full to
the last bucket, a load factor near one, a probe that must end), and a clock that
ticks between two calls on a cache.

## Inventory

All paths are under `src/include/`. What a component "keeps" is its state between
two calls. The last column says how far it is modelled; `PROJECT.json` says what is
left out.

| Component | File | Keeps | What makes it correct | Modelled |
|---|---|---|---|---|
| `emhash7::HashMap` | `emhash/hash_table7.hpp` | entries with a link, a bitmask of empty buckets, counter, load factor, probe hint behind the array | bitmask, entries and counter agree; every stored key is on the chain of its main bucket; a key is stored once; the probe ends | table in part, iterators in full |
| `emhash5::HashMap` | `emhash/hash_table5.hpp` | entries with a signed link, the first bucket in use, an inline buffer for small tables, a free list under `EMH_HIGH_LOAD` | as above; no element lies before the first bucket | in part |
| `emhash6::HashMap` | `emhash/hash_table6.hpp` | entries whose link carries a bit for "not at its main bucket", a bitmask | as emhash7; the bits are true | in full |
| `emhash8::HashMap` | `emhash/hash_table8.hpp` | an index (link, slot and hash bits) and a dense array of elements with a capacity of its own | each slot is named by exactly one bucket; the array never overflows; the hash bits are those of the key | in part |
| `emhash2::HashSet` | `emhash/hash_set2.hpp` | chains, a probe hint | as emhash7 | in full |
| `emhash3::HashSet` | `emhash/hash_set3.hpp` | chains and a count of colliding elements | as emhash7; the count is that of the non-head elements | no |
| `emhash4::HashSet` | `emhash/hash_set4.hpp` | as emhash7 without values | as emhash7 | in full |
| `emhash8::HashSet` | `emhash/hash_set8.hpp` | as emhash8 without values | as emhash8 | in part |
| LRU caches | `emhash/lru_size.hpp`, `emhash/lru_time.hpp` | chains, an order number or a deadline per element, the sum of the order numbers | as a table; the evicted are the oldest; nothing expired is found | in part |
| Swiss-table maps and sets | `emilib/emihmap1..4.hpp`, `emilib/emihset2,3.hpp` | states or metadata in groups, elements, probe lengths or overflow bits | a lookup probes far enough; an erased slot hides nothing behind it; a probe for a free slot ends | in part |
| Configuration | `emhash/config.hpp`, `emhash/version.hpp` | nothing | - | switches are constants |
| `sse2neon.h` | `sse2neon.h` | nothing | - | vendored, no |

How they interact: every table is self-contained; a caller interacts with it
through calls and iterators. The callbacks are the hash function, the equality
(both pure functions of the key here) and the predicate of `erase_if`. Two tables
of one type meet in copy, move, swap, comparison and merge. The caches are chained
tables in which an insertion may evict and a rehash may drop what has expired.

## Modules

There are two styles. `HashTable7`, `HashTable8` and `EmihMap4`, with their
iterators, are modelled step by step: a call that grows a table is one step per
element it moves, so that the invariants see the table half way. All other containers
are modelled with a call as a step, on two tables of one type at once, and share
their operators. There are proofs about the first and about the two caches.

| Module | What it is |
|---|---|
| `Chains` | Links, main buckets, and what a well-chained table is. |
| `MapSpec`, `MapPairSpec`, `CacheSpec` | What a caller is promised: one map (with the insertions a call has still to do), two maps of one type, two caches. |
| `HashTable7`, `HashTable7Iter` | `emhash7::HashMap`; its iterators and the loops driven by one (`erase_if`, `clearkv`). |
| `HashTable8`, `HashTable8Iter` | `emhash8::HashMap`; `erase_if` and the two loops of `erase(first, last)`. |
| `EmihMap4` | `emilib4::HashMap`, two of them. |
| `LinkedTable` | The chained table as a value: what the next row's modules share. |
| `WordIterator` | The iterator and the probe of the tables with a bit per bucket. |
| `HashTable5`, `HashTable6`, `HashTable7Pair`, `HashSet2`, `HashSet4`, `HashSet8` | One map or set each, two at a time. `HashTable7Pair` has the calls of emhash7 that take two maps. |
| `Containers` | Composes these six under common properties; a behaviour is one of one kind. |
| `LruTable`, `LruSize`, `LruTime` | What the two caches share, and the caches, two of one kind at a time. |
| `SwissTable`, `EmihMap1`, `EmihMap2`, `EmihMap3`, `EmihSet2`, `EmihSet3`, `Swiss` | The five Swiss tables with a byte of state per slot, what they share, and their composition. |
| `MC...` | Hash functions, ranges and bounds of the small instances. |
| `ChainsProofs`, `LruTableProofs` | Lemmas about chains; about `LinkedTable` and `LruTable`. |
| `HashTable7Theorems`, `HashTable8Theorems`, `HashTable8IterTheorems`, `EmihMap4Theorems`, `LruSizeTheorems`, `LruTimeTheorems` | Lemmas and theorems about a component, see Proofs. |

A definition whose comment begins "Mutant:" is a plausible bug in the definition
that follows it; it is used by no specification, and each checked property fails
when one of them takes the place of the definition.

### HashTable7

| Variable | In `hash_table7.hpp` |
|---|---|
| `num_buckets`, `num_filled`, `mlf` | `_num_buckets` (and `_mask`), `_num_filled`, `_mlf` |
| `bitmask` | the buckets whose bit in `_bitmask` is 1, that is, the empty ones |
| `pairs` | `_pairs[0 .. _num_buckets)`; `NoPair` where no object is alive, so that a model that reads a dead object stops instead of reading something |
| `last` | `EMH_BUCKET(_pairs, _num_buckets)`, the probe hint kept behind the array |
| `old`, `old_filled` | during a rehash: the elements of `old_pairs` not yet moved, `old_num_filled` |
| `todo` | the insertions the running call has still to make |
| `ret` | the flag that the last insertion or `erase(key)` returned |
| `pc` | `ready` between calls, `rehash` in the loop of `rehash`, `insert` in the insertions of a call |

A call that only searches or removes is one step (`EraseKey`, `EraseIterator`,
`Clear`, `MaxLoadFactor`). A call that may grow the table is `Call`, which is
`reserve`, then one `RehashStep` for each element the rehash moves, `RehashDone`,
and one `InsertHit` or `InsertMiss` for each element of the call. No other call can
come between, because the program has one thread. `Place` is `find_unique_bucket`
and the miss of `find_or_allocate`; its three disjuncts are the three outcomes
(empty main bucket, a guest kicked out, a new tail). A probe that cannot end
(`NoRoomFor`) is a call that takes no more steps. `EraseBucket` has the three
outcomes of `erase_bucket` and of `erase_key`. The probe of `find_empty_bucket` is
modelled word by word, with the hint, the word half a table away, the wrap, and the
first read that is aligned to a byte and not to a word.

What is abstracted: the hash function is any function to the naturals; a key and a
value are model values; the walk along a chain is the set `Reach`; constructors,
destructors and moves of elements are the assignment of the entry. The fixed point
of `_mlf` is a constant (`FixedOne`, 1 << 28 in the code). Overflow of
`num_elems * _mlf` needs 2^36 elements and is out of range of the 32-bit size.

### HashTable7Iter

An iterator (`it`) is what the class keeps: the bucket it is at, the first bucket
of its word of the bitmask (`Lazy` until it is needed), and a private copy of the
filled buckets of that word from its own on. `InitIterator`, `GotoNext` and
`Advance` are `init`, `goto_next_element` and `operator++`; `AfterErase` is what
`erase(iterator)` does to its iterator, which stays where it is when the erasure
moved another element into its bucket. `EraseIf` and `ClearKV` start a loop, one
step is one iteration, and no call comes in between. `want` is the predicate (any
set of keys), `start` and `seen` only serve the properties. `ClearHere` breaks the
chains as `clearkv` does: only the counter ends that loop.

### HashTable8 and HashTable8Iter

| Variable | In `hash_table8.hpp` |
|---|---|
| `num_buckets`, `num_filled`, `mlf` | `_num_buckets` (and `_mask`), `_num_filled`, `_mlf` |
| `pairs_capacity` | `_pairs_capacity` |
| `index` | `_index[0 .. _num_buckets)`: link, slot and the remaining hash bits (`tag`); `NoIndex` where `next` is `INACTIVE` |
| `pairs` | `_pairs[0 .. _pairs_capacity)`; `NoPair` where no object is alive |
| `last` | `_last`, the probe hint |
| `slot` | the loop variable of `rehash` and of the in-place `reserve` |
| `todo`, `ret`, `pc` | as in `HashTable7` |

The steps are those of `HashTable7`: `Call` is `reserve(n, false)`, `Reserve` the
public overload (a forced rehash, or the index built anew where it is when as many
buckets are asked for as there are elements), `RehashStep` indexes one slot.
`IndexSlot` has the three outcomes of `find_unique_bucket`; with the number of
buckets walked as a parameter it is also the miss of `find_or_allocate`, whose
probe distances depend on it. `EraseSlot` is `erase_slot` with the `erase_bucket`
it calls. `InsertMiss` is enabled only if the array has a slot left. Behind its end
the code's behaviour is undefined: `Overrun` is then the only step, and changes
nothing. `PairsFit` says that it does not get there, which a raised load factor makes
false; `PairsFitShare` says so of an array that has the slots the present load factor
would give it (`HasShare`).

An iterator is a slot. `EraseFirst`, `TurnRound` and `EraseLast` are the two loops
of `erase(first, last)`: upwards while elements behind the range fill the holes,
then downwards from the end.

### EmihMap4

A map is a record: `groups` (0 while there is no array), `slots`, `over` (the
overflow bits of each group), `filled` and `max` (`_num_filled`, `_max_load`). A
growth puts the new element into the new arrays first and then moves the old ones,
one `Transfer` each; `old` is what has still to move. A range is one `InsertNext`
per element, a merge alternates `MergeNext` and `MergeErase`, with the iterator in
`at`. An erasure in a group that has overflowed lowers `max`. The arithmetic of
floats in `rehash_impl` is done in 1/1000.

### LinkedTable and Containers

A table is a record (`size`, `filled`, `mlf`, `hint`, `pairs`, `stuck`, and fields
of a container's own: `first` in emhash5, `odd` in emhash6). `stuck` is set when a
probe finds no empty bucket, which in the code never ends. Each module keeps its
container's own probe (`LocalProbes`, `LinearProbeLength`, `SlotSteps`, words of
`SizeBit`), its growth, its loops of `erase_if`, its merge, copy and move, and is
otherwise built from the operators of `LinkedTable`. Loops inside a call are
recursive functions over the buckets or the sequence they walk. `t` is the table
that calls are made on, `rhs` the one it is copied, moved, swapped and merged with;
`seen` is what a search would find in both after every step, and refines
`MapPairSpec`. `HashTable6` is there in two builds: with plain keys, and with
`EMH_LRU_SET` moving elements up.

### The caches

An entry carries a stamp: its order number in `LruSize` (higher the later it is
made and the more often it is hit), its deadline in `LruTime`. `now` is the last
order number given out, or the clock, which `LruTime` may let tick between any two
calls. `LruSize` evicts, when an insertion would make it grow beyond its maximum,
everything whose number is not above the mean, from a sum it keeps. In `LruTime` an
expired entry stays in its bucket, unfound, until an insertion takes the bucket
over, a rehash leaves it behind or `clear_timeout` sweeps it. `wiped` in `LruSize` is
the buckets whose order number is 0xFFFFFFFF since a `clear` filled them as plain
memory. `CacheSpec` lets a cache forget anything at any time, and nothing else: `ret`
names the key of the call, so that what it tells of that key is held to what `map` had
and has for it.

### SwissTable and Swiss

A table is a record with `size`, `filled`, `mlf`, `pairs` (an element, `Tombstone`
or `NoPair`), `probe` (how far a search has to go: one number or one per group) and
`stuck`. Windows of `simd_bytes` slots are aligned groups in emihmap1, emihmap3 and
emihset3, and start at any slot in emihmap2 and emihset2. The bits of the hash in a
state byte only save comparing keys, and are left out.

`Swiss` composes them; a behaviour is one of one kind. emihmap1 and emihset2 are there
twice. `tight` is emihmap1 with groups of two slots, of which it uses one, few enough
for the keys to take all of them. `long` is emihset2 with a fourth key, enough to leave
a tombstone in every slot. When a probe does not end, the table is `stuck` and the only
step left is `Hang`. `ProbeHasRoom` says when that may be, and the run reaches both
cases: `Cramped`, an emihmap1 rehashed to fewer usable slots than it has elements, and
`Worn`, an emihset2 cleared when all its slots were tombstones. Everywhere else every
probe ends. The third case, emihset3 in an array of 128 slots, is larger than the
instance: `TurnsMeetAllButOne` of `MCSwiss` evaluates the turns of the code's own
groups of 16 in arrays of 16 to 1024 slots.

### Careful

A few calls break their container in ways the code does not guard against. The
constant `Careful`, TRUE in the passing runs, keeps the modelled caller off them,
so that the runs can say what holds for everybody else; with FALSE, TLC finds each.

* `emihmap1.hpp:1040`: `insert_unique` and `merge` into a map with tombstones write
  the probe length of a group over a larger one; an element further on is not found
  any more. The comment on the line says `bugs for unique`.
* `lru_time.hpp:784`: `clear_timeout` clears the bucket it judged, not the one
  `erase_bucket` gave up, and so drops what was pulled into it; `check_timeout`
  clears a bucket and links nothing.
* `lru_time.hpp:650`: `insert_unique` of a key that is stored and has expired, which
  `contains` denies, stores it twice.
* `hash_set4.hpp:755`: `insert_or_assign` of a stored key writes its bucket over its
  link and cuts the chain behind it.
* `hash_set4.hpp:171`: `erase(iterator)` strikes the bucket given up from the
  iterator's word by its place in a word, also if it lies in another word.

## Runs

| Run | Instance | Shows |
|---|---|---|
| `table7` | 5 keys, 1 value, tables of 2, 4 and 8 buckets, words of 2 bits | every sequence of calls on emhash7, step by step: types, counters, chains, unique keys, exact lookup, room for the probe, a rehash that loses nothing |
| `table7_map` | 3 keys, 2 values, tables of 2 and 4, `EMH_LRU_SET`, and `EMH_HIGH_LOAD` with `SmallTable` 3 | the table implements `MapSpec`; every call returns |
| `table7_iter` | 4 keys, 1 value, words of 4 bits, tables of 2, 4 and 8 buckets | `erase_if` with every predicate and `clearkv`, from every reachable table, touch live elements only, remove what they should and end |
| `table8` | 5 keys, 1 value, indexes of 4 and 8 buckets | index and array in step, exact lookup, a bucket for every insertion, and a slot while the array has its share |
| `table8_iter` | 3 keys, 2 values, indexes of 4 and 8 buckets | `HashTable8` implements `MapSpec`; `erase_if` with every predicate and `erase` of every range remove exactly what they should and end |
| `emihmap4` | 4 keys, groups of 2 slots, 2 overflow bits, arrays of 2 and 4 groups | exact lookup also half way through a growth or a merge, room for the probe, a measure that every step of a call lowers, and two maps implement `MapPairSpec` |
| `containers` | 4 keys, 1 value, tables of up to 8 or 16 buckets, words of 4 bits | emhash5, emhash6 (two builds), emhash7 on two maps, hash_set2, hash_set4, hash_set8: chains, counters, `_first`, the parity bits, and `MapPairSpec` through copy, move, swap and merge |
| `cache_size` | 3 keys, 2 values, order numbers and their sum up to 4 | two caches of `lru_size`: sound chains, exact counter and sum, room for the probe, the right victims, `CacheSpec` |
| `cache_time` | 3 keys, 1 value, a clock up to 2, timeouts 0 and 1 | two caches of `lru_time`: sound chains, exact counter, room for the probe, nothing fresh lost, `CacheSpec` |
| `swiss` | 3 keys (4 in `long`), 1 value, windows of 2 slots (3 in emihmap1) | when a probe does not end and that it ends otherwise, exact lookup, no empty slot before an element on its way, `MapPairSpec` |
| `table7_high_load`, `table8_capacity` | as `table7`; 8 keys without collisions in 8 buckets | violations, see Findings |

Bounds and why they are enough.

* `table7`: four keys share a main bucket in a table of four, three in a table of
  eight, and a fifth lives where their chain overflows to: every kickout, unlink
  position and head removal happens. Words of two bits give a table of eight
  buckets four words, so that the probe takes several turns and wraps, and the first
  read can miss. `LoadFactors` has an accepted value at each end and one that is
  refused (250). `BucketCounts` bounds the size; a call that would need a larger
  table is not made (`Allocatable`), as `assert(buckets < max_size())` has it.
* `table7_map`: `EMH_HIGH_LOAD` is on with the constant of `reserve` cut from 64 to
  3, so that the early return is taken, and ranges short enough that it does no harm.
* `table7_iter`: one chain starts in the last bucket and wraps round, so that an
  erasure moves elements forwards as well as backwards; another lies within a word.
* `table8`: the four colliding keys in four buckets fill the index to the last
  bucket, and the fifth makes an insertion meet it full. Three keys have the same
  hash and are interchangeable (`SYMMETRY`; no liveness in that run).
  `QuadraticProbeLength` is 4 and not 6 as in the code, so that the probe of eight
  buckets can miss those near the start. `SafeGuard` is 6 and not 10, for an index of
  eight buckets to be worth shrinking. `PAIRS_CAPACITY_BUFFER` is 1 and not 4, the least
  that the proofs allow: four keys then fill an array to the last slot, both by
  insertions the load factor 0.999 allows and, in an array allocated under 0.5, after
  the factor was raised; lowering it again makes the next insertion meet the full array
  with its share. `Overrun` happens in this run, in arrays without their share.
* `table8_capacity` has the code's values of all three, and eight keys: an index of
  eight buckets with an array of seven slots takes all of them.
* `emihmap4`: three keys start in the last group, which has one slot less for the
  sentinel, and share an overflow bit, so one or two of them overflow into the next
  group; the fourth starts there. `OtherMax` and `OtherGroups` bound what is moved
  into the second map. `GroupCounts` bounds the arrays: a call that may need more
  does not start (`Allocatable`, `CanTake`). Symmetry in the three keys; no property
  of that run is a liveness property (`CallsReturn` bounds a call by a measure).
* `swiss`: with three keys a kind can fill the usable slots of its smallest array, or
  make it grow. `FixedOne` is 5 because for up to five elements every factor from 0.84
  to 0.999 asks for the same number of slots, so that raising the factor makes a state
  apart in emihset3 (0.8) only. `Few` and the kinds `tight` and `long` are described
  above; in `long` the other set has no array, as `set2` has two sets with arrays.
* `containers`, `swiss`, `cache_size`, `cache_time`: two keys that collide in every size (symmetric),
  one that collides in small tables only, and in `containers` one whose main bucket
  their chain overflows into. `OtherMax` (the elements of `rhs`, for each kind),
  `MaxSize` and `PairMax` bound the second table; it is filled by copies and swaps of
  the first. One value is enough there, because which value a key has is checked in
  `table7_map`, `table8_iter` and `cache_size`, whose two values are symmetric (no
  liveness in that run). `MaxOrder` and `MaxNow` bound order numbers and
  clock: three keys and a few hits, a deadline that is passed and one that is not.

Fairness: `WF_vars(Internal)` in `table7_map`, the steps of a call in progress, and
`WF_iterVars(LoopStep)` for the loops of the iterator modules. The program has one
thread and no step of a call waits, so a call that was made goes on; nothing is
assumed of the caller.

## Findings

* `table7_high_load`: under `EMH_HIGH_LOAD`, `reserve` returns early when fewer
  than 64 buckets are needed and one bucket is empty, but `insert(first, last)`
  and `insert(initializer_list)` rely on it for the whole range. The range then
  fills the table, `assert(_num_filled < _num_buckets)` of `find_empty_bucket`
  fails, and with `NDEBUG` its loop does not end.
* `table8_capacity`: the array of elements of `emhash8` is sized by the load factor
  of its last rehash, and the decision to grow is made with the present one. After
  `HashMap(5, 0.3f)` and `max_load_factor(0.999f)` the array has seven slots, eight
  buckets may be used, and the eighth element is built behind the array.
  `FitsUnlessRaised` proves that raising the factor is the only way to get there.

Seen in the code and not checked by a run of their own:

* `hash_table8.hpp:322`, `hash_set8.hpp:333`: copy assignment between tables of
  equally many buckets keeps the dense array, which may be too small if the two were
  allocated under different load factors.
* `hash_table8.hpp:1614`: rebuilding a full index in as many buckets fails
  `assert(_num_filled < _num_buckets)` although the index being built has room;
  with `NDEBUG` the call is right.
* `erase(first, last)` of `hash_table8` and `hash_set8` returns `last()`.
* `hash_table7.hpp:1204` says of `erase(iterator)`: "Returns an iterator to the next
  element (or end())." When the erased element heads a chain that wraps round the
  table, the element moved into its bucket may come from a bucket the loop has passed,
  so a loop of `it = erase(it)` and `++it` meets it twice. `erase_if` is exact all the
  same (`EraseIfAlwaysExact`), because its predicate gives the same answer again.
* `lru_size.hpp:746`: `clear` of a cache of plain elements fills all buckets with 0xFF,
  order numbers included, and `remove_half` ends with `assert(_sum_orderid == sumid)`
  (line 844), where `sumid` adds up all buckets, empty ones too: the first eviction
  after a `clear` that finds a bucket still wiped fails it. With `NDEBUG` nothing
  depends on that sum, and `SumAlwaysExact` proves that the one the eviction uses,
  over the filled buckets, is right all the same.
* `CHANGELOG.md:66` says that merge loses keys in emhash6 and emhash7; the models of
  the present code show no loss.
* `emihmap1.hpp:811`: `rehash` asserts that there are more slots than elements, but the
  last slot of each group of 16 is never used. A map of 31 elements given a range of
  one element rehashes to 32 slots of which it can fill 30, and `find_empty_slot` does
  not end. The run `swiss` reaches this (`Cramped`).
* `emihset2.hpp:574`: `clear` of a set of plain keys without elements keeps its
  tombstones and resets the probe length to -1. With a tombstone in every slot, the next
  insertion of a key whose main slot is 0 does not end. `swiss` reaches this (`Worn`).
* `emihset3.hpp:940`: in an array of 128 slots the probe visits seven of the eight
  groups. With more than 112 elements there, which a load factor of 0.95, `rehash(n)`,
  `shrink_to_fit` or a range can bring about, it may never meet a free slot.
* In emihmap4 a growth always enlarges the arrays, so erasing and inserting for long
  enough doubles them; `clear` of an empty map keeps its bits and the lowered limit;
  `reserve(n)` makes n slots, not a limit of n.
* `lru_time`: `insert(key, value, timeout)` uses the default timeout on a miss; the
  32-bit clock wraps. `lru_cache(…, 0)`
  divides by zero. `at(key, key_hash)` of `hash_table5` never throws.

## Proofs

Everything is proved for any set of keys and values, any hash function, any sizes,
word lengths and load factors, from the assumptions the modules make of their
constants, which TLC evaluates in the runs. Further hypotheses are named below: that
`EMH_HIGH_LOAD` is off in one theorem about emhash7, that the load factor is not raised
in `FitsUnlessRaised` about emhash8, and that callers are `Careful` in those about `lru_time`.

### emhash7

`Inv` of `HashTable7Theorems` adds to the checked properties what makes them
inductive: the indexes of the old array are bounded (so that it is finite and has a
highest one), `todo` is empty exactly between calls, a key promised new by
`insert_unique` is still absent when its turn comes, and `Room`: the growth a call
decided on suffices for all it has still to insert. The last is what makes
`ProbeHasRoom` provable without `EMH_HIGH_LOAD` (`ProbeAlwaysHasRoom` assumes that it
is off), and what `table7_high_load` shows to fail with it.

The argument has three layers. `ChainsProofs` shows that `WellChained` survives
each change to the links: a new head, a new tail, a moved guest, a dropped
element. Reachability is the least set closed under the links, so these need no
induction. The first part of `HashTable7Theorems` shows that each placing, replacing and removal keeps
`TableOK` (types, bitmask, counter, chains, unique keys) and adds, replaces or
removes exactly one element, and that the probe ends at an empty bucket
(`ProbeFinds`). Its second part has one lemma per action for `Inv`, and maps each step
to a step of `MapSpec`.

### The iterators of emhash7

`IterInv`, in the last part of `HashTable7Theorems`, says of a running loop: the iterator is at a
filled bucket or at the end, and a copy it has taken is `Rest`, the filled buckets of
its word from its own on (`IteratorOK`); `erase_if` has everything unseen ahead of it
and has removed nothing the predicate does not hold for (`Judged`), on top of `Inv`;
`clearkv` has nothing behind it (`Clearing`), and keeps of `Inv` only what does not
speak of chains, which come back when the table is empty. Two facts carry the proof:
`AdvanceOK`, `++` goes to the next filled bucket with an exact copy, in the same word
(`NextInWord`) or a later one (`NextWord`, where the bits behind the last bucket stop
it); and `EraseMoves`, an erasure gives up one bucket, and all buckets but that one
and the one it was given keep their keys. So an erasure behind the iterator or far
ahead of it is as harmless as one at it.

### emhash8

`Inv` is `Sizes`, `Array` (the elements fill the first slots, with different keys),
`Names(n)` (the index is well chained and its buckets name the first n slots, each
once, with the right tag), `Types`, `TodoMatches`, `UniqueIsNew` and `Room`
(`num_filled + Len(todo) <= num_buckets`, from `mlf >= FixedOne`: the growth asks for
at least one bucket per element). Half way through a rehash n is the slot it has come
to, otherwise the number of elements. `HashTable8Theorems` has the three ways to index a
slot, the erasure with the last element moved into the hole, and the lookup by tag and
key, and then one lemma per action, whose second conclusion is what the
action does to the stored elements, from which the refinement of `MapSpec` follows.

`PairsFit` is not an invariant, as `table8_capacity` shows. `PairsAlwaysFit` proves
`PairsFitShare`: it holds whenever the array has the slots that the present load factor
would give it (`HasShare`), also if the factor was raised and lowered again in between.
`Fits` is the invariant: a running call with `HasShare` has a slot for all it has still
to insert. It is inductive because every call decides anew: either it rehashes, which
allocates more than was asked for, or the elements it will have but one are within the
share, and the array has at least one slot more (`BufferAssumption`). `FitsUnlessRaised`
follows: if the load factor, of which `_mlf` is the inverse, is never raised after
construction, `HasShare` and so `PairsFit` hold for ever.

`HashTable8IterTheorems` does the same with loops: `EraseIfSound` (nothing behind the
iterator is wanted), `HeadSound` (what the range has still to erase lies at the
iterator, `tsize` others behind it), `TailSound` (it lies at the end of the array), and
`OnlyWantedGone`. The loops implement `MapSpec`, too.

### emihmap4

`Inv` of `EmihMap4Theorems` is `Sound(t)` and `Sound(rhs)` (shape; the counter is the
number of elements, the limit at most the capacity and the counter at most the limit;
every element can be reached over overflow bits that are all set), `Room` (what is
stored and what has still to move is within the limit) and `Control` (what each value
of `pc` says of `todo`, `at` and `old`). The limit falls with erasures, but each of
them lowers the counter, too, so the counter never passes it; that is why the probe,
which has no end of its own, finds a free slot. `CallsAlwaysReturn` proves
`CallsReturn`, an action property: every step of a running call lowers a measure (what
is left to insert, to walk over, the phase, what is left to move). That such a measure
cannot fall for ever is not part of the theorem.

The refinement needs `KeyInv` besides: `Distinct` (no key is in two slots of one array,
nor in the new and the old array of a growth) and `Merging` (every element of the other
map that a merge has passed and left is in `t`, so when it comes to the end it has left
exactly what `t` had). `Contents` is what the running call will have stored when it
returns: what either array holds, then what the range has still to insert, then what
the merge has still to take. `StepRefines` shows that the steps inside a call change
neither `Contents` nor `OtherContents` (one lemma per step, `TransferMaps` to
`MergeEraseMaps`), and that each call is its action of `MapPairSpec` (`InsertRefines`
to `TwoMapsRefines`); the comparison of the maps rests on `KeysCounted`.

### The caches

Here a call is one step, and its loops (the walk to a key, the rehash, the eviction, the
sweep) are recursive functions. The library's induction theorems cannot be instantiated,
but the well-foundedness of the naturals can be cited: `UpTo` of `LruTableProofs` gives
induction to a bound from it, `GuidedRun` an invariant of a loop, and with them a walk is
the set of buckets it passes, `Find` finds a key exactly when it is stored (`FindStored`),
and the probe of `find_empty_bucket` finds an empty bucket in a table of a power of two
with one (`ProbeFinds`). The last rests on a fact about triangular numbers: from the
first to that of 2 * size they have every remainder (`TurnsMeetAll`). As many turns as
there are buckets are not always enough, because the walk does not begin at the zeroth
and the second bucket of a pair does not wrap; hence the bound in `FindEmptyBucket`.
`PlaceWrites` and `ErasedOK` then say of a placing and of an erasure what they do to
`Elements`, the set of pairs of key and entry, for `TableOK`: shape, chains, different
keys, exact counter.

`Inv` of `LruSizeTheorems` is `CacheOK` of both caches: `TableOK`, a size that is a power
of two, `mlf >= FixedOne` (no load factor lets two elements share a bucket, so a cache
that does not grow has one empty), and that `sum` is the `Mass` of the elements. `Mass`
counts units, as many per element as its order number, so that sums of sets need no
induction of their own; `SumIsMass` ties it to the sum over the buckets. An eviction
keeps everything above the mean and nothing else, whatever its erasures move where
(the invariant of its loop: what is behind the walk is above the mean, what is gone is
not), and something is at or below the mean of a cache that is not empty, so it makes
room (`ProbeAlwaysHasRoom`) and takes the oldest (`OldestEvicted`).

`Inv` of `LruTimeTheorems` is `CacheOK` without the sum. `shrink_to_fit` may leave a
table that is full to the last bucket, but the next insertion grows it first; then it
has two buckets more than the load factor asks for, or twice `max`, and keeps no more
than `max` entries. All theorems assume `Careful`: without it the chains break, as
named above.

Every step is one of `Written`, `Dropped`, `Lessened` (keys forgotten, nothing changed)
or `Two` (`StepCases`), and each of these is a step of `CacheSpec`.

### Theorems

| Module | Theorems |
|---|---|
| `HashTable7Theorems` | `InvHolds`, `TypesHold`, `CountsAlwaysAgree`, `ChainsAlwaysSound`, `ElementsAlwaysKept`, `LookupAlwaysExact`, `ProbeAlwaysHasRoom` (`EMH_HIGH_LOAD = FALSE`), `TableImplementsMap` |
| `HashTable7Theorems`, the loops | `IterInvHolds`, `IteratorAlwaysLive`, `EraseIfAlwaysExact` |
| `HashTable8Theorems` | `InvHolds`, `DenseAlwaysExact`, `LookupAlwaysExact`, `ProbeAlwaysHasRoom`, `PairsAlwaysFit`, `FitsUnlessRaised` (load factor never raised), `TableImplementsMap` |
| `HashTable8IterTheorems` | `IterInvHolds`, `IteratorStaysInRange`, `LoopsAlwaysExact`, `LoopsImplementMap` |
| `EmihMap4Theorems` | `InvHolds`, `LookupAlwaysExact`, `ProbeAlwaysHasRoom`, `CallsAlwaysReturn`, `MapsImplementPairs` |
| `LruSizeTheorems` | `InvHolds`, `TablesAlwaysSound`, `ProbeAlwaysHasRoom`, `SumAlwaysExact`, `OldestEvicted`, `CachesImplementSpec` |
| `LruTimeTheorems` (`Careful`) | `InvHolds`, `TablesAlwaysSound`, `ProbeAlwaysHasRoom`, `FreshAlwaysKept`, `CachesImplementSpec` |

### Only model-checked

* That calls and loops return (`CallsReturn` of emhash7, `LoopsReturn`): liveness
  under fairness.
* Everything of `Containers` and `Swiss`. Their calls are whole loops, too, and the
  lemmas of `LruTableProofs` about `LinkedTable` apply to the first; the probes, links
  with a sign or a bit, and merges of each container are not proved about.

## Not modelled

`hash_set3` (the chains of `hash_set2` with a count); the free lists of
`EMH_HIGH_LOAD` in emhash5 and emhash8; the inline small buffer of emhash5; failing
allocation; `EMH_PACK_TAIL`, `EMH_QUADRATIC`, `EMH_SORT`, `EMH_SAVE_MEM`,
`EMHASH_TIME_DELAY` (off by default); tables of emhash8 of more than 65536 elements;
`EMH_STATIS`; the cut of the probe length to eight bits in emihmap2
(`emihmap2.hpp:921`), which needs thousands of elements in one group; the overflow of
order numbers and of the clock; configuration and `sse2neon.h`.

## Plan

1. Proofs for the containers on `LinkedTable`, one kind at a time, from the lemmas of
   `LruTableProofs`: the probe first, then copy and rehash, then merge and `erase_if`.
2. emhash8's free list under `EMH_HIGH_LOAD`, and `hash_set3`.
