---------------------------- MODULE MapPairSpec ----------------------------
(***************************************************************************)
(* What two hash maps of one type promise a caller that uses both, each a  *)
(* partial function from keys to values: map and other, where NoValue says *)
(* that a key is not stored.  Every call is one step, and ret is the flag  *)
(* it returns, FALSE if it returns none.  A set is the case of one value.  *)
(***************************************************************************)
EXTENDS Sequences

CONSTANTS Key, Value, NoValue,
          Batches   \* the ranges of keys a call may insert

VARIABLES map, other, ret

vars == <<map, other, ret>>

Nothing == [k \in Key |-> NoValue]

Init == map = Nothing /\ other = Nothing /\ ret = FALSE

Stored(k) == map[k] # NoValue

\* A key that is stored keeps its value.
Insert(k, v) ==
  /\ ret' = ~ Stored(k)
  /\ map' = IF Stored(k) THEN map ELSE [map EXCEPT ![k] = v]
  /\ UNCHANGED other

Assign(k, v) ==
  /\ ret' = ~ Stored(k)
  /\ map' = [map EXCEPT ![k] = v]
  /\ UNCHANGED other

\* try_set: a value for a key only if it is stored.
Replace(k, v) ==
  /\ ret' = Stored(k)
  /\ map' = IF Stored(k) THEN [map EXCEPT ![k] = v] ELSE map
  /\ UNCHANGED other

\* A range, or one key when the call returns no flag.
InsertMany(batch, v) ==
  /\ ret' = FALSE
  /\ UNCHANGED other
  /\ map' = [k \in Key |-> IF ~ Stored(k) /\ \E i \in DOMAIN batch : batch[i] = k
                           THEN v ELSE map[k]]

\* The constructors from a range.
Build(batch, v) ==
  /\ ret' = FALSE
  /\ UNCHANGED other
  /\ map' = [k \in Key |-> IF \E i \in DOMAIN batch : batch[i] = k THEN v ELSE NoValue]

Remove(k) ==
  /\ ret' = Stored(k)
  /\ map' = [map EXCEPT ![k] = NoValue]
  /\ UNCHANGED other

\* erase_if, clear, and erase at a position.
RemoveAll(gone) ==
  /\ ret' = FALSE
  /\ UNCHANGED other
  /\ map' = [k \in Key |-> IF k \in gone THEN NoValue ELSE map[k]]

\* The constructor and the assignment that copy, and those that move.
Copy == map' = other /\ ret' = FALSE /\ UNCHANGED other
Move == map' = other /\ other' = Nothing /\ ret' = FALSE
Swap == map' = other /\ other' = map /\ ret' = FALSE

\* The keys that only other holds come over; those that both hold stay.
Merge ==
  /\ ret' = FALSE
  /\ map' = [k \in Key |-> IF Stored(k) THEN map[k] ELSE other[k]]
  /\ other' = [k \in Key |-> IF Stored(k) THEN other[k] ELSE NoValue]

Compare == ret' = (map = other) /\ UNCHANGED <<map, other>>

\* Growing and shrinking, and a search.
Nop == ret' = FALSE /\ UNCHANGED <<map, other>>

Next ==
  \/ Nop \/ Compare \/ Copy \/ Move \/ Swap \/ Merge
  \/ \E k \in Key : Remove(k) \/ \E v \in Value : Insert(k, v) \/ Assign(k, v) \/ Replace(k, v)
  \/ \E batch \in Batches \cup { <<k>> : k \in Key }, v \in Value : InsertMany(batch, v)
  \/ \E batch \in Batches, v \in Value : Build(batch, v)
  \/ \E gone \in SUBSET Key : RemoveAll(gone)

Spec == Init /\ [][Next]_vars
=============================================================================
