------------------------------ MODULE MapSpec ------------------------------
(***************************************************************************)
(* What a hash map promises its caller, whatever its layout: a partial     *)
(* function from keys to values, map[k] = NoValue when k is not stored.  A *)
(* call that inserts asks for one insertion or for a range of them, todo,  *)
(* which are performed one by one and in order; ret is the flag the last   *)
(* insertion or erasure by key returned.                                   *)
(***************************************************************************)
EXTENDS Sequences

CONSTANTS Key, Value, NoValue   \* NoValue is none of the values

VARIABLES map, todo, ret

vars == <<map, todo, ret>>

Request == [op : {"insert", "assign", "unique"}, key : Key, val : Value]

Init == map = [k \in Key |-> NoValue] /\ todo \in Seq(Request) /\ ret = FALSE

Stored(k) == map[k] # NoValue

\* A call is made: the map is as it was until the insertions are performed,
\* however the table grows before.
Ask == todo = <<>> /\ todo' \in Seq(Request) /\ UNCHANGED <<map, ret>>

\* The next insertion: an existing key keeps its value unless the request is
\* to assign, and the flag says if the key was new.
Perform ==
  LET req == Head(todo)
  IN  /\ todo # <<>>
      /\ todo' = Tail(todo)
      /\ ret' = ~Stored(req.key)
      /\ map' = IF Stored(req.key) /\ req.op # "assign"
                THEN map ELSE [map EXCEPT ![req.key] = req.val]

\* try_set: a value for a key that is stored, and the flag says if it was.
Replace(k, v) ==
  /\ todo = <<>> /\ UNCHANGED todo
  /\ ret' = Stored(k)
  /\ map' = IF Stored(k) THEN [map EXCEPT ![k] = v] ELSE map

\* erase by key: the flag says if there was something to remove.
Remove(k) ==
  /\ todo = <<>> /\ UNCHANGED todo
  /\ ret' = Stored(k)
  /\ map' = [map EXCEPT ![k] = NoValue]

\* erase at a position: there is always something to remove, and no flag.
RemoveHere(k) ==
  /\ todo = <<>> /\ Stored(k)
  /\ map' = [map EXCEPT ![k] = NoValue]
  /\ UNCHANGED <<todo, ret>>

RemoveAll ==
  /\ todo = <<>>
  /\ map' = [k \in Key |-> NoValue]
  /\ UNCHANGED <<todo, ret>>

Next ==
  \/ Ask \/ Perform \/ RemoveAll
  \/ \E k \in Key : Remove(k) \/ RemoveHere(k) \/ \E v \in Value : Replace(k, v)

Spec == Init /\ [][Next]_vars
=============================================================================
