----------------------------- MODULE CacheSpec -----------------------------
(***************************************************************************)
(* What a caller of two caches of one type can rely on.  map and other say *)
(* what a search would find in each, NoValue for nothing.  A cache may     *)
(* forget whatever it holds at every step, and never more: what it still   *)
(* finds is what was stored, and what it forgot stays forgotten until it   *)
(* is stored again.  ret is the key of the last call and what the caller   *)
(* was told of it, if the call was about one key.                          *)
(***************************************************************************)
CONSTANTS Key, Value, NoValue

VARIABLES map, other, ret

vars == <<map, other, ret>>

Nothing == [k \in Key |-> NoValue]

Init == map = Nothing /\ other = Nothing /\ ret = <<"void">>

\* Of these keys less is known than m says, or as much.
Within(less, m, keys) == \A k \in keys : less[k] \in {m[k], NoValue}

Forget == ret' = <<"void">> /\ Within(map', map, Key) /\ Within(other', other, Key)

\* The key is new, which it also is when the cache forgets it only to make
\* room, or it is held and keeps its value.
Insert(k, v) ==
  /\ \/ ret' = <<"new", k>> /\ map'[k] = v
     \/ ret' = <<"held", k>> /\ map[k] # NoValue /\ map'[k] = map[k]
  /\ Within(map', map, Key \ {k})
  /\ UNCHANGED other

\* What is forgotten may still be there to erase.
Remove(k) ==
  /\ ret' = <<"one", k>> \/ (ret' = <<"none", k>> /\ map[k] = NoValue)
  /\ map' = [map EXCEPT ![k] = NoValue]
  /\ UNCHANGED other

Copy == ret' = <<"void">> /\ map' = other /\ UNCHANGED other
Move == ret' = <<"void">> /\ map' = other /\ other' = Nothing
Swap == ret' = <<"void">> /\ map' = other /\ other' = map

Next ==
  \/ Forget \/ Copy \/ Move \/ Swap
  \/ \E k \in Key : Remove(k) \/ \E v \in Value : Insert(k, v)

Spec == Init /\ [][Next]_vars
=============================================================================
