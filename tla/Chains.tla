------------------------------- MODULE Chains -------------------------------
(***************************************************************************)
(* The linked-bucket structure shared by the tables that have no           *)
(* tombstones.  A table is an array of buckets; every bucket that holds an *)
(* element stores the number of the next bucket of its collision chain,    *)
(* and the last bucket of a chain stores its own number.                   *)
(*                                                                         *)
(*   F   the set of buckets that hold an element                           *)
(*   nx  the link stored in each of them                                   *)
(*   mn  the main bucket (hash & mask) of the key held by each of them     *)
(***************************************************************************)

\* The buckets a walk along the links meets when it starts at b: the least
\* set that holds b and is closed under nx.
Reach(F, nx, b) ==
  { x \in F : \A S \in SUBSET F :
                 (b \in S /\ \A y \in S : nx[y] \in S) => x \in S }

\* A link leads to a bucket that holds an element of the same chain.
LinksStayInChain(F, nx, mn) ==
  \A b \in F : nx[b] \in F /\ mn[nx[b]] = mn[b]

\* The main bucket of a stored key is occupied, and by a key whose main bucket
\* it is: a chain starts at its own hash position, never at a guest.
HeadsAtHome(F, mn) ==
  \A b \in F : mn[b] \in F /\ mn[mn[b]] = mn[b]

\* A walk from the main bucket of a stored key meets its bucket.
AllReachable(F, nx, mn) ==
  \A b \in F : b \in Reach(F, nx, mn[b])

\* Two buckets never link to the same third one, and none links to a head.
NoSharedTails(F, nx, mn) ==
  /\ \A a, b \in F : nx[a] = nx[b] /\ nx[a] # a /\ nx[b] # b => a = b
  /\ \A a \in F : nx[a] = mn[a] => a = mn[a]

\* Every chain has a last bucket, the one a walk stops at.
TailsExist(F, nx, mn) ==
  \A b \in F : \E t \in F : mn[t] = mn[b] /\ nx[t] = t

WellChained(F, nx, mn) ==
  /\ LinksStayInChain(F, nx, mn)
  /\ HeadsAtHome(F, mn)
  /\ AllReachable(F, nx, mn)
  /\ NoSharedTails(F, nx, mn)
  /\ TailsExist(F, nx, mn)
=============================================================================
