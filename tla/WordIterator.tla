---------------------------- MODULE WordIterator ----------------------------
(***************************************************************************)
(* The iterator of the tables that keep a bit for every bucket,            *)
(* hash_table6, hash_table7 and hash_set4, and what is common to their     *)
(* probes.  It walks a copy of one word of the bitmask at a time,          *)
(* so what is erased behind its back stays in its copy unless the caller   *)
(* strikes it out.                                                         *)
(*                                                                         *)
(* bits holds the buckets of the word the iterator has still to visit, the *)
(* one it is at included.  The bits behind the last bucket are never set   *)
(* as empty, which is what stops a walk at the end.                        *)
(***************************************************************************)
EXTENDS LinkedTable

CONSTANTS
  SizeBit,  \* bits in the word an iterator copies and a probe reads
  MaskBit   \* bits in the unit the first read of a probe is aligned to

\* The complement of word w of the bitmask.
FilledBits(t, w) == { b \in Filled(t) \cup {t.size} : b \div SizeBit = w }

\* The buckets of word w that are empty.
EmptyBits(t, w) == { b \in Empty(t) : b \div SizeBit = w }

InitIterator(t, b) ==
  [at |-> b, word |-> b \div SizeBit,
   bits |-> { c \in FilledBits(t, b \div SizeBit) : b < t.size /\ c >= b }]

GotoNext(t, it) ==
  LET w == Lowest({ i \in 0 .. t.size \div SizeBit : i > it.word /\ FilledBits(t, i) # {} })
      rest == IF it.bits # {} THEN it.bits ELSE FilledBits(t, w)
  IN  [at |-> Lowest(rest), word |-> IF it.bits # {} THEN it.word ELSE w, bits |-> rest]

\* operator++: the lowest bit of the copy is dropped.
Advance(t, it) == GotoNext(t, [it EXCEPT !.bits = @ \ {Lowest(@)}])

\* begin() is at the lowest element, or at the end.
Begin(t) == InitIterator(t, Lowest(Filled(t) \cup {t.size}))

-----------------------------------------------------------------------------
(* What their probes for an empty bucket have in common.                   *)

QMask(t) == (t.size - 1) \div SizeBit

\* The words from the hint on, round the bitmask.
Turn(t, i) == (t.hint + i) % (QMask(t) + 1)

\* The word half a table further, which hash_table6 and hash_table7 try next.
Mirror(t, w) == (QMask(t) \div 2 + w) % (QMask(t) + 1)

\* The words from the hint on, each followed by its mirror.
Mirrored(t, j) ==
  IF j % 2 = 0 THEN Turn(t, j \div 2) ELSE Mirror(t, Turn(t, j \div 2))

\* The first read is not aligned to a word.
Window(t, from) ==
  { b \in Empty(t) : /\ from =< b
                    /\ b \div MaskBit < from \div MaskBit + SizeBit \div MaskBit }

\* The hint is left on the word that had an empty bucket.
MirroredProbe(t, from) ==
  LET hit == { j \in 0 .. 2 * QMask(t) + 1 : EmptyBits(t, Mirrored(t, j)) # {} }
  IN  IF Window(t, from) # {} THEN [at |-> Lowest(Window(t, from)), hint |-> t.hint]
      ELSE [at |-> Lowest(EmptyBits(t, Mirrored(t, Lowest(hit)))),
            hint |-> Mirrored(t, Lowest(hit))]
=============================================================================
