------------------------------ MODULE ByteFiles -------------------------------
(***************************************************************************)
(* What readi(), writei() and itrunc() promise: a file is a sequence of    *)
(* words; a write replaces a stretch of it and may extend it, and nothing  *)
(* else of this or of another file changes.  Blocks are not visible.  The  *)
(* module has no counterpart in the code; Bmap.tla implements it.          *)
(***************************************************************************)
EXTENDS Integers, Sequences

CONSTANTS
  Names,
  Values,     \* a call writes one word over and over, enough to tell calls apart
  Stretches   \* offset and length of the writes

VARIABLE bytes   \* the contents of each file

Init == bytes = [f \in Names |-> <<>>]

Written(old, off, n, v) ==
  [i \in 1..(IF off + n > Len(old) THEN off + n ELSE Len(old)) |->
     IF i \in (off + 1)..(off + n) THEN v ELSE old[i]]

\* A write, a word that mkfs appends, or a truncation.
Next ==
  LET old == bytes  new == bytes' IN
  /\ new # old
  /\ \E f \in Names :
       \/ \E s \in Stretches, v \in Values :
            /\ s[1] <= Len(old[f])
            /\ new = [old EXCEPT ![f] = Written(@, s[1], s[2], v)]
       \/ \E v \in Values : new = [old EXCEPT ![f] = Append(@, v)]
       \/ new = [old EXCEPT ![f] = <<>>]

Spec == Init /\ [][Next]_bytes
===============================================================================
