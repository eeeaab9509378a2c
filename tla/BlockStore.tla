------------------------------ MODULE BlockStore ------------------------------
(***************************************************************************)
(* What bread(), bwrite() and brelse() promise to the rest of the xv6 file *)
(* system: blocks that one process at a time may hold, and whose content   *)
(* changes only when the process that holds the block writes it.  Whether  *)
(* a block is in a buffer, on the disk or on its way is not visible.       *)
(* The module has no counterpart in the code; Bcache.tla, which has, is    *)
(* shown to implement it.                                                  *)
(***************************************************************************)

CONSTANTS
  Users,      \* processes that read and write blocks
  Nos,        \* block numbers
  Contents,   \* contents of a block
  Nobody      \* nobody holds the block

VARIABLES
  content,    \* what a process that takes the block finds
  holder      \* the process that holds each block, or Nobody

storeVars == <<content, holder>>

Init ==
  /\ content \in [Nos -> Contents]
  /\ holder = [n \in Nos |-> Nobody]

Take(p, n) ==
  /\ holder[n] = Nobody
  /\ holder' = [holder EXCEPT ![n] = p]
  /\ UNCHANGED content

Write(p, n, v) ==
  /\ holder[n] = p
  /\ content' = [content EXCEPT ![n] = v]
  /\ UNCHANGED holder

Give(p, n) ==
  /\ holder[n] = p
  /\ holder' = [holder EXCEPT ![n] = Nobody]
  /\ UNCHANGED content

Next == \E p \in Users, n \in Nos :
          Take(p, n) \/ Give(p, n) \/ \E v \in Contents : Write(p, n, v)

Spec == Init /\ [][Next]_storeVars
===============================================================================
