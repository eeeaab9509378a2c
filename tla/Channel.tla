------------------------------- MODULE Channel --------------------------------
(***************************************************************************)
(* What a pipe promises to the processes of xv6: bytes come out once and   *)
(* in the order in which they went in.  Limits and sleeping are not        *)
(* visible.  The module has no counterpart in the code; Files.tla, which   *)
(* has, is shown to implement it.                                          *)
(***************************************************************************)
EXTENDS Integers, Sequences

VARIABLES
  sent,       \* bytes written and not yet read
  got         \* what the last step gave to a reader

Init == sent = <<>> /\ got = <<>>

\* Bytes are only ever added at the end.
Put == /\ \E n \in 0..Len(sent') : SubSeq(sent', 1, n) = sent
       /\ got' = <<>>

Get == \E n \in 0..Len(sent) :
         /\ got' = SubSeq(sent, 1, n)
         /\ sent' = SubSeq(sent, n + 1, Len(sent))

\* Both ends are closed.
Discard == sent' = <<>> /\ got' = <<>>

Next == Put \/ Get \/ Discard

Spec == Init /\ [][Next]_<<sent, got>>
===============================================================================
