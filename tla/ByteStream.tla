----------------------------- MODULE ByteStream -----------------------------
(***************************************************************************)
(* What a stream socket promises its reader (docs/15, section 6: reliable, *)
(* in-order, stream-oriented delivery): the bytes 1, 2, ... of the other   *)
(* side, each once and in order, and never one that was not sent.          *)
(***************************************************************************)
EXTENDS Naturals, Sequences

VARIABLES
  sent,   \* how many bytes the other side has sent
  read    \* the bytes handed to the reader

Init == sent = 0 /\ read = <<>>

Send == sent' \in Nat /\ sent' > sent /\ UNCHANGED read

Read ==
  /\ \E n \in 1 .. sent - Len(read) :
       read' = read \o [k \in 1 .. n |-> Len(read) + k]
  /\ UNCHANGED sent

Next == Send \/ Read

Spec == Init /\ [][Next]_<<sent, read>>
=============================================================================
