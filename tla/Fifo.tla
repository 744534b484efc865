-------------------------------- MODULE Fifo --------------------------------
(***************************************************************************)
(* What the producer-consumer pipeline promises: a first-in first-out      *)
(* buffer of bounded capacity that loses, repeats and reorders nothing.    *)
(***************************************************************************)
EXTENDS Naturals, Sequences

CONSTANT Capacity

VARIABLES
  buf,    \* items sent and not yet received, oldest first
  sent,   \* how many items were sent: they are 1, 2, ...
  got     \* the items received

Init == buf = <<>> /\ sent = 0 /\ got = <<>>

Put ==
  /\ Len(buf) < Capacity
  /\ sent' = sent + 1
  /\ buf' = Append(buf, sent')
  /\ UNCHANGED got

Get ==
  /\ buf # <<>>
  /\ got' = Append(got, Head(buf))
  /\ buf' = Tail(buf)
  /\ UNCHANGED sent

Next == Put \/ Get

Spec == Init /\ [][Next]_<<buf, sent, got>>
=============================================================================
