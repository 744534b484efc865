------------------------------- MODULE Virtio -------------------------------
(***************************************************************************)
(* The two virtqueues of kernel/drivers/virtio_net.c and the device behind *)
(* them.  A queue is a ring of QUEUE_SIZE slots under indices that wrap at *)
(* INDEX (2^16 in the code); the driver fills avail, the device fills used *)
(* and each side remembers how far it has read the other's ring.           *)
(*                                                                         *)
(* Receiving: RX_BUFFERS buffers circulate between driver and device.      *)
(* Sending: one buffer, posted anew for every packet; the driver waits for *)
(* its completion, and goes on without it when it takes too long.          *)
(***************************************************************************)
EXTENDS Naturals, Sequences, FiniteSets

CONSTANTS
  QUEUE_SIZE,   \* slots of a ring
  INDEX,        \* the indices count modulo INDEX
  RX_BUFFERS    \* receive buffers

ASSUME QueueAssumption ==
  /\ QUEUE_SIZE \in Nat \ {0} /\ INDEX \in Nat
  /\ QUEUE_SIZE < INDEX /\ INDEX % QUEUE_SIZE = 0
  /\ RX_BUFFERS \in 1 .. QUEUE_SIZE

Slots == 0 .. QUEUE_SIZE - 1
Descs == 0 .. RX_BUFFERS - 1
NoFrame == [kind |-> "none"]
Unused == [id |-> 0, frame |-> NoFrame]

VARIABLES
  rx,     \* receive queue, its buffers, and how far the device has read avail
  tx,     \* transmit queue and its buffer
  wire    \* history: the last frame sent, and the one it was sent for

rings == <<rx, tx, wire>>

\* virtio_net_init and init_virtqueue: all receive buffers are available.
RingsInit ==
  /\ rx = [avail |-> [s \in Slots |-> s % RX_BUFFERS], avail_idx |-> RX_BUFFERS, seen |-> 0,
           used |-> [s \in Slots |-> Unused],
           used_idx |-> 0, last_used_idx |-> 0,
           buffers |-> [d \in Descs |-> NoFrame]]
  /\ tx = [buffer |-> NoFrame, posted |-> <<>>, waiting |-> FALSE,
           used_idx |-> 0, last_used_idx |-> 0]
  /\ wire = [sent |-> NoFrame, given |-> NoFrame]

Incr(i) == (i + 1) % INDEX

-----------------------------------------------------------------------------
\* The device receives a frame into the next available buffer.
DeviceReceives(frame) ==
  LET id == rx.avail[rx.seen % QUEUE_SIZE]
  IN /\ rx.seen # rx.avail_idx
     /\ rx' = [rx EXCEPT !.seen = Incr(@),
                         !.buffers[id] = frame,
                         !.used[rx.used_idx % QUEUE_SIZE] = [id |-> id, frame |-> frame],
                         !.used_idx = Incr(@)]

\* virtio_net_poll_packet finds a used buffer.
Arrived == rx.last_used_idx # rx.used_idx
Packet == rx.buffers[rx.used[rx.last_used_idx % QUEUE_SIZE].id]

\* The queue without what the driver has read: the buffer is the device's now.
Read(q) ==
  LET slot == q.last_used_idx % QUEUE_SIZE
  IN [q EXCEPT !.last_used_idx = Incr(@), !.used[slot] = Unused, !.buffers[q.used[slot].id] = NoFrame]

\* Mutant: the recycled descriptor is put one slot too far.
virtio_net_poll_packet_Slot ==
  rx' = [Read(rx) EXCEPT
           !.avail[(rx.avail_idx + 1) % QUEUE_SIZE] = rx.used[rx.last_used_idx % QUEUE_SIZE].id,
           !.avail_idx = Incr(@)]

\* The packet is copied, and its descriptor put back into the avail ring.
virtio_net_poll_packet ==
  rx' = [Read(rx) EXCEPT
           !.avail[rx.avail_idx % QUEUE_SIZE] = rx.used[rx.last_used_idx % QUEUE_SIZE].id,
           !.avail_idx = Incr(@)]

-----------------------------------------------------------------------------
\* virtio_net_send_packet copies the frame into the one transmit buffer, posts
\* its descriptor and notifies the device.
virtio_net_send_packet(frame) ==
  /\ ~tx.waiting
  /\ tx' = [tx EXCEPT !.buffer = frame, !.posted = Append(@, frame), !.waiting = TRUE]

\* The device takes the oldest posted packet: it reads the buffer, whatever that
\* holds by now.
DeviceTransmits ==
  /\ tx.posted # <<>>
  /\ tx' = [tx EXCEPT !.posted = Tail(@), !.used_idx = Incr(@)]
  /\ wire' = [sent |-> tx.buffer, given |-> Head(tx.posted)]

\* The wait ends with a completion the driver has not seen yet, be it of this
\* packet or of an earlier one.
SendReturns ==
  /\ tx.waiting /\ tx.last_used_idx # tx.used_idx
  /\ tx' = [tx EXCEPT !.waiting = FALSE, !.last_used_idx = Incr(@)]

\* The wait reaches its limit: the packet stays posted and its completion unseen.
SendTimesOut ==
  /\ tx.waiting /\ tx.last_used_idx = tx.used_idx
  /\ tx' = [tx EXCEPT !.waiting = FALSE]

-----------------------------------------------------------------------------
Count(from, to) == (to + INDEX - from) % INDEX

\* virtio_net_poll_packet: every receive buffer is in exactly one place, waiting
\* for the device or waiting to be read, across any number of wraps of the
\* indices; none is lost, and none is written again before it was read, so the
\* packets to be read are those that were received, in their order.
BuffersConserved ==
  LET unread == Count(rx.last_used_idx, rx.used_idx)
      ready == Count(rx.seen, rx.avail_idx)
      used(k) == rx.used[(rx.last_used_idx + k) % QUEUE_SIZE]
  IN /\ ready + unread = RX_BUFFERS
     /\ {rx.avail[(rx.seen + k) % QUEUE_SIZE] : k \in 0 .. ready - 1}
          \cup {used(k).id : k \in 0 .. unread - 1} = Descs
     /\ \A k \in 0 .. unread - 1 : rx.buffers[used(k).id] = used(k).frame
=============================================================================
