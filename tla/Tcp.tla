-------------------------------- MODULE Tcp --------------------------------
(***************************************************************************)
(* One TCP connection of kernel/net/tcp.c, from connect to close, with the *)
(* socket calls that drive it (kernel/net/socket.c and                     *)
(* kernel/syscall/syscall.c), a peer and the network between them.         *)
(*                                                                         *)
(* Segments are only taken from the network in net_poll, which the calls   *)
(* repeat until the state they wait for or a deadline is reached; a step   *)
(* of the model is one pass of such a loop.  The program uses the socket   *)
(* for one connection, as /bin/netfetch does.  The peer is an RFC 793      *)
(* endpoint that respects the advertised window; its FIN comes by itself   *)
(* or with the last data.  Sequence numbers count from 0 on both sides:    *)
(* the code adds to them and never compares them.                          *)
(*                                                                         *)
(* The mode says what surrounds the connection and never changes:          *)
(*   "ideal"  a reliable network that answers before every deadline, a     *)
(*            peer that answers a request, and no other poller;            *)
(*   "busy"   a reliable network, deadlines pass, and other calls and      *)
(*            processes poll the device at any time;                       *)
(*   "lossy"  also segments that are lost, repeated or late, resets, and   *)
(*            failures to send;                                            *)
(*   "padded" a peer that answers a request, and deadlines pass, on a link *)
(*            that loses nothing but pads short frames, as ethernet_send   *)
(*            does: the length of the frame, not that of the IPv4 packet,  *)
(*            decides how much data a segment has.                         *)
(***************************************************************************)
EXTENDS Naturals, Sequences, SequencesExt

CONSTANTS
  TCP_RX_BUF_SIZE,   \* bytes of the receive ring
  TCP_DEFAULT_MSS,   \* largest chunk tcp_send puts in a segment
  REQUEST,           \* bytes the program sends
  STREAM,            \* bytes the peer sends
  PEER_MSS,          \* largest chunk of the peer
  RecvSizes,         \* lengths of the buffers the program reads into
  MIN_DATA,          \* data bytes of a segment in the shortest frame (6)
  MAX_FAULTS         \* bound on losses, repetitions, resets, failures, and
                     \* answers to acknowledgements of what was never sent

ASSUME SizesAssumption ==
  /\ TCP_RX_BUF_SIZE \in Nat \ {0}
  /\ TCP_DEFAULT_MSS \in Nat \ {0}
  /\ PEER_MSS \in Nat \ {0}
  /\ RecvSizes \subseteq 1 .. TCP_RX_BUF_SIZE
  /\ REQUEST \in Nat /\ STREAM \in Nat /\ MIN_DATA \in Nat /\ MAX_FAULTS \in Nat

Ring == 0 .. TCP_RX_BUF_SIZE - 1

VARIABLES
  sock,      \* the tcp_socket_t
  call,      \* the call the program is in, and how far it got
  want,      \* bytes left to send, or to read, in that call
  got,       \* history: the bytes tcp_recv returned
  stored,    \* history: the bytes put into the ring
  net_in,    \* segments on their way to the socket
  net_out,   \* segments on their way to the peer
  peer,      \* the peer's connection
  faults,    \* how many faults happened
  mode

vars == <<sock, call, want, got, stored, net_in, net_out, peer, faults, mode>>
outside == <<net_in, peer, mode>>

\* tcp_socket_create: a cleared slot.
Fresh ==
  [state |-> "CLOSED", seq_num |-> 0, ack_num |-> 0,
   rx_buf |-> [k \in Ring |-> 0], rx_head |-> 0, rx_tail |-> 0, rx_len |-> 0]

Init ==
  /\ sock = Fresh
  /\ call = "new" /\ want = 0
  /\ got = <<>> /\ stored = <<>>
  /\ net_in = <<>> /\ net_out = <<>>
  /\ peer = [state |-> "LISTEN", nxt |-> 0, una |-> 0, limit |-> 0,
             rcv |-> 0, got |-> <<>>, fin |-> FALSE, rides |-> FALSE]
  /\ faults = 0
  /\ mode \in {"ideal", "busy", "lossy", "padded"}

Reliable == mode \in {"ideal", "busy"}

Bytes(from, n) == [k \in 1 .. n |-> from + k - 1]
Lesser(a, b) == IF a < b THEN a ELSE b

\* Whether ipv4_send succeeds; a failure counts as a fault.  A failed ACK is as
\* good as a lost one, so only the calls of the program look at the outcome.
MayFail(ok) ==
  /\ ~ok => mode = "lossy" /\ faults < MAX_FAULTS
  /\ faults' = IF ok THEN faults ELSE faults + 1

-----------------------------------------------------------------------------
\* Mutant: only FIN, not SYN, takes a sequence number.
tcp_send_segment_NoSyn(e, flags, data, ok) ==
  [s |-> [e.s EXCEPT !.seq_num = IF ~ok THEN @
            ELSE @ + Len(data) + (IF "FIN" \in flags THEN 1 ELSE 0)],
   out |-> IF ~ok THEN e.out
           ELSE Append(e.out, [flags |-> flags, seq |-> e.s.seq_num,
                  ack |-> e.s.ack_num, data |-> data,
                  window |-> TCP_RX_BUF_SIZE - e.s.rx_len])]

\* Mutant: the window does not shrink with the ring's free space.
tcp_send_segment_FullWindow(e, flags, data, ok) ==
  [s |-> [e.s EXCEPT !.seq_num = IF ~ok THEN @
            ELSE @ + Len(data) + (IF flags \cap {"SYN", "FIN"} # {} THEN 1 ELSE 0)],
   out |-> IF ~ok THEN e.out
           ELSE Append(e.out, [flags |-> flags, seq |-> e.s.seq_num,
                  ack |-> e.s.ack_num, data |-> data, window |-> TCP_RX_BUF_SIZE])]

\* A segment with the socket's numbers and window; e holds the socket and
\* the outgoing segments.  A failed send changes nothing.
tcp_send_segment(e, flags, data, ok) ==
  [s |-> [e.s EXCEPT !.seq_num = IF ~ok THEN @
            ELSE @ + Len(data) + (IF flags \cap {"SYN", "FIN"} # {} THEN 1 ELSE 0)],
   out |-> IF ~ok THEN e.out
           ELSE Append(e.out, [flags |-> flags, seq |-> e.s.seq_num,
                  ack |-> e.s.ack_num, data |-> data,
                  window |-> TCP_RX_BUF_SIZE - e.s.rx_len])]

\* Mutant: the copy stops at the end of the ring instead of wrapping.
Stored_NoWrap(s, data) ==
  LET n == Lesser(Len(data), TCP_RX_BUF_SIZE - s.rx_len)
  IN  [s EXCEPT !.rx_buf = [k \in Ring |->
                   IF k \in s.rx_tail .. s.rx_tail + n - 1
                   THEN data[k - s.rx_tail + 1] ELSE @[k]],
                !.rx_tail = (@ + n) % TCP_RX_BUF_SIZE,
                !.rx_len = @ + n]

\* The bytes that fit are put into the ring, the others are dropped.
Stored(s, data) ==
  LET n == Lesser(Len(data), TCP_RX_BUF_SIZE - s.rx_len)
      At(k) == (k + TCP_RX_BUF_SIZE - s.rx_tail) % TCP_RX_BUF_SIZE
  IN  [s EXCEPT !.rx_buf = [k \in Ring |-> IF At(k) < n THEN data[At(k) + 1] ELSE @[k]],
                !.rx_tail = (@ + n) % TCP_RX_BUF_SIZE,
                !.rx_len = @ + n]

\* The ESTABLISHED case of tcp_receive: data, then FIN.
Established(e, seg) ==
  LET n == Len(seg.data)
      d == IF n = 0 THEN e
           ELSE tcp_send_segment(
                  [e EXCEPT !.s = [Stored(e.s, seg.data) EXCEPT !.ack_num = seg.seq + n]],
                  {"ACK"}, <<>>, TRUE)
  IN  IF "FIN" \notin seg.flags THEN d
      ELSE tcp_send_segment(
             [d EXCEPT !.s.ack_num = seg.seq + (IF n > 0 THEN n ELSE 1),
                       !.s.state = "CLOSE_WAIT"], {"ACK"}, <<>>, TRUE)

\* Mutant: a SYN+ACK opens the connection in any state.
tcp_receive_AnyState(e, seg) ==
  LET Reply(to) == tcp_send_segment(
        [e EXCEPT !.s.ack_num = seg.seq + 1, !.s.state = to], {"ACK"}, <<>>, TRUE)
  IN CASE "RST" \in seg.flags -> [e EXCEPT !.s.state = "CLOSED"]
       [] {"SYN", "ACK"} \subseteq seg.flags -> Reply("ESTABLISHED")
       [] e.s.state = "ESTABLISHED" -> Established(e, seg)
       [] OTHER -> e

\* tcp_receive, for the socket that tcp_find_socket found.
tcp_receive(e, seg) ==
  LET Reply(to) == tcp_send_segment(
        [e EXCEPT !.s.ack_num = seg.seq + 1, !.s.state = to], {"ACK"}, <<>>, TRUE)
      Is(st, flags) == e.s.state = st /\ flags \subseteq seg.flags
  IN CASE "RST" \in seg.flags -> [e EXCEPT !.s.state = "CLOSED"]
       [] Is("SYN_SENT", {"SYN", "ACK"}) -> Reply("ESTABLISHED")
       [] Is("ESTABLISHED", {}) -> Established(e, seg)
       [] Is("FIN_WAIT_1", {"ACK", "FIN"}) -> Reply("TIME_WAIT")
       [] Is("FIN_WAIT_1", {"ACK"}) /\ "FIN" \notin seg.flags ->
            [e EXCEPT !.s.state = "FIN_WAIT_2"]
       [] Is("FIN_WAIT_2", {"FIN"}) -> Reply("TIME_WAIT")
       [] Is("LAST_ACK", {"ACK"}) -> [e EXCEPT !.s.state = "CLOSED"]
       [] OTHER -> e

\* The socket's next state and output; the history records what was stored.
Becomes(e) ==
  /\ sock' = e.s
  /\ net_out' = e.out
  /\ stored' = stored \o [k \in 1 .. e.s.rx_len - sock.rx_len |->
                 e.s.rx_buf[(sock.rx_tail + k - 1) % TCP_RX_BUF_SIZE]]

Now == [s |-> sock, out |-> net_out]

\* ipv4_receive passes on all that follows the header in the frame, so the
\* padding of a short frame is data to tcp_receive.
ipv4_receive(seg) ==
  IF mode = "padded"
  THEN [seg EXCEPT !.data = @ \o [k \in 1 .. MIN_DATA - Len(@) |-> 0]]
  ELSE seg

\* net_poll takes one segment, if one has arrived.  Nobody listens on the
\* port of a closed socket.
net_poll ==
  /\ net_in # <<>>
  /\ net_in' = Tail(net_in)
  /\ IF call = "done"
       THEN UNCHANGED <<sock, net_out, stored>>
       ELSE Becomes(tcp_receive(Now, ipv4_receive(Head(net_in))))

-----------------------------------------------------------------------------
\* The start of tcp_connect: one SYN.
socket_connect ==
  /\ \E ok \in BOOLEAN :
       LET e == tcp_send_segment([Now EXCEPT !.s.state = "SYN_SENT"], {"SYN"}, <<>>, ok)
       IN /\ MayFail(ok)
          /\ Becomes(IF ok THEN e ELSE [e EXCEPT !.s.state = "CLOSED"])
          /\ call' = IF ok THEN "connect" ELSE "failed"
  /\ UNCHANGED <<want, got, outside>>

sys_connect == call = "new" /\ socket_connect

\* A pass of the loop of tcp_connect.
tcp_connect ==
  /\ call = "connect"
  /\ net_poll
  /\ call' = CASE sock'.state = "ESTABLISHED" -> "idle"
               [] sock'.state = "CLOSED" -> "failed"
               [] OTHER -> call
  /\ UNCHANGED <<want, got, peer, faults, mode>>

\* The deadline of tcp_connect.
tcp_connect_timeout ==
  /\ call = "connect" /\ mode # "ideal"
  /\ sock' = [sock EXCEPT !.state = "CLOSED"]
  /\ call' = "failed"
  /\ UNCHANGED <<want, got, stored, net_out, outside, faults>>

\* tcp_send starts in an open connection only.
socket_send ==
  /\ sock.state \in {"ESTABLISHED", "CLOSE_WAIT"}
  /\ call' = "send" /\ want' = REQUEST
  /\ UNCHANGED <<sock, got, stored, net_out, outside, faults>>

\* The program sends its request once.
sys_sendto ==
  /\ call \in {"idle", "eof"} /\ sock.seq_num <= 1
  /\ socket_send

\* A chunk of tcp_send; a failed segment ends the call.
tcp_send ==
  /\ call = "send" /\ want > 0
  /\ LET n == Lesser(want, TCP_DEFAULT_MSS)
     IN \E ok \in BOOLEAN :
          /\ MayFail(ok)
          /\ Becomes(tcp_send_segment(Now, {"ACK", "PSH"},
                       Bytes(REQUEST - want + 1, n), ok))
          /\ want' = IF ok THEN want - n ELSE 0
          /\ call' = IF ok THEN "sent" ELSE "idle"
  /\ UNCHANGED <<got, outside>>

\* The net_poll after a chunk; the state is not looked at again.
tcp_send_poll ==
  /\ call = "sent"
  /\ net_poll \/ UNCHANGED <<sock, net_out, stored, net_in>>
  /\ call' = IF want = 0 THEN "idle" ELSE "send"
  /\ UNCHANGED <<want, got, peer, faults, mode>>

\* tcp_recv starts with a buffer of n bytes.
socket_recv(n) ==
  /\ call' = "recv" /\ want' = n
  /\ UNCHANGED <<sock, got, stored, net_out, outside, faults>>

\* SYS_RECVFROM or SYS_READ; on an ideal network after the request.
sys_recvfrom(n) ==
  /\ call = "idle"
  /\ mode = "ideal" => sock.seq_num > REQUEST
  /\ socket_recv(n)

\* tcp_recv polls while the ring is empty and the connection is open.
Waiting == sock.rx_len = 0 /\ sock.state = "ESTABLISHED"

tcp_recv_poll ==
  /\ call = "recv" /\ Waiting
  /\ net_poll
  /\ UNCHANGED <<call, want, got, peer, faults, mode>>

\* The end of tcp_recv: what is there is copied.  It returns 0 for the end of
\* the stream and for the deadline alike.
tcp_recv ==
  LET n == Lesser(want, sock.rx_len)
  IN /\ call = "recv"
     /\ Waiting => mode # "ideal"
     /\ got' = got \o [k \in 1 .. n |-> sock.rx_buf[(sock.rx_head + k - 1) % TCP_RX_BUF_SIZE]]
     /\ sock' = [sock EXCEPT !.rx_head = (@ + n) % TCP_RX_BUF_SIZE, !.rx_len = @ - n]
     /\ call' = IF n = 0 THEN "eof" ELSE "idle"
     /\ want' = 0
     /\ UNCHANGED <<stored, net_out, outside, faults>>

\* SYS_CLOSE and the start of tcp_close.
tcp_close ==
  /\ call = "eof" \/ (call = "idle" /\ mode # "ideal")
  /\ \E ok \in BOOLEAN :
       LET Fin(to) == tcp_send_segment([Now EXCEPT !.s.state = to], {"FIN", "ACK"}, <<>>, ok)
       IN CASE sock.state = "ESTABLISHED" -> MayFail(ok) /\ Becomes(Fin("FIN_WAIT_1"))
            [] sock.state = "CLOSE_WAIT" -> MayFail(ok) /\ Becomes(Fin("LAST_ACK"))
            [] OTHER -> ok /\ UNCHANGED <<sock, net_out, stored, faults>>
  /\ call' = "close"
  /\ UNCHANGED <<want, got, outside>>

Closing == sock.state \notin {"CLOSED", "TIME_WAIT"}

tcp_close_poll ==
  /\ call = "close" /\ Closing
  /\ net_poll
  /\ UNCHANGED <<call, want, got, peer, faults, mode>>

\* The end of tcp_close, at the latest when the grace period is over.
tcp_close_return ==
  /\ call = "close"
  /\ Closing => mode # "ideal"
  /\ sock' = [sock EXCEPT !.state = "CLOSED"]
  /\ call' = "done"
  /\ UNCHANGED <<want, got, stored, net_out, outside, faults>>

\* Another call or process polls the device between this program's calls.
OtherPoll ==
  /\ mode \in {"busy", "lossy"} /\ call \in {"idle", "eof", "failed", "done"}
  /\ net_poll
  /\ UNCHANGED <<call, want, got, peer, faults, mode>>

-----------------------------------------------------------------------------
\* The peer: a segment of its own.
Segment(p, flags, data) ==
  [flags |-> flags, seq |-> p.nxt, ack |-> p.rcv, data |-> data, window |-> 0]

\* What the peer makes of an acknowledgement of what it has sent.
Acknowledged(p, seg) ==
  IF "ACK" \in seg.flags /\ seg.ack >= p.una
  THEN [p EXCEPT !.una = seg.ack, !.limit = seg.ack + seg.window, !.state = "ESTABLISHED"]
  ELSE p

\* What the peer makes of data and FIN: taken in order, or not at all.
Taken(p, seg) ==
  IF seg.seq = p.rcv
  THEN [p EXCEPT !.rcv = @ + Len(seg.data) + (IF "FIN" \in seg.flags THEN 1 ELSE 0),
                 !.got = @ \o seg.data,
                 !.fin = @ \/ "FIN" \in seg.flags]
  ELSE p

\* The peer is opened by a SYN.
PeerAccept(seg) ==
  LET p == [peer EXCEPT !.state = "SYN_RCVD", !.rcv = seg.seq + 1, !.nxt = 1,
                        !.limit = 1 + seg.window]
  IN /\ peer' = p
     /\ net_in' = Append(net_in, Segment([p EXCEPT !.nxt = 0], {"SYN", "ACK"}, <<>>))
     /\ UNCHANGED faults

\* What is acknowledged was never sent: the peer says where it is, and drops
\* the segment.
PeerObjects ==
  /\ IF faults < MAX_FAULTS
     THEN faults' = faults + 1 /\ net_in' = Append(net_in, Segment(peer, {"ACK"}, <<>>))
     ELSE UNCHANGED <<faults, net_in>>
  /\ UNCHANGED peer

\* A segment of the open connection; data and FIN are acknowledged.
PeerTakes(seg) ==
  LET p == Taken(Acknowledged(peer, seg), seg)
  IN /\ peer' = p
     /\ net_in' = IF seg.data # <<>> \/ "FIN" \in seg.flags
                  THEN Append(net_in, Segment(p, {"ACK"}, <<>>)) ELSE net_in
     /\ UNCHANGED faults

PeerReceive ==
  /\ net_out # <<>>
  /\ net_out' = Tail(net_out)
  /\ LET seg == Head(net_out)
         syn == "SYN" \in seg.flags
         listen == peer.state = "LISTEN"
     IN \/ syn /\ listen /\ PeerAccept(seg)
        \/ syn # listen /\ UNCHANGED <<peer, net_in, faults>>
        \/ ~syn /\ ~listen /\ seg.ack > peer.nxt /\ PeerObjects
        \/ ~syn /\ ~listen /\ seg.ack <= peer.nxt /\ PeerTakes(seg)
  /\ UNCHANGED <<sock, call, want, got, stored, mode>>

\* The peer sends data within the window, then FIN; the last data may take FIN
\* along.
PeerSend ==
  /\ peer.state = "ESTABLISHED"
  /\ mode \in {"ideal", "padded"} => Len(peer.got) = REQUEST
  /\ \/ \E n \in 1 .. PEER_MSS :
          /\ peer.nxt + n <= Lesser(peer.limit, STREAM + 1)
          /\ \/ /\ net_in' = Append(net_in, Segment(peer, {"ACK", "PSH"}, Bytes(peer.nxt, n)))
                /\ peer' = [peer EXCEPT !.nxt = @ + n]
             \/ /\ peer.nxt + n = STREAM + 1
                /\ net_in' = Append(net_in,
                              Segment(peer, {"ACK", "PSH", "FIN"}, Bytes(peer.nxt, n)))
                /\ peer' = [peer EXCEPT !.nxt = @ + n + 1, !.rides = TRUE]
     \/ /\ peer.nxt = STREAM + 1
        /\ net_in' = Append(net_in, Segment(peer, {"ACK", "FIN"}, <<>>))
        /\ peer' = [peer EXCEPT !.nxt = @ + 1]
  /\ UNCHANGED <<sock, call, want, got, stored, net_out, faults, mode>>

\* A fault: a segment is lost, or sent again behind the others, on either way,
\* or the peer resets.
Fault ==
  /\ mode = "lossy" /\ faults < MAX_FAULTS
  /\ faults' = faults + 1
  /\ \/ /\ net_in # <<>>
        /\ net_in' \in {Tail(net_in), Append(net_in, Head(net_in))}
        /\ UNCHANGED <<net_out, peer>>
     \/ /\ net_out # <<>>
        /\ net_out' \in {Tail(net_out), Append(net_out, Head(net_out))}
        /\ UNCHANGED <<net_in, peer>>
     \/ /\ peer.state # "LISTEN"
        /\ net_in' = Append(net_in, Segment(peer, {"RST"}, <<>>))
        /\ UNCHANGED <<net_out, peer>>
  /\ UNCHANGED <<sock, call, want, got, stored, mode>>

Program ==
  \/ sys_connect \/ tcp_connect \/ tcp_connect_timeout
  \/ sys_sendto \/ tcp_send \/ tcp_send_poll
  \/ \E n \in RecvSizes : sys_recvfrom(n)
  \/ tcp_recv_poll \/ tcp_recv
  \/ tcp_close \/ tcp_close_poll \/ tcp_close_return

Next == Program \/ OtherPoll \/ PeerReceive \/ PeerSend \/ Fault

Spec == Init /\ [][Next]_vars

\* The program runs, and the network and the peer do their part.
FairSpec ==
  Spec /\ WF_vars(Program) /\ WF_vars(PeerReceive) /\ WF_vars(PeerSend)

-----------------------------------------------------------------------------
\* Types, and the ring's indices are consistent with its length.
TypeOK ==
  /\ sock.state \in {"CLOSED", "SYN_SENT", "ESTABLISHED", "FIN_WAIT_1", "FIN_WAIT_2",
                     "CLOSE_WAIT", "LAST_ACK", "TIME_WAIT"}
  /\ sock.rx_len \in 0 .. TCP_RX_BUF_SIZE
  /\ sock.rx_head \in Ring
  /\ sock.rx_tail = (sock.rx_head + sock.rx_len) % TCP_RX_BUF_SIZE
  /\ want \in 0 .. REQUEST + TCP_RX_BUF_SIZE

\* tcp_receive and tcp_recv: whatever the network does, what the program reads
\* is what was stored, in order, and the rest of it is still in the ring.
RingIsQueue ==
  stored = got \o [k \in 1 .. sock.rx_len |->
                     sock.rx_buf[(sock.rx_head + k - 1) % TCP_RX_BUF_SIZE]]

\* tcp_connect: once it has failed, no late SYN+ACK opens the connection the
\* program was told it does not have.
FailedStaysClosed == call = "failed" => sock.state = "CLOSED"

\* tcp_receive: on a reliable network and until the program closes, a byte that
\* was acknowledged is in the ring or was read: the advertised window keeps the
\* copy from dropping any.
AckedBytesKept ==
  Reliable /\ sock.state \in {"ESTABLISHED", "CLOSE_WAIT"} =>
    Lesser(sock.ack_num - 1, STREAM) <= Len(stored)

\* From its acknowledgement to the program, no byte is lost or moves: what was
\* acknowledged was stored, and what was stored is read in that order.
BytesKept == TypeOK /\ RingIsQueue /\ AckedBytesKept

\* tcp_send_segment: whatever is lost, repeated or fails, the peer reads the
\* program's bytes in order; SYN, data and FIN take their sequence numbers.
PeerReadsRequest == IsPrefix(peer.got, Bytes(1, REQUEST))

\* The program's side of the stream; where segments are lost or padded there is
\* no promise.
Stream == INSTANCE ByteStream WITH
  sent <- IF ~Reliable \/ peer.nxt = 0 THEN 0 ELSE Lesser(peer.nxt - 1, STREAM),
  read <- IF Reliable THEN got ELSE <<>>

\* On a reliable network that does not pad short frames the reader gets the
\* peer's bytes, each once and in order, however the receive ring wraps, fills
\* and is polled by others.
ImplementsByteStream == Stream!Spec

\* On an ideal network a program that reads to the end gets the whole stream,
\* and close ends with the connection shut down on both sides.  Only when the
\* peer's FIN came with data does tcp_receive leave it unacknowledged.
StreamCompletes ==
  mode = "ideal" ~> /\ call = "done" /\ got = Bytes(1, STREAM)
                    /\ peer.fin /\ peer.una = STREAM + (IF peer.rides THEN 1 ELSE 2)
=============================================================================
