------------------------------ MODULE NetStack ------------------------------
(***************************************************************************)
(* The network stack of kernel/net between its callers and the driver:     *)
(* ethernet.c, arp.c, ipv4.c, icmp.c, udp.c, dns.c and net_poll.           *)
(*                                                                         *)
(* Nothing here runs in an interrupt.  Packets are received where some     *)
(* function polls: in the waits of icmp_ping, dns_resolve and arp_resolve. *)
(* arp_resolve waits in the middle of ipv4_send, whose datagram is already *)
(* in the one buffer ipv4_tx_buffer; a packet received there may be        *)
(* answered, by another ipv4_send.  The variable sends is the stack of the *)
(* ipv4_send calls that wait in arp_resolve.  No other part of the stack   *)
(* runs while the driver waits for a completion (tx.waiting).              *)
(*                                                                         *)
(* mode is what the surroundings do:                                       *)
(*   quiet   hosts only answer, and the device completes in time           *)
(*   open    hosts also send echo and ARP requests                         *)
(*   slow    hosts only answer, and the device may miss the time limit     *)
(***************************************************************************)
EXTENDS Virtio, FiniteSetsExt, SequencesExt

CONSTANTS
  Local,            \* hosts of our subnet, "gw" among them
  Remote,           \* hosts behind the gateway
  ARP_CACHE_SIZE,
  MAX_UDP_PORTS,
  MAX_CALLS,        \* bound: calls of icmp_ping and dns_resolve
  MAX_REQUESTS      \* bound: requests sent by the hosts

Hosts == Local \cup Remote
NONE == "none"

ASSUME NetAssumption ==
  /\ {"gw", "dns"} \subseteq Local /\ NONE \notin Hosts
  /\ ARP_CACHE_SIZE \in Nat \ {0} /\ MAX_UDP_PORTS \in Nat \ {0}
  /\ MAX_CALLS \in Nat /\ MAX_REQUESTS \in Nat

VARIABLES
  mode,
  arp_cache,        \* the address of every slot (its MAC is that host's)
  ipv4_tx_buffer,
  sends,            \* ipv4_send calls waiting in arp_resolve, innermost last
  call,             \* the icmp_ping or dns_resolve in progress
  serial,           \* ping_seq_counter and dns_query_id
  ping,             \* ping_expected_seq and ping_reply_received
  dns,              \* dns_resolved and dns_result_ip
  udp_bindings,     \* the port of every slot, 0 when free
  answers,          \* the answers hosts have given; any may reach us, at any time
  result,           \* history: what the last call returned
  requests          \* history: requests sent by hosts

stack == <<arp_cache, ipv4_tx_buffer, sends, call, serial, ping, dns, udp_bindings, result>>
world == <<answers, requests>>
vars == <<rings, stack, world, mode>>

Idle == [kind |-> "idle", id |-> 0, to |-> NONE, phase |-> "none"]
DNS_CLIENT_PORT == 53535

NetInit ==
  /\ RingsInit
  /\ mode \in {"quiet", "open", "slow"}
  /\ arp_cache = [s \in 1 .. ARP_CACHE_SIZE |-> IF s = 1 THEN "gw" ELSE NONE]
  /\ ipv4_tx_buffer = NoFrame /\ sends = <<>> /\ call = Idle
  /\ serial = [ping |-> 0, dns |-> 0]
  /\ ping = [expected |-> 0, received |-> FALSE]
  /\ dns = [resolved |-> FALSE, answer |-> 0]
  /\ udp_bindings = [s \in 1 .. MAX_UDP_PORTS |-> 0]
  /\ answers = {} /\ requests = 0
  /\ result = [kind |-> "none", id |-> 0, ok |-> FALSE]

-----------------------------------------------------------------------------
\* A packet of ours, and the frame it is sent in: meant is the packet the frame
\* was built for, waited whether its ipv4_send had to wait for the address.
Pkt(kind, to, id) == [kind |-> kind, to |-> to, id |-> id]

ethernet_send(dst, pkt, meant, waited) ==
  virtio_net_send_packet([kind |-> pkt.kind, dst |-> dst, pkt |-> pkt,
                          meant |-> meant, waited |-> waited])

\* A packet of a host.
From(kind, host, id) == [kind |-> kind, from |-> host, id |-> id]

Hop(host) == IF host \in Local THEN host ELSE "gw"
Cached(host) == host \in Range(arp_cache)

\* arp_insert_cache: an entry is updated, or takes the first free slot, or slot 0.
Inserted(cache, host) ==
  LET free == {s \in DOMAIN cache : cache[s] = NONE}
  IN IF host \in Range(cache) THEN cache
     ELSE [cache EXCEPT ![IF free = {} THEN 1 ELSE Min(free)] = host]

-----------------------------------------------------------------------------
arp_request(host) ==
  LET request == Pkt("arp_request", host, 0) IN ethernet_send("all", request, request, FALSE)

\* Mutant: the datagram goes to its destination's address, not to the next hop's.
ipv4_send_Direct(pkt, own) ==
  /\ ipv4_tx_buffer' = pkt
  /\ \/ Cached(Hop(pkt.to)) /\ ethernet_send(pkt.to, pkt, pkt, FALSE) /\ UNCHANGED sends
     \/ /\ ~Cached(Hop(pkt.to))
        /\ arp_request(Hop(pkt.to))
        /\ sends' = Append(sends, [pkt |-> pkt, own |-> own])

\* ipv4_send up to arp_resolve's answer from the cache, or to the wait that its
\* request starts.
ipv4_send(pkt, own) ==
  /\ ipv4_tx_buffer' = pkt
  /\ \/ Cached(Hop(pkt.to)) /\ ethernet_send(Hop(pkt.to), pkt, pkt, FALSE) /\ UNCHANGED sends
     \/ /\ ~Cached(Hop(pkt.to))
        /\ arp_request(Hop(pkt.to))
        /\ sends' = Append(sends, [pkt |-> pkt, own |-> own])

\* arp_handle_packet: the sender is cached, and answered when it asks for us.
arp_handle_packet(p) ==
  /\ p.kind \in {"arp_request", "arp_reply"}
  /\ arp_cache' = Inserted(arp_cache, p.from)
  /\ \/ /\ p.kind = "arp_request"
        /\ LET reply == Pkt("arp_reply", p.from, 0) IN ethernet_send(p.from, reply, reply, FALSE)
     \/ p.kind = "arp_reply" /\ UNCHANGED tx
  /\ UNCHANGED <<ipv4_tx_buffer, sends, ping, dns>>

icmp_receive(p) ==
  \/ /\ p.kind = "echo_request"
     /\ ipv4_send(Pkt("echo_reply", p.from, p.id), FALSE)
     /\ UNCHANGED <<arp_cache, ping, dns>>
  \/ /\ p.kind = "echo_reply"
     /\ ping' = [ping EXCEPT !.received = @ \/ p.id = ping.expected]
     /\ UNCHANGED <<tx, arp_cache, ipv4_tx_buffer, sends, dns>>

\* Mutant: the query's number is not compared.
dns_udp_callback_AnyId(p) == [resolved |-> TRUE, answer |-> p.id]

\* dns_udp_callback: the first address in the answer to the current query, if
\* there is one.
dns_udp_callback(p) ==
  IF p.id = serial.dns /\ p.kind = "dns_answer" THEN [resolved |-> TRUE, answer |-> p.id] ELSE dns

\* udp_receive: the callback is that of the port, if it is bound.
udp_receive(p) ==
  /\ p.kind \in {"dns_answer", "dns_empty"}
  /\ dns' = IF DNS_CLIENT_PORT \in Range(udp_bindings) THEN dns_udp_callback(p) ELSE dns
  /\ UNCHANGED <<tx, arp_cache, ipv4_tx_buffer, sends, ping>>

\* Both dispatch on the kind of packet; segments of TCP are the subject of Tcp.
ipv4_receive(p) == icmp_receive(p) \/ udp_receive(p)
ethernet_receive(p) == arp_handle_packet(p) \/ ipv4_receive(p)

-----------------------------------------------------------------------------
Top == Last(sends)
Replied == IF call.kind = "ping" THEN ping.received ELSE dns.resolved

\* Somebody polls: arp_resolve while its address is missing, the call in
\* progress while it has no reply, or, between calls, the socket layer.
Polling ==
  /\ ~tx.waiting
  /\ IF sends # <<>> THEN ~Cached(Hop(Top.pkt.to))
                     ELSE call = Idle \/ (call.phase = "wait" /\ ~Replied)

\* net_poll: one packet is read from the driver and handed up.
net_poll ==
  /\ Polling /\ Arrived /\ virtio_net_poll_packet
  /\ ethernet_receive(Packet)
  /\ UNCHANGED <<wire, call, serial, udp_bindings, result, world, mode>>

\* udp_register_port and udp_unregister_port on the table t: the first free slot,
\* the first slot of the port.
Bound(t, port) ==
  LET free == {s \in DOMAIN t : t[s] = 0}
  IN IF free = {} THEN t ELSE [t EXCEPT ![Min(free)] = port]

Unbound(t, port) ==
  LET of == {s \in DOMAIN t : t[s] = port}
  IN IF of = {} THEN t ELSE [t EXCEPT ![Min(of)] = 0]

\* Mutant: a call that fails leaves its port bound.
Returns_Bound(ok) ==
  /\ call' = Idle
  /\ result' = [kind |-> call.kind, id |-> call.id, ok |-> ok]
  /\ udp_bindings' = IF call.kind = "dns" /\ ok THEN Unbound(udp_bindings, DNS_CLIENT_PORT) ELSE udp_bindings

\* The call in progress returns.
Returns(ok) ==
  /\ call' = Idle
  /\ result' = [kind |-> call.kind, id |-> call.id, ok |-> ok]
  /\ udp_bindings' = IF call.kind = "dns" THEN Unbound(udp_bindings, DNS_CLIENT_PORT) ELSE udp_bindings

\* arp_resolve's wait ends with the address, or with the gateway's built-in one:
\* ipv4_send hands over what ipv4_tx_buffer holds.
arp_resolve_found ==
  /\ ~tx.waiting /\ sends # <<>>
  /\ Cached(Hop(Top.pkt.to)) \/ Hop(Top.pkt.to) = "gw"
  /\ ethernet_send(Hop(Top.pkt.to), ipv4_tx_buffer, Top.pkt, TRUE)
  /\ sends' = Front(sends)
  /\ call' = IF Top.own THEN [call EXCEPT !.phase = "wait"] ELSE call
  /\ UNCHANGED <<rx, wire, arp_cache, ipv4_tx_buffer, serial, ping, dns, udp_bindings, result,
                 world, mode>>

\* arp_resolve's wait ends without: ipv4_send fails, and so does its caller.
arp_resolve_fails ==
  /\ ~tx.waiting /\ sends # <<>>
  /\ ~Cached(Hop(Top.pkt.to)) /\ Hop(Top.pkt.to) # "gw"
  /\ sends' = Front(sends)
  /\ IF Top.own THEN Returns(FALSE) ELSE UNCHANGED <<call, result, udp_bindings>>
  /\ UNCHANGED <<rings, arp_cache, ipv4_tx_buffer, serial, ping, dns, world, mode>>

-----------------------------------------------------------------------------
Free == call = Idle /\ sends = <<>> /\ ~tx.waiting /\ serial.ping + serial.dns < MAX_CALLS

Starts(kind, id, to) ==
  call' = [kind |-> kind, id |-> id, to |-> to,
           phase |-> IF Cached(Hop(to)) THEN "wait" ELSE "send"]

\* icmp_ping up to its wait.
icmp_ping(to) ==
  LET seq == serial.ping + 1
  IN /\ Free
     /\ serial' = [serial EXCEPT !.ping = seq]
     /\ ping' = [expected |-> seq, received |-> FALSE]
     /\ Starts("ping", seq, to)
     /\ ipv4_send(Pkt("ping", to, seq), TRUE)
     /\ UNCHANGED <<rx, wire, arp_cache, dns, udp_bindings, result, world, mode>>

udp_send(pkt) == ipv4_send(pkt, TRUE)

\* dns_resolve up to its wait.
dns_resolve ==
  LET id == serial.dns + 1
  IN /\ Free
     /\ serial' = [serial EXCEPT !.dns = id]
     /\ dns' = [resolved |-> FALSE, answer |-> 0]
     /\ udp_bindings' = Bound(udp_bindings, DNS_CLIENT_PORT)
     /\ Starts("dns", id, "dns")
     /\ udp_send(Pkt("dns", "dns", id))
     /\ UNCHANGED <<rx, wire, arp_cache, ping, result, world, mode>>

\* dns_resolve of a name that encode_qname refuses: the port is bound and given
\* back.
dns_resolve_bad_name ==
  /\ Free
  /\ serial' = [serial EXCEPT !.dns = @ + 1]
  /\ dns' = [resolved |-> FALSE, answer |-> 0]
  /\ udp_bindings' = Unbound(Bound(udp_bindings, DNS_CLIENT_PORT), DNS_CLIENT_PORT)
  /\ result' = [kind |-> "dns", id |-> serial'.dns, ok |-> FALSE]
  /\ UNCHANGED <<rings, arp_cache, ipv4_tx_buffer, sends, call, ping, world, mode>>

\* The waits of icmp_ping and dns_resolve end with a reply.
call_replied ==
  /\ ~tx.waiting /\ sends = <<>> /\ call.phase = "wait" /\ Replied
  /\ Returns(TRUE)
  /\ UNCHANGED <<rings, arp_cache, ipv4_tx_buffer, sends, serial, ping, dns, world, mode>>

\* Mutant: the time is only looked at when a packet has come.
call_timeout_OnPacket ==
  /\ ~tx.waiting /\ sends = <<>> /\ call.phase = "wait" /\ ~Replied /\ Arrived
  /\ Returns(FALSE)
  /\ UNCHANGED <<rings, arp_cache, ipv4_tx_buffer, sends, serial, ping, dns, world, mode>>

\* They end because of the time limit.
call_timeout ==
  /\ ~tx.waiting /\ sends = <<>> /\ call.phase = "wait" /\ ~Replied
  /\ Returns(FALSE)
  /\ UNCHANGED <<rings, arp_cache, ipv4_tx_buffer, sends, serial, ping, dns, world, mode>>

\* The wait of virtio_net_send_packet.
send_returns == SendReturns /\ UNCHANGED <<rx, wire, stack, world, mode>>
send_timeout == mode = "slow" /\ SendTimesOut /\ UNCHANGED <<rx, wire, stack, world, mode>>

-----------------------------------------------------------------------------
\* What the hosts answer to a frame: the one it is addressed to, if it is the
\* next hop of the packet inside.
Reaction(f) ==
  LET p == f.pkt
  IN CASE p.kind = "arp_request" -> {From("arp_reply", p.to, 0)}
       [] p.kind = "ping" /\ f.dst = Hop(p.to) -> {From("echo_reply", p.to, p.id)}
       [] p.kind = "dns" /\ f.dst = Hop(p.to) ->
            {From("dns_answer", p.to, p.id), From("dns_empty", p.to, p.id)}
       [] OTHER -> {}

device_transmits ==
  /\ DeviceTransmits
  /\ answers' = answers \cup Reaction(tx.buffer)
  /\ UNCHANGED <<rx, stack, requests, mode>>

\* An answer arrives, once or several times, in any order.
answer_arrives ==
  /\ \E p \in answers : DeviceReceives(p)
  /\ UNCHANGED <<tx, wire, stack, world, mode>>

\* A host sends a request of its own.
request_arrives ==
  /\ mode = "open" /\ requests < MAX_REQUESTS /\ requests' = requests + 1
  /\ \E h \in Local :
       \/ DeviceReceives(From("arp_request", h, 0))
       \/ DeviceReceives(From("echo_request", h, requests'))
  /\ UNCHANGED <<tx, wire, stack, answers, mode>>

Kernel ==
  \/ \E h \in Hosts : icmp_ping(h)
  \/ dns_resolve \/ dns_resolve_bad_name
  \/ arp_resolve_found \/ arp_resolve_fails
  \/ net_poll
  \/ call_replied \/ call_timeout
  \/ send_returns \/ send_timeout

Next == Kernel \/ device_transmits \/ answer_arrives \/ request_arrives

NetSpec == NetInit /\ [][Next]_vars

\* The loops of the code are bounded and go on by themselves; the device takes
\* part only where it is said to complete in time.
NetFairSpec ==
  /\ NetSpec
  /\ WF_vars(arp_resolve_found) /\ WF_vars(arp_resolve_fails)
  /\ WF_vars(call_replied) /\ WF_vars(call_timeout)
  /\ WF_vars(send_returns) /\ WF_vars(send_timeout)
  /\ WF_vars(mode # "slow" /\ device_transmits)

-----------------------------------------------------------------------------
\* The types of the state.
TypeOK ==
  /\ mode \in {"quiet", "open", "slow"}
  /\ arp_cache \in [1 .. ARP_CACHE_SIZE -> Hosts \cup {NONE}]
  /\ call.kind \in {"idle", "ping", "dns"} /\ call.phase \in {"none", "send", "wait"}
  /\ serial \in [ping : 0 .. MAX_CALLS, dns : 0 .. MAX_CALLS]
  /\ udp_bindings \in [1 .. MAX_UDP_PORTS -> {0, DNS_CLIENT_PORT}]
  /\ Len(sends) <= 1 + MAX_REQUESTS

\* virtio_net_send_packet: with one buffer for every packet, a frame leaves as it
\* was handed over as long as the device keeps within the time limit.
FramesUnchanged == mode # "slow" => wire.sent = wire.given

\* ipv4_send: a datagram leaves with its own contents, to its own next hop,
\* although the buffer is shared by all sends, provided that the next hop was
\* known at once or no request came in while it was asked for.
DatagramsIntact ==
  LET f == wire.given
  IN f # NoFrame /\ (mode # "open" \/ ~f.waited) =>
       f.pkt = f.meant /\ f.dst \in {"all", Hop(f.pkt.to)}

\* What ipv4_send was given is what leaves the machine, from the one packet
\* buffer and through the driver's one buffer, in the modes named above.
FramesIntact == FramesUnchanged /\ DatagramsIntact

\* icmp_ping and dns_resolve: success means that a host has answered this very
\* call; the late answer to an earlier one, that was given up, does not count.
AnswerIsOwn ==
  result.ok => \E a \in answers :
    /\ a.id = result.id
    /\ a.kind = IF result.kind = "ping" THEN "echo_reply" ELSE "dns_answer"

\* dns_resolve: on every path out, however it ended, its port has been given
\* back, so that the table of MAX_UDP_PORTS never fills up.
PortReleased == call.kind # "dns" => \A s \in DOMAIN udp_bindings : udp_bindings[s] = 0

\* arp_insert_cache: an address is in at most one slot, whatever was evicted.
AddressOnce ==
  \A s, t \in DOMAIN arp_cache : arp_cache[s] = arp_cache[t] /\ arp_cache[s] # NONE => s = t

\* The tables of ARP and UDP hold no address twice and no port whose call is
\* over, however calls time out and slots are evicted.
TablesSound == TypeOK /\ AddressOnce /\ PortReleased

\* Every call returns, with the hosts silent, with requests answered in the
\* middle of it, and with a device that never completes anything.
CallReturns == call # Idle ~> call = Idle
=============================================================================
