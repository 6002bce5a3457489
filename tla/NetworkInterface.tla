--------------------------- MODULE NetworkInterface ---------------------------
(***************************************************************************)
(* The network interface (libsponge/network_interface): it finds the       *)
(* Ethernet address of the next hop with ARP, remembers it for a while,    *)
(* and lets datagrams wait for the answer.  The members of the class are   *)
(* the fields of a record, its methods operators on such records.          *)
(* _ip_ethernet_cache and _ip_expire_time always change together and are   *)
(* one map here.  datagrams_out is the queue AsyncNetworkInterface adds.   *)
(***************************************************************************)
EXTENDS Naturals, Sequences, Functions

CONSTANTS Broadcast,    \* ETHERNET_BROADCAST
          NoEthernet,   \* the address of zeros a request is made with
          Malformed,    \* a payload that does not parse
          CacheTime,    \* how long a mapping is kept (30000 ms)
          ArpTime       \* how long an unanswered request is not repeated (5000 ms)

ASSUME InterfaceAssumption == CacheTime \in Nat /\ ArpTime \in Nat

NewNetworkInterface(ethernet_address, ip_address) ==
    [ethernet_address |-> ethernet_address, ip_address |-> ip_address,
     frames_out |-> <<>>, datagrams_out |-> <<>>,
     ip_ethernet_cache |-> <<>>,    \* ip :> [ethernet, expire]
     arp_expire_time   |-> <<>>,    \* ip :> time
     blocked_ip_datagram |-> <<>>,  \* waiting: [next_hop, dgram]
     ms_since_running |-> 0]

Put(map, key, value) == [k \in DOMAIN map \cup {key} |-> IF k = key THEN value ELSE map[k]]

Erase(map, key) == Restrict(map, DOMAIN map \ {key})

PushFrame(n, type, dst, payload) ==
    [n EXCEPT !.frames_out = Append(@, [type |-> type, src |-> n.ethernet_address,
                                        dst |-> dst, payload |-> payload])]

send_arp_message(n, target_ip, target_ethernet, opcode) ==
    PushFrame(n, "ARP", target_ethernet,
              [opcode |-> opcode,
               sender_ethernet_address |-> n.ethernet_address,
               sender_ip_address       |-> n.ip_address,
               target_ethernet_address |-> IF opcode = "REPLY" THEN target_ethernet ELSE NoEthernet,
               target_ip_address       |-> target_ip])

send_ip_dgram(n, dgram, target_ethernet) == PushFrame(n, "IPv4", target_ethernet, dgram)

\* Mutant of update_ip_ethernet_cache: the mapping is taken from the target fields.
update_ip_ethernet_cache_Target(n, ip, ethernet) ==
    [n EXCEPT !.ip_ethernet_cache = Put(@, n.ip_address, [ethernet |-> ethernet,
                                           expire |-> n.ms_since_running + CacheTime]),
              !.arp_expire_time   = Erase(@, ip)]

update_ip_ethernet_cache(n, ip, ethernet) ==
    [n EXCEPT !.ip_ethernet_cache = Put(@, ip, [ethernet |-> ethernet,
                                                expire |-> n.ms_since_running + CacheTime]),
              !.arp_expire_time   = Erase(@, ip)]

Known(n, ip) == /\ ip \in DOMAIN n.ip_ethernet_cache
                /\ n.ip_ethernet_cache[ip].expire >= n.ms_since_running

RequestPending(n, ip) == /\ ip \in DOMAIN n.arp_expire_time
                         /\ n.arp_expire_time[ip] >= n.ms_since_running

\* Mutant of send_datagram: a request for every datagram.
send_datagram_AlwaysAsks(n, dgram, next_hop) ==
    IF Known(n, next_hop)
    THEN send_ip_dgram(n, dgram, n.ip_ethernet_cache[next_hop].ethernet)
    ELSE [send_arp_message(n, next_hop, Broadcast, "REQUEST") EXCEPT
             !.blocked_ip_datagram = Append(@, [next_hop |-> next_hop, dgram |-> dgram]),
             !.arp_expire_time     = Put(@, next_hop, n.ms_since_running + ArpTime)]

\* While a request is pending a datagram for the same hop is not kept.
send_datagram(n, dgram, next_hop) ==
    IF Known(n, next_hop)
    THEN send_ip_dgram(n, dgram, n.ip_ethernet_cache[next_hop].ethernet)
    ELSE IF RequestPending(n, next_hop) THEN n
    ELSE [send_arp_message(n, next_hop, Broadcast, "REQUEST") EXCEPT
             !.blocked_ip_datagram = Append(@, [next_hop |-> next_hop, dgram |-> dgram]),
             !.arp_expire_time     = Put(@, next_hop, n.ms_since_running + ArpTime)]

\* The waiting datagrams at the front whose hop is known now.
Unblocked(n) ==
    CHOOSE k \in 0 .. Len(n.blocked_ip_datagram) :
        /\ \A i \in 1 .. k : Known(n, n.blocked_ip_datagram[i].next_hop)
        /\ k < Len(n.blocked_ip_datagram) => ~Known(n, n.blocked_ip_datagram[k + 1].next_hop)

SendUnblocked(n) ==
    LET k == Unblocked(n)
        Frame(waiting) == [type |-> "IPv4", src |-> n.ethernet_address, payload |-> waiting.dgram,
                           dst |-> n.ip_ethernet_cache[waiting.next_hop].ethernet]
    IN  [n EXCEPT !.frames_out = @ \o [i \in 1 .. k |-> Frame(n.blocked_ip_datagram[i])],
                  !.blocked_ip_datagram = SubSeq(@, k + 1, Len(@))]

\* Mutant of ReceiveArp: a reply is learned, and what waits for it goes on waiting.
ReceiveArp_OnlyLearns(n, arp) ==
    LET learned == update_ip_ethernet_cache(n, arp.sender_ip_address, arp.sender_ethernet_address)
    IN  IF arp.opcode = "REQUEST" /\ arp.target_ip_address = n.ip_address
        THEN send_arp_message(learned, arp.sender_ip_address, arp.sender_ethernet_address, "REPLY")
        ELSE learned

\* A request is learned from like a reply, but only a reply sends what waits.
ReceiveArp(n, arp) ==
    LET learned == update_ip_ethernet_cache(n, arp.sender_ip_address, arp.sender_ethernet_address)
    IN  CASE arp.opcode = "REPLY" -> SendUnblocked(learned)
          [] arp.opcode = "REQUEST" /\ arp.target_ip_address = n.ip_address ->
                 send_arp_message(learned, arp.sender_ip_address, arp.sender_ethernet_address, "REPLY")
          [] arp.opcode = "REQUEST" /\ arp.target_ip_address # n.ip_address -> learned
          [] OTHER -> n

Addressed(n, frame) == frame.dst \in {n.ethernet_address, Broadcast}

recv_frame(n, frame) ==
    IF Addressed(n, frame) /\ frame.type = "ARP" /\ frame.payload # Malformed
    THEN ReceiveArp(n, frame.payload) ELSE n

\* What recv_frame returns: no or one datagram.
received_datagram(n, frame) ==
    IF Addressed(n, frame) /\ frame.type = "IPv4" /\ frame.payload # Malformed
    THEN <<frame.payload>> ELSE <<>>

\* AsyncNetworkInterface::recv_frame.
async_recv_frame(n, frame) ==
    [recv_frame(n, frame) EXCEPT !.datagrams_out = @ \o received_datagram(n, frame)]

interface_tick(n, ms) ==
    LET now  == n.ms_since_running + ms
        kept == {ip \in DOMAIN n.ip_ethernet_cache : n.ip_ethernet_cache[ip].expire >= now}
    IN  [n EXCEPT !.ms_since_running = now, !.ip_ethernet_cache = Restrict(@, kept)]

=============================================================================
