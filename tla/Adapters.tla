------------------------------- MODULE Adapters -------------------------------
(***************************************************************************)
(* The adapters between a TCP connection and a device: over UDP            *)
(* (fd_adapter), over IPv4 on a tun device and over Ethernet on a tap      *)
(* device (tcp_over_ip, tuntap_adapter).  read() takes the bytes of one    *)
(* packet and passes up at most one segment; write() makes the bytes.  The *)
(* ARP side of the tap adapter is NetworkInterface's.                      *)
(***************************************************************************)
EXTENDS Wire

CONSTANTS MyEthernet, PeerEthernet   \* the ends of the tap device

ETHERNET_BROADCAST == <<255, 255, 255, 255, 255, 255>>
TYPE_IPv4 == 2048
TYPE_ARP == 2054

\* FdAdapterBase: the listening flag and the addresses, [ip, port] each.
NewAdapter(listening, source, destination) ==
    [listening |-> listening, source |-> source, destination |-> destination]

\* What a read ends with: the adapter and no or one segment.
Nothing(a) == [adapter |-> a, up |-> <<>>]
Pass(a, seg) == [adapter |-> a, up |-> <<[header |-> seg.header, payload |-> seg.payload]>>]

\* Mutant of Bind: replies come from the address the adapter was bound to at
\* first, perhaps none.
Bind_KeepsSource(a, ip, h) ==
    [a EXCEPT !.destination = [ip |-> ip.src, port |-> h.sport], !.listening = FALSE]

\* Mutant of Bind: the next SYN, of whomever, binds the adapter again.
Bind_GoesOnListening(a, ip, h) ==
    [a EXCEPT !.source.ip = ip.dst, !.destination = [ip |-> ip.src, port |-> h.sport]]

Bind(a, ip, h) ==
    [a EXCEPT !.source.ip = ip.dst, !.listening = FALSE,
              !.destination = [ip |-> ip.src, port |-> h.sport]]

FromPeersPort(a, h) == h.sport = a.destination.port

\* TCPOverIPv4Adapter.  A listening adapter takes the first SYN and from then on
\* only what its sender sends.
Filter(a, ip, seg, h) ==
    IF \/ ~a.listening /\ (ip.dst # a.source.ip \/ ip.src # a.destination.ip)
       \/ ip.proto # PROTO_TCP
       \/ seg.result # "NoError"
       \/ h.dport # a.source.port
       \/ a.listening /\ ~(h.syn /\ ~h.rst)
       \/ ~a.listening /\ ~FromPeersPort(a, h)
    THEN Nothing(a)
    ELSE Pass(IF a.listening THEN Bind(a, ip, h) ELSE a, seg)

unwrap_tcp_in_ip(a, ip) ==
    LET seg == TCPSegment_parse(ip.payload, pseudo_cksum(ip.header))
    IN  Filter(a, ip.header, seg, seg.header)

WithPorts(a, h) == [h EXCEPT !.sport = a.source.port, !.dport = a.destination.port]

wrap_tcp_in_ip(a, seg) ==
    LET ip == [IPv4Header EXCEPT !.src = a.source.ip, !.dst = a.destination.ip,
                  !.len = 4 * IPv4Header.hlen + 4 * seg.header.doff + Len(seg.payload)]
    IN  [header |-> ip,
         payload |-> TCPSegment_serialize(WithPorts(a, seg.header), seg.payload, pseudo_cksum(ip))]

\* TCPOverIPv4OverTunFdAdapter.
tun_read(a, bytes) ==
    LET ip == IPv4Datagram_parse(bytes)
    IN  IF ip.result # "NoError" THEN Nothing(a) ELSE unwrap_tcp_in_ip(a, ip)

tun_write(a, seg) ==
    LET ip == wrap_tcp_in_ip(a, seg) IN IPv4Datagram_serialize(ip.header, ip.payload)

\* TCPOverIPv4OverEthernetAdapter, when the address of the next hop is known.
tap_read(a, bytes) ==
    LET frame == EthernetFrame_parse(bytes)
        ip    == IPv4Datagram_parse(frame.payload)
    IN  IF \/ frame.dst \notin {MyEthernet, ETHERNET_BROADCAST}
           \/ frame.type # TYPE_IPv4
           \/ ip.result # "NoError"
        THEN Nothing(a) ELSE unwrap_tcp_in_ip(a, ip)

\* What NetworkInterface learns from the bytes of a frame: no or one mapping.
\* ARP has no checksum.
tap_learns(bytes) ==
    LET frame == EthernetFrame_parse(bytes)
        arp   == ARPMessage_parse(frame.payload)
    IN  IF \/ frame.dst \notin {MyEthernet, ETHERNET_BROADCAST}
           \/ frame.type # TYPE_ARP
           \/ arp.result # "NoError"
        THEN {} ELSE {<<arp.message.sender_ip_address, arp.message.sender_ethernet_address>>}

arp_write(opcode, ip, ethernet, target_ip, to) ==
    EthernetFrame_serialize([dst |-> to, src |-> ethernet, type |-> TYPE_ARP, payload |->
        ARPMessage_serialize([hardware_type |-> 1, protocol_type |-> TYPE_IPv4, opcode |-> opcode,
            hardware_address_size |-> 6, protocol_address_size |-> 4,
            sender_ethernet_address |-> ethernet, sender_ip_address |-> ip,
            target_ethernet_address |-> IF opcode = 2 THEN to ELSE Zeros(6),
            target_ip_address |-> target_ip])])

tap_write(a, seg, from, to) ==
    EthernetFrame_serialize([dst |-> to, src |-> from, type |-> TYPE_IPv4, payload |-> tun_write(a, seg)])

\* TCPOverUDPSocketAdapter.  UDP tells where the packet is from; there are no
\* addresses in the checksum, and the ports of the segment are not looked at.
UdpFilter(a, from, seg) ==
    IF \/ ~a.listening /\ from # a.destination
       \/ seg.result # "NoError"
       \/ a.listening /\ ~(seg.header.syn /\ ~seg.header.rst)
    THEN Nothing(a)
    ELSE Pass(IF a.listening THEN [a EXCEPT !.destination = from, !.listening = FALSE] ELSE a, seg)

udp_read(a, from, bytes) == UdpFilter(a, from, TCPSegment_parse(bytes, 0))

\* The datagram and where it is sent to.
udp_write(a, seg) ==
    [to |-> a.destination,
     bytes |-> TCPSegment_serialize(WithPorts(a, seg.header), seg.payload, 0)]

=============================================================================
