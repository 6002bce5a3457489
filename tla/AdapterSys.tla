------------------------------ MODULE AdapterSys ------------------------------
(***************************************************************************)
(* A listening adapter, and peers that send segments to it through a       *)
(* device that may damage one byte of a packet or cut off its end.  Over   *)
(* UDP the ports in the TCP header are the ones the peer believes in:      *)
(* between the two an address translator may have changed the packet's.    *)
(***************************************************************************)
EXTENDS Adapters, FiniteSets

CONSTANTS Device,      \* the devices to look at: "udp", "tun", "tap"
          Me,          \* where the adapter listens: [ip, port]
          Bound,       \* the address it is bound to: that one, or none (0)
          Peer,        \* who sends: [ip, port] each
          Ports,       \* to which ports they send
          Message,     \* the segments they send: [header, payload] each
          Values       \* what a damaged byte may become

ASSUME AdapterAssumption == Me \notin Peer /\ \A m \in Message : m.header.doff >= 5

VARIABLES device,    \* the device in use
          adapter,   \* FdAdapterBase
          packet,    \* the packet under way: none or one
          up,        \* what the last read passed up
          learned,   \* and what the interface learned from it
          origin     \* the packet of the last read

vars == <<device, adapter, packet, up, learned, origin>>

Init == /\ device \in Device
        /\ adapter = NewAdapter(TRUE, [ip |-> Bound, port |-> Me.port], [ip |-> <<0, 0>>, port |-> 0])
        /\ packet = {}
        /\ up = <<>>
        /\ learned = {}
        /\ origin = {}

\* The bytes an adapter with this end's addresses writes.
Written(a, seg, from, to) ==
    CASE device = "udp" -> udp_write(a, seg).bytes
      [] device = "tun" -> tun_write(a, seg)
      [] device = "tap" -> tap_write(a, seg, from, to)

ReadBy(a, from, bytes) ==
    CASE device = "udp" -> udp_read(a, from, bytes)
      [] device = "tun" -> tun_read(a, bytes)
      [] device = "tap" -> tap_read(a, bytes)

PeerSends(p, sport, port, seg) ==
    LET a == NewAdapter(FALSE, [p EXCEPT !.port = sport], [Me EXCEPT !.port = port])
    IN  /\ packet = {}
        /\ device # "udp" => sport = p.port
        /\ packet' = {[from |-> p, port |-> port, damaged |-> FALSE, unnoticed |-> FALSE, arp |-> FALSE,
                       seg |-> [seg EXCEPT !.header = WithPorts(a, @)],
                       bytes |-> Written(a, seg, PeerEthernet, MyEthernet)]}
        /\ up' = <<>> /\ learned' = {} /\ origin' = {}
        /\ UNCHANGED <<device, adapter>>

\* An ARP message: a request (1) to all, or a reply (2).
PeerAsks(p, opcode) ==
    LET to == IF opcode = 1 THEN ETHERNET_BROADCAST ELSE MyEthernet
    IN  /\ packet = {} /\ device = "tap"
        /\ packet' = {[from |-> p, port |-> 0, damaged |-> FALSE, unnoticed |-> FALSE,
                       arp |-> TRUE, seg |-> <<>>,
                       bytes |-> arp_write(opcode, p.ip, PeerEthernet, Me.ip, to)]}
        /\ up' = <<>> /\ learned' = {} /\ origin' = {}
        /\ UNCHANGED <<device, adapter>>

\* Bytes whose sum is zero in the arithmetic of the checksum: they can go missing.
Worthless(initial, bytes) == Checksum(initial, bytes) \in {0, 65535}

\* Two kinds of damage that no checksum looked at can notice.  IPv4Datagram::parse
\* drops the verdict on the header, so that a header that claims options takes them
\* from the segment: with the shorter length they must be worth nothing to the
\* checksum of the segment.  Over UDP that checksum has no length in it: bytes
\* worth nothing can be cut off.
TakesOptions(x, i, value) ==
    LET ip == IF device = "tun" THEN 1 ELSE 15
        n  == 4 * (value % 16) - 20
    IN  /\ device # "udp" /\ ~x.arp /\ i = ip
        /\ value \div 16 = 4 /\ n > 0
        /\ Worthless(n, SubSeq(x.bytes, ip + 20, ip + 19 + n))
CutsNothing(x, n) ==
    /\ device = "udp"
    /\ Worthless(0, [i \in DOMAIN x.bytes |-> IF i <= n THEN 0 ELSE x.bytes[i]])

Damage(x, i, value) ==
    /\ ~x.damaged /\ x.bytes[i] # value
    /\ packet' = {[x EXCEPT !.bytes[i] = value, !.damaged = TRUE,
                            !.unnoticed = TakesOptions(x, i, value)]}
    /\ UNCHANGED <<device, adapter, up, learned, origin>>

Truncate(x, n) ==
    /\ ~x.damaged
    /\ packet' = {[x EXCEPT !.bytes = SubSeq(@, 1, n), !.damaged = TRUE,
                            !.unnoticed = CutsNothing(x, n)]}
    /\ UNCHANGED <<device, adapter, up, learned, origin>>

\* LossyFdAdapter::read: what it drops, the adapter below has already acted on.
\* Over UDP a packet for another port reaches another socket.
Read(x, dropped) ==
    LET r == IF device = "udp" /\ x.port # Me.port THEN Nothing(adapter)
             ELSE ReadBy(adapter, x.from, x.bytes)
    IN  /\ adapter' = r.adapter
        /\ up' = IF dropped THEN <<>> ELSE r.up
        /\ learned' = IF device = "tap" THEN tap_learns(x.bytes) ELSE {}
        /\ origin' = {[x EXCEPT !.bytes = <<>>]}
        /\ packet' = {}
        /\ UNCHANGED device

Next == \/ \E p, q \in Peer, port \in Ports, seg \in Message : PeerSends(p, q.port, port, seg)
        \/ \E p \in Peer, opcode \in {1, 2} : PeerAsks(p, opcode)
        \/ \E x \in packet :
               \/ \E i \in DOMAIN x.bytes, value \in Values : Damage(x, i, value)
               \/ \E n \in 0 .. Len(x.bytes) - 1 : Truncate(x, n)
               \/ \E dropped \in BOOLEAN : Read(x, dropped)

Spec == Init /\ [][Next]_vars

-----------------------------------------------------------------------------

\* TCP gets a segment as the peer's TCP made it or not at all: no damaged or cut
\* byte, in whatever header, changes a flag, a number, a port or the payload, but
\* for the two kinds of damage above.  (The checksum field alone is filled in on
\* the way.)
DamageHarmless ==
    \A x \in origin : up # <<>> =>
        /\ ~x.arp
        /\ \/ x.unnoticed
           \/ /\ up[1].payload = x.seg.payload
              /\ [up[1].header EXCEPT !.cksum = 0] = x.seg.header

\* An ARP message teaches the mapping its sender has, and a packet of another
\* kind none, whatever byte of it is damaged.  (ARP itself has no checksum: a
\* damaged message may teach a wrong mapping.)
LearnsFromArp ==
    \A x \in origin :
        /\ learned # {} => x.arp
        /\ x.arp /\ ~x.damaged => learned = {<<x.from.ip, PeerEthernet>>}

\* A listening adapter binds itself once, to the sender of a SYN to its port, and
\* stays bound to it: from then on no packet of anybody else and none for another
\* port is passed up or changes it, SYN or not.  Over UDP the sender is the one of
\* the UDP packet, whatever ports the TCP header has.  (A packet with unnoticed
\* damage may seem to be another port's.)
OnlyThePeer ==
    [][\A x \in packet :
           /\ adapter' # adapter =>
                  /\ adapter.listening /\ ~adapter'.listening
                  /\ x.port = Me.port
                  /\ x.unnoticed \/ (adapter'.destination = x.from /\ x.seg.header.syn)
           /\ up' # <<>> =>
                  /\ x.port = Me.port
                  /\ adapter.listening \/ x.unnoticed \/ x.from = adapter.destination]_vars

\* What the adapter writes reaches the peer it is bound to and nobody else, with
\* every field as it was, also when it was bound to no address of its own.
RepliesArrive ==
    packet = {} /\ ~adapter.listening =>
        \A p \in Peer, seg \in Message :
            LET a == NewAdapter(FALSE, p, Me)
                r == IF device = "udp" /\ udp_write(adapter, seg).to # p THEN Nothing(a)
                     ELSE ReadBy(a, Me, Written(adapter, seg, PeerEthernet, MyEthernet))
            IN  IF p # adapter.destination THEN r.up = <<>>
                ELSE /\ r.up # <<>>
                     /\ r.up[1].payload = seg.payload
                     /\ [r.up[1].header EXCEPT !.cksum = 0] = WithPorts(adapter, seg.header)

=============================================================================
