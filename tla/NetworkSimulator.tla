--------------------------- MODULE NetworkSimulator ---------------------------
(***************************************************************************)
(* The simulated network of apps/network_simulator.cc: hosts on the links  *)
(* of one router.  A host sends a datagram, simulate() routes and          *)
(* exchanges frames for a number of rounds, and then every host checks     *)
(* what it got.  The program's own scenarios are some of the sequences of  *)
(* sends here; they go on for ever and in any order.                       *)
(***************************************************************************)
EXTENDS Router

CONSTANTS Host,         \* the hosts
          HostIp,       \* the address of each host
          HostHop,      \* the next hop of each host that sends: a router address
          PortIp,       \* the addresses of the router's interfaces
          Wired,        \* the hosts on each interface, in the order of the code
          RouteLists,   \* the lists of routes the router may be set up with
          Destinations, \* where datagrams are sent to
          Ttls,         \* and with which TTL
          Rounds        \* rounds of simulate() (256)

ASSUME SimulatorAssumption ==
    /\ DOMAIN HostIp = Host /\ DOMAIN HostHop \subseteq Host
    /\ DOMAIN Wired = DOMAIN PortIp
    /\ Rounds \in Nat \ {0}

VARIABLES router,   \* Network::_router
          host,     \* Network::_hosts
          round,    \* rounds of simulate() done; 0 outside it
          thrown,   \* the exception check() has ended the program with
          routes    \* the routes, in the order they were added

vars == <<router, host, round, thrown, routes>>

\* Random Ethernet addresses: nothing is known of them but that they differ.
EthernetOf(ip) == <<"ethernet", ip>>

NewInterface(ip) == NewNetworkInterface(EthernetOf(ip), ip)

SetUp(list) ==
    LET Add(r, x) == add_route(r, x.prefix, x.length, x.next_hop, x.interface_num)
    IN  FoldLeft(Add, NewRouter([i \in DOMAIN PortIp |-> NewInterface(PortIp[i])]), list)

Init == /\ routes \in RouteLists
        /\ router = SetUp(routes)
        /\ host = [h \in Host |-> [interface |-> NewInterface(HostIp[h]),
                                   expecting_to_receive |-> <<>>]]
        /\ round = 0
        /\ thrown = "nothing"

\* Which host a datagram for dst must reach: the one that owns the next hop of
\* the route with the longest matching prefix, and of equal prefixes the first
\* that was added.  (Stated without the forwarding table.)
Agree(x, y, bits) == x \div 2^(Width - bits) = y \div 2^(Width - bits)
Recipients(dst) ==
    LET matching == {i \in DOMAIN routes : Agree(routes[i].prefix, dst, routes[i].length)}
        best     == CHOOSE i \in matching : \A j \in matching \ {i} :
                        \/ routes[i].length > routes[j].length
                        \/ routes[i].length = routes[j].length /\ i < j
        hop      == IF routes[best].next_hop = {} THEN {dst} ELSE routes[best].next_hop
    IN  IF matching = {} THEN {}
        ELSE {h \in ToSet(Wired[routes[best].interface_num]) : HostIp[h] \in hop}

\* Host::send_to, and the expectation the scenarios add to it: one datagram for
\* each simulate(), as in all of them.
SendTo(h, dst, ttl) ==
    LET dgram    == [src |-> HostIp[h], dst |-> dst, ttl |-> ttl]
        sent     == [host EXCEPT ![h].interface = send_datagram(@, dgram, HostHop[h])]
        expected == [dgram EXCEPT !.ttl = @ - 1]
    IN  /\ thrown = "nothing" /\ round = 0
        /\ round' = 1
        /\ host' = IF ttl <= 1 THEN sent
                   ELSE [x \in Host |-> IF x \in Recipients(dst)
                                        THEN [sent[x] EXCEPT !.expecting_to_receive = Append(@, expected)]
                                        ELSE sent[x]]
        /\ UNCHANGED <<router, thrown, routes>>

\* exchange_frames for one member of a link: it gets the frames all others had
\* when the exchange began, and drops its own from before.
Exchanged(n, others) ==
    LET received == FoldLeft(async_recv_frame, n, others)
    IN  [received EXCEPT !.frames_out = SubSeq(@, Len(n.frames_out) + 1, Len(@))]

PortOf(h) == CHOOSE i \in DOMAIN Wired : h \in ToSet(Wired[i])

OthersFrames(r, h) ==
    LET i      == PortOf(h)
        others == SelectSeq(Wired[i], LAMBDA x : x # h)
    IN  r.interfaces[i].frames_out
            \o FlattenSeq([k \in DOMAIN others |-> host[others[k]].interface.frames_out])

\* One round of simulate(): route, then simulate_physical_connections.  The
\* interfaces without a wire keep their frames.
Round ==
    LET r == route(router)
        FromHosts(i) == FlattenSeq([k \in DOMAIN Wired[i] |-> host[Wired[i][k]].interface.frames_out])
    IN  /\ thrown = "nothing" /\ round \in 1 .. Rounds
        /\ round' = round + 1
        /\ host' = [h \in Host |-> [host[h] EXCEPT !.interface = Exchanged(@, OthersFrames(r, h))]]
        /\ router' = [r EXCEPT !.interfaces =
                         [i \in DOMAIN @ |-> IF Wired[i] = <<>> THEN @[i]
                                             ELSE Exchanged(@[i], FromHosts(i))]]
        /\ UNCHANGED <<thrown, routes>>

\* Host::check: every datagram received must be expected, and takes one
\* expectation away; none may be left.
RemoveExpectation(x, dgram) ==
    [x EXCEPT !.expecting_to_receive = RemoveAt(@, CHOOSE i \in DOMAIN @ :
                  @[i] = dgram /\ \A j \in 1 .. i - 1 : @[j] # dgram)]

CheckOne(x, dgram) ==
    IF x.verdict # "nothing" THEN x
    ELSE IF dgram \notin ToSet(x.expecting_to_receive)
    THEN [x EXCEPT !.verdict = "unexpected"]
    ELSE RemoveExpectation(x, dgram)

check(h) ==
    LET start == [expecting_to_receive |-> host[h].expecting_to_receive, verdict |-> "nothing"]
        after == FoldLeft(CheckOne, start, host[h].interface.datagrams_out)
    IN  IF after.verdict = "nothing" /\ after.expecting_to_receive # <<>> THEN "missing"
        ELSE after.verdict

\* The end of simulate().  The hosts are checked in no particular order.
Check ==
    /\ thrown = "nothing" /\ round = Rounds + 1
    /\ round' = 0
    /\ thrown' \in LET failed == {check(h) : h \in Host} \ {"nothing"}
                   IN  IF failed = {} THEN {"nothing"} ELSE failed
    /\ host' = [h \in Host |-> [host[h] EXCEPT !.interface.datagrams_out = <<>>,
                                               !.expecting_to_receive = <<>>]]
    /\ UNCHANGED <<router, routes>>

Next == \/ \E h \in DOMAIN HostHop, dst \in Destinations, ttl \in Ttls : SendTo(h, dst, ttl)
        \/ Round
        \/ Check

Spec == Init /\ [][Next]_vars

-----------------------------------------------------------------------------

\* simulate() never ends with an exception: every datagram arrives, once, at
\* the host that the longest prefix and the next hop say, with its TTL one less,
\* and one whose TTL has run out arrives nowhere, whatever was sent before.
AllRouted == thrown = "nothing"

Interfaces == {router.interfaces[i] : i \in DOMAIN router.interfaces}
                  \cup {host[h].interface : h \in Host}

\* tests/net_interface.cc: "ARP reply should result in the queued datagram
\* getting sent": no datagram waits for a next hop whose address is known.  One
\* queue serves all hops, so that this does not hold: a datagram for an unknown
\* address at the front keeps those behind it waiting.
AnsweredMeansSent ==
    \A n \in Interfaces : \A i \in DOMAIN n.blocked_ip_datagram :
        ~Known(n, n.blocked_ip_datagram[i].next_hop)

=============================================================================
