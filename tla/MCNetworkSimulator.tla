-------------------------- MODULE MCNetworkSimulator --------------------------
(***************************************************************************)
(* The network of apps/network_simulator.cc with addresses of 5 bits: a    *)
(* default route, two networks attached directly (one with two hosts), two *)
(* prefixes behind hs_router that leave out the top of their range, and a  *)
(* route whose prefix has bits beyond its length to an interface that has  *)
(* no wire.                                                                *)
(***************************************************************************)
EXTENDS NetworkSimulator

MCHost == {"applesauce", "default_router", "hs_router", "dm42", "dm43"}
MCHostIp == [applesauce |-> 9, default_router |-> 1, hs_router |-> 25, dm42 |-> 17, dm43 |-> 18]
MCHostHop == [applesauce |-> 8, dm42 |-> 16, dm43 |-> 16]
MCPortIp == <<2, 8, 16, 24, 4>>
MCWired == << <<"default_router">>, <<"applesauce">>, <<"dm42", "dm43">>, <<"hs_router">>, <<>> >>

Direct(prefix, length, i) ==
    [prefix |-> prefix, length |-> length, next_hop |-> {}, interface_num |-> i]
Via(prefix, length, hop, i) ==
    [prefix |-> prefix, length |-> length, next_hop |-> {hop}, interface_num |-> i]

MCRoutes == <<Via(0, 0, 1, 1), Direct(8, 2, 2), Direct(16, 2, 3),
              Via(24, 3, 25, 4), Via(28, 4, 25, 4), Via(7, 3, 6, 5)>>

\* The same with a host route, and with two prefixes added a second time, with
\* another next hop.
MCRoutesTwice == <<Direct(16, 2, 3), Via(28, 4, 25, 4), Direct(8, 2, 2), Via(0, 0, 1, 1),
                   Via(18, 5, 17, 3), Via(16, 2, 1, 1), Via(28, 4, 1, 1)>>

MCRouteLists == {MCRoutes, MCRoutesTwice}

\* Every host, an address beyond each router, one that only the default route
\* matches, one behind the interface without a wire.
MCDestinations == {9, 17, 18, 3, 27, 29, 31, 5}

\* Also an address of an attached network that no host has.
MCWithDeadAddress == {9, 17, 18, 19}

=============================================================================
