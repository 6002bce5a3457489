--------------------------------- MODULE Lab7 ---------------------------------
(***************************************************************************)
(* The two programs of apps/lab7.cc.  Each has a host (the adapter of its  *)
(* TCP socket, in one thread) and a router (in another), joined by a pair  *)
(* of sockets; the routers reach each other over the Internet, which       *)
(* loses, repeats and reorders frames.  What TCP sends is taken as given:  *)
(* a number of segments at any time.  The clocks are independent: the      *)
(* router's ticks 50 ms after every event, however soon it came.           *)
(***************************************************************************)
EXTENDS Router

CONSTANTS Side,         \* the two programs
          HostIp,       \* address of each host: 192.168.0.50, 172.16.0.100
          GatewayIp,    \* address of each router on the host's side
          InternetIp,   \* address of each router on the Internet's side
          Prefix,       \* network of each host: [prefix, length]
          Backbone,     \* the network between the routers, 10.0.0.0/8
          MaxSend,      \* segments each TCP sends (bound),
          AllSend,      \* and both together (bound)
          MaxFault,     \* frames lost, damaged or repeated (bound)
          MaxTick       \* clock ticks, of both clocks of each side (bound)

ASSUME Lab7Assumption ==
    /\ \E s, t \in Side : s # t /\ Side = {s, t}
    \* Every interface has an address of its own.
    /\ \A s, t \in Side :
           /\ HostIp[s] \notin {GatewayIp[t], InternetIp[t]} /\ GatewayIp[s] # InternetIp[t]
           /\ s # t => /\ HostIp[s] # HostIp[t] /\ GatewayIp[s] # GatewayIp[t]
                       /\ InternetIp[s] # InternetIp[t]
    /\ \A net \in {Prefix[s] : s \in Side} \cup {Backbone} : net \in [prefix : Nat, length : Nat]
    /\ MaxSend \in [Side -> Nat] /\ AllSend \in Nat /\ MaxFault \in Nat /\ MaxTick \in [Side -> Nat]
    /\ ArpTime <= CacheTime

VARIABLES host,       \* the NetworkInterface of each adapter
          router,     \* the Router of each program
          to_router,  \* frames from host to router in the pair of sockets
          to_host,    \* and from router to host
          internet,   \* frames under way to each router
          sent,       \* how many segments each TCP has sent
          got,        \* how often each datagram came up to each TCP
          asked,      \* when each interface last asked for each address (history)
          faults, ticks

vars == <<host, router, to_router, to_host, internet, sent, got, asked, faults, ticks>>

Other(s) == CHOOSE t \in Side : t # s

HostSide == 1
InternetSide == 2

EthernetOf(ip) == <<"ethernet", ip>>

\* The router of each program, as program_body sets it up.
SetUp(s) ==
    LET o  == Other(s)
        r0 == NewRouter(<<NewNetworkInterface(EthernetOf(GatewayIp[s]), GatewayIp[s]),
                          NewNetworkInterface(EthernetOf(InternetIp[s]), InternetIp[s])>>)
        r1 == add_route(r0, Prefix[s].prefix, Prefix[s].length, {}, HostSide)
        r2 == add_route(r1, Backbone.prefix, Backbone.length, {}, InternetSide)
    IN  add_route(r2, Prefix[o].prefix, Prefix[o].length, {InternetIp[o]}, InternetSide)

Init == /\ host = [s \in Side |-> NewNetworkInterface(EthernetOf(HostIp[s]), HostIp[s])]
        /\ router = [s \in Side |-> SetUp(s)]
        /\ to_router = [s \in Side |-> <<>>]
        /\ to_host = [s \in Side |-> <<>>]
        /\ internet = [s \in Side |-> {}]
        /\ sent = [s \in Side |-> 0]
        /\ got = [s \in Side |-> [id \in 1 .. MaxSend[Other(s)] |-> 0]]
        /\ asked = <<>>
        /\ faults = 0
        /\ ticks = [s \in Side |-> 0]

\* The requests among the frames an interface has made since before.
NewRequests(before, after) ==
    {f.payload.target_ip_address : f \in
        {g \in ToSet(SubSeq(after.frames_out, Len(before.frames_out) + 1, Len(after.frames_out))) :
            g.type = "ARP" /\ g.payload.opcode = "REQUEST"}}

\* The history after n has asked for the addresses ips: by its clock when, and
\* whether that is too soon after the time before.
Ask(history, n, ips) ==
    LET keys == {<<n.ip_address, ip>> : ip \in ips}
    IN  [key \in DOMAIN history \cup keys |->
            IF key \notin keys THEN history[key]
            ELSE [at    |-> n.ms_since_running,
                  early |-> /\ key \in DOMAIN history
                            /\ n.ms_since_running <= history[key].at + ArpTime]]

\* The host's interface becomes n; send_pending passes on what it has queued.
HostSends(s, n) ==
    /\ host' = [host EXCEPT ![s] = [n EXCEPT !.frames_out = <<>>]]
    /\ to_router' = [to_router EXCEPT ![s] = @ \o n.frames_out]
    /\ asked' = Ask(asked, n, NewRequests(host[s], n))

\* NetworkInterfaceAdapter::write: TCP sends a segment.
HostWrite(s) ==
    LET dgram == [src |-> HostIp[s], dst |-> HostIp[Other(s)], ttl |-> 128, id |-> sent[s] + 1]
    IN  /\ sent[s] < MaxSend[s] /\ sent[s] + sent[Other(s)] < AllSend
        /\ sent' = [sent EXCEPT ![s] = @ + 1]
        /\ HostSends(s, send_datagram(host[s], dgram, GatewayIp[s]))
        /\ UNCHANGED <<router, to_host, internet, got, faults, ticks>>

\* NetworkInterfaceAdapter::read: a frame from the router, perhaps for TCP.
HostRead(s) ==
    LET frame == Head(to_host[s])
        up    == received_datagram(host[s], frame)
    IN  /\ to_host[s] # <<>>
        /\ to_host' = [to_host EXCEPT ![s] = Tail(@)]
        /\ HostSends(s, recv_frame(host[s], frame))
        /\ got' = IF up = <<>> THEN got ELSE [got EXCEPT ![s][up[1].id] = @ + 1]
        /\ UNCHANGED <<router, internet, sent, faults, ticks>>

\* NetworkInterfaceAdapter::tick.
HostTick(s) ==
    /\ ticks[s] < MaxTick[s] /\ ticks' = [ticks EXCEPT ![s] = @ + 1]
    /\ HostSends(s, interface_tick(host[s], 1))
    /\ UNCHANGED <<router, to_host, internet, sent, got, faults>>

\* Rules 1 and 4: a frame comes in and is routed at once.
RouterReceives(s, port, frame) ==
    LET r == route([router[s] EXCEPT !.interfaces[port] = async_recv_frame(@, frame)])
        AskOn(history, i) == Ask(history, r.interfaces[i],
                                 NewRequests(router[s].interfaces[i], r.interfaces[i]))
    IN  /\ router' = [router EXCEPT ![s] = r]
        /\ asked' = AskOn(AskOn(asked, HostSide), InternetSide)

FromHost(s) ==
    /\ to_router[s] # <<>>
    /\ to_router' = [to_router EXCEPT ![s] = Tail(@)]
    /\ RouterReceives(s, HostSide, Head(to_router[s]))
    /\ UNCHANGED <<host, to_host, internet, sent, got, faults, ticks>>

\* A frame may come twice, or damaged; a lost one changes as little as a damaged
\* one.
FromInternet(s, frame, fault) ==
    /\ internet' = IF fault = "again" THEN internet ELSE [internet EXCEPT ![s] = @ \ {frame}]
    /\ faults' = IF fault = "none" THEN faults ELSE faults + 1
    /\ faults' <= MaxFault
    /\ RouterReceives(s, InternetSide,
                      IF fault = "damaged" THEN [frame EXCEPT !.payload = Malformed] ELSE frame)
    /\ UNCHANGED <<host, to_router, to_host, sent, got, ticks>>

\* Rules 2 and 3: the front of an interface's queue leaves.
ToHost(s) ==
    LET queue == router[s].interfaces[HostSide].frames_out
    IN  /\ queue # <<>>
        /\ to_host' = [to_host EXCEPT ![s] = Append(@, Head(queue))]
        /\ router' = [router EXCEPT ![s].interfaces[HostSide].frames_out = Tail(@)]
        /\ UNCHANGED <<host, to_router, internet, sent, got, asked, faults, ticks>>

ToInternet(s) ==
    LET queue == router[s].interfaces[InternetSide].frames_out
    IN  /\ queue # <<>>
        /\ internet' = [internet EXCEPT ![Other(s)] = @ \cup {Head(queue)}]
        /\ router' = [router EXCEPT ![s].interfaces[InternetSide].frames_out = Tail(@)]
        /\ UNCHANGED <<host, to_router, to_host, sent, got, asked, faults, ticks>>

\* tick(50) after every event, on both interfaces.
RouterTick(s) ==
    /\ ticks[s] < MaxTick[s] /\ ticks' = [ticks EXCEPT ![s] = @ + 1]
    /\ router' = [router EXCEPT ![s].interfaces =
                     [i \in DOMAIN @ |-> interface_tick(@[i], 1)]]
    /\ UNCHANGED <<host, to_router, to_host, internet, sent, got, asked, faults>>

Next == \E s \in Side :
            \/ HostWrite(s) \/ HostRead(s) \/ HostTick(s)
            \/ FromHost(s) \/ ToHost(s) \/ ToInternet(s) \/ RouterTick(s)
            \/ \E frame \in internet[s], fault \in {"none", "again", "damaged"} :
                   FromInternet(s, frame, fault)

Spec == Init /\ [][Next]_vars

\* Weak fairness of the rules of both event loops, and the Internet delivers.
\* ENABLED is written out; the clocks and TCP need not go on.
Fairness ==
    \A s \in Side :
        /\ []<>(to_host[s] = <<>>) \/ []<><<HostRead(s)>>_vars
        /\ []<>(to_router[s] = <<>>) \/ []<><<FromHost(s)>>_vars
        /\ []<>(router[s].interfaces[HostSide].frames_out = <<>>) \/ []<><<ToHost(s)>>_vars
        /\ []<>(router[s].interfaces[InternetSide].frames_out = <<>>) \/ []<><<ToInternet(s)>>_vars
        /\ []<>(internet[s] = {})
               \/ []<><<\E frame \in internet[s] : FromInternet(s, frame, "none")>>_vars

FairSpec == Spec /\ Fairness

-----------------------------------------------------------------------------

Interfaces == {host[s] : s \in Side}
    \cup UNION {{router[s].interfaces[i] : i \in {HostSide, InternetSide}} : s \in Side}

\* A mapping in a cache is that of the interface which has the address: what is
\* learned from requests and replies, also old, late and repeated ones, never
\* sends a datagram to a stranger.
CacheTruthful ==
    \A n \in Interfaces : \A ip \in DOMAIN n.ip_ethernet_cache :
        n.ip_ethernet_cache[ip].ethernet = EthernetOf(ip)

\* No interface asks for the same address twice within ArpTime by its own
\* clock, through losses, answers that come late and mappings that expire.
ArpRateLimited == \A key \in DOMAIN asked : ~asked[key].early

\* A host that sends reaches the other although nobody knows any address yet:
\* three requests are answered in turn, and what waits for each answer goes on.
\* (Which datagram that is the Internet decides: one that is overtaken finds the
\* request pending and is dropped.  A lost frame may leave all waiting; TCP sends
\* again.)
FirstContact ==
    \A s \in Side : sent[s] > 0 ~> (faults > 0 \/ \E id \in DOMAIN got[Other(s)] : got[Other(s)][id] > 0)

=============================================================================
