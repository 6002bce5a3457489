----------------------------- MODULE Lab7Proofs -----------------------------
(***************************************************************************)
(* What network interfaces learn and how often they ask, in the two        *)
(* programs of lab7, for every choice of addresses, timeouts and routes,   *)
(* any number of segments and ticks, and however often the Internet loses, *)
(* damages and repeats frames.                                             *)
(***************************************************************************)
EXTENDS Lab7, SequenceTheorems, WellFoundedInduction, TLAPS

\* A non-empty set of natural numbers has a least element.
LEMMA LeastNumber ==
    ASSUME NEW T \in SUBSET Nat, T # {}
    PROVE  \E x \in T : \A y \in T : x <= y
<1>1. \E x \in T : \A y \in T : ~(<<y, x>> \in OpToRel(<, Nat))
  BY WFMin, NatLessThanWellFounded, Zenon
<1>2. \A x, y \in T : ~(<<y, x>> \in OpToRel(<, Nat)) => x <= y
  BY DEF OpToRel
<1> QED BY <1>1, <1>2

\* A function on 1 .. n is a sequence.
LEMMA SeqOfFunction ==
    ASSUME NEW S, NEW n \in Nat, NEW f \in [1 .. n -> S]
    PROVE  f \in Seq(S) /\ Len(f) = n
BY SMTT(30)

\* A sequence of two queues is emptied into one.
LEMMA FlattenTwo ==
    ASSUME NEW S, NEW seqs \in Seq(Seq(S)), Len(seqs) = 2
    PROVE  FlattenSeq(seqs) = seqs[1] \o seqs[2]
<1> DEFINE F(f) == [i \in 1 .. Len(seqs) |-> IF i = 1 THEN seqs[i] ELSE f[i - 1] \o seqs[i]]
           flat == CHOOSE f : f = F(f)
           g == [i \in 1 .. Len(seqs) |-> IF i = 1 THEN seqs[1] ELSE seqs[1] \o seqs[2]]
<1>1. g = F(g)
  OBVIOUS
<1>2. flat = F(flat)
  <2> HIDE DEF F, g
  <2> QED BY <1>1
<1>3. flat[1] = seqs[1] /\ flat[2] = flat[1] \o seqs[2]
  <2>1. \A i \in 1 .. Len(seqs) : F(flat)[i] = IF i = 1 THEN seqs[i] ELSE flat[i - 1] \o seqs[i]
    BY Zenon
  <2> HIDE DEF flat, F
  <2>2. \A i \in 1 .. 2 : flat[i] = IF i = 1 THEN seqs[i] ELSE flat[i - 1] \o seqs[i]
    BY <1>2, <2>1
  <2> QED BY <2>2
<1>4. FlattenSeq(seqs) = flat[2]
  BY DEF FlattenSeq
<1> QED BY <1>3, <1>4

\* Nothing is routed, or one datagram.
LEMMA RouteNone ==
    ASSUME NEW r, NEW s, s = <<>>
    PROVE  FoldLeft(route_one_datagram, r, s) = r
<1> DEFINE F(f) == [x \in SUBSET (DOMAIN s) |->
                      IF x = {} THEN r ELSE route_one_datagram(f[x \ {Max(x)}], s[Max(x)])]
           it == CHOOSE f : f = F(f)
           g == [x \in SUBSET (DOMAIN s) |-> r]
<1>1. DOMAIN s = {}
  OBVIOUS
<1>2. g = F(g)
  BY <1>1
<1>3. it = F(it)
  <2> HIDE DEF F, g
  <2> QED BY <1>2
<1>4. it[DOMAIN s] = r
  <2> HIDE DEF it
  <2> QED BY <1>1, <1>3
<1>5. FoldLeft(route_one_datagram, r, s) = it[DOMAIN s]
  BY DEF FoldLeft, MapThenFoldSet
<1> QED BY <1>4, <1>5

LEMMA RouteOne ==
    ASSUME NEW r, NEW d, NEW s, s = <<d>>
    PROVE  FoldLeft(route_one_datagram, r, s) = route_one_datagram(r, d)
<1> DEFINE F(f) == [x \in SUBSET (DOMAIN s) |->
                      IF x = {} THEN r ELSE route_one_datagram(f[x \ {Max(x)}], s[Max(x)])]
           it == CHOOSE f : f = F(f)
           g == [x \in SUBSET (DOMAIN s) |-> IF x = {} THEN r ELSE route_one_datagram(r, d)]
<1>1. DOMAIN s = {1} /\ s[1] = d
  OBVIOUS
<1>2. Max({1}) = 1
  BY DEF Max
<1>3. \A x \in SUBSET (DOMAIN s) : x = {} \/ x = {1}
  BY <1>1
<1>4. g = F(g)
  <2>1. \A x \in SUBSET (DOMAIN s) : x \ {Max(x)} \in SUBSET (DOMAIN s)
    OBVIOUS
  <2>2. {1} \ {1} = {}
    OBVIOUS
  <2>3. \A x \in SUBSET (DOMAIN s) : x # {} => x = {1} /\ g[x \ {Max(x)}] = r /\ s[Max(x)] = d
    BY <1>1, <1>2, <1>3, <2>1, <2>2
  <2>4. \A x \in SUBSET (DOMAIN s) : g[x] = F(g)[x]
    <3> SUFFICES ASSUME NEW x \in SUBSET (DOMAIN s) PROVE g[x] = F(g)[x]
      OBVIOUS
    <3>1. g[x] = IF x = {} THEN r ELSE route_one_datagram(r, d)
      BY Zenon
    <3>2. F(g)[x] = IF x = {} THEN r ELSE route_one_datagram(g[x \ {Max(x)}], s[Max(x)])
      BY Zenon
    <3> HIDE DEF F, g
    <3> QED BY <2>3, <3>1, <3>2, Zenon
  <2> QED BY <2>4
<1>5. it = F(it)
  <2> HIDE DEF F, g
  <2> QED BY <1>4
<1>6. \A x \in SUBSET (DOMAIN s) :
         it[x] = IF x = {} THEN r ELSE route_one_datagram(it[x \ {Max(x)}], s[Max(x)])
  <2>1. \A x \in SUBSET (DOMAIN s) :
           F(it)[x] = IF x = {} THEN r ELSE route_one_datagram(it[x \ {Max(x)}], s[Max(x)])
    BY Zenon
  <2> HIDE DEF it, F
  <2> QED BY <1>5, <2>1
<1>7. it[{1}] = route_one_datagram(r, d)
  <2> HIDE DEF it
  <2>1. it[{}] = r
    BY <1>6
  <2>2. it[{1}] = route_one_datagram(it[{1} \ {Max({1})}], s[Max({1})])
    BY <1>1, <1>6, {1} # {}, Zenon
  <2>3. {1} \ {1} = {}
    OBVIOUS
  <2> QED BY <1>1, <1>2, <2>1, <2>2, <2>3, Zenon
<1>8. FoldLeft(route_one_datagram, r, s) = it[DOMAIN s]
  BY DEF FoldLeft, MapThenFoldSet
<1> QED BY <1>1, <1>7, <1>8, Zenon

-----------------------------------------------------------------------------
\* What is sent and stored

\* The addresses of the six interfaces.
Ip == UNION {{HostIp[s], GatewayIp[s], InternetIp[s]} : s \in Side}

Ethernet == {EthernetOf(ip) : ip \in Ip} \cup {Broadcast, NoEthernet}

Datagram == [src : Ip, dst : Ip, ttl : Nat, id : Nat]

\* An ARP message that tells the truth about its sender.
Message == {m \in [opcode : {"REQUEST", "REPLY"},
                   sender_ethernet_address : Ethernet, sender_ip_address : Ip,
                   target_ethernet_address : Ethernet, target_ip_address : Ip] :
               m.sender_ethernet_address = EthernetOf(m.sender_ip_address)}

Frame == [type : {"ARP"}, src : Ethernet, dst : Ethernet, payload : Message]
    \cup [type : {"IPv4"}, src : Ethernet, dst : Ethernet, payload : Datagram]

Waiting == [next_hop : Ip, dgram : Datagram]

\* The members of an interface with address ip between two calls.  What it has
\* learned is true.
Sane(n, ip) ==
    /\ DOMAIN n = {"ethernet_address", "ip_address", "frames_out", "datagrams_out",
                   "ip_ethernet_cache", "arp_expire_time", "blocked_ip_datagram",
                   "ms_since_running"}
    /\ n.ip_address = ip /\ n.ethernet_address = EthernetOf(ip)
    /\ n.frames_out \in Seq(Frame) /\ n.datagrams_out \in Seq(Datagram)
    /\ n.blocked_ip_datagram \in Seq(Waiting)
    /\ n.ms_since_running \in Nat
    /\ \A x \in DOMAIN n.ip_ethernet_cache : /\ n.ip_ethernet_cache[x].ethernet = EthernetOf(x)
                                             /\ n.ip_ethernet_cache[x].expire \in Nat
    /\ \A x \in DOMAIN n.arp_expire_time : n.arp_expire_time[x] \in Nat

\* Until time t the interface does not ask for x: it knows it, or has asked.
Covers(n, x, t) ==
    \/ x \in DOMAIN n.ip_ethernet_cache /\ n.ip_ethernet_cache[x].expire >= t
    \/ x \in DOMAIN n.arp_expire_time /\ n.arp_expire_time[x] >= t

IsRequest(frame) == frame.type = "ARP" /\ frame.payload.opcode = "REQUEST"

\* The frame number i of m is a request for x.
Requests(m, i, x) == IsRequest(m.frames_out[i]) /\ m.frames_out[i].payload.target_ip_address = x

\* A call makes m of the interface n: frames are added at the end; what is not to
\* be asked for yet stays so; and a request is for an address not covered before
\* and covered for ArpTime from now on.
Makes(n, m, ip) ==
    /\ Sane(m, ip)
    /\ m.ms_since_running = n.ms_since_running
    /\ Len(n.frames_out) <= Len(m.frames_out)
    /\ \A i \in 1 .. Len(n.frames_out) : m.frames_out[i] = n.frames_out[i]
    /\ \A x \in Ip, t \in Nat :
           t <= n.ms_since_running + ArpTime /\ Covers(n, x, t) => Covers(m, x, t)
    /\ \A x \in Ip, i \in Len(n.frames_out) + 1 .. Len(m.frames_out) : Requests(m, i, x) =>
           /\ ~Covers(n, x, n.ms_since_running)
           /\ Covers(m, x, n.ms_since_running + ArpTime)

\* Addresses of interfaces are addresses.
LEMMA Addresses ==
    /\ ArpTime \in Nat /\ CacheTime \in Nat /\ ArpTime <= CacheTime
    /\ \A s \in Side : HostIp[s] \in Ip /\ GatewayIp[s] \in Ip /\ InternetIp[s] \in Ip
    /\ \A x \in Ip : EthernetOf(x) \in Ethernet
    /\ Broadcast \in Ethernet /\ NoEthernet \in Ethernet
BY InterfaceAssumption, Lab7Assumption DEF Ip, Ethernet

\* A call that changes nothing.
LEMMA MakesSelf ==
    ASSUME NEW ip \in Ip, NEW n, Sane(n, ip)
    PROVE  Makes(n, n, ip)
<1>1. Len(n.frames_out) \in Nat
  BY DEF Sane
<1> QED BY <1>1 DEF Makes

\* One call after another.
LEMMA MakesBoth ==
    ASSUME NEW ip \in Ip, NEW n, Sane(n, ip), NEW m, Makes(n, m, ip), NEW k, Makes(m, k, ip)
    PROVE  Makes(n, k, ip)
<1> DEFINE ms == n.ms_since_running
<1>1. /\ Len(n.frames_out) \in Nat /\ Len(m.frames_out) \in Nat /\ Len(k.frames_out) \in Nat
      /\ ms \in Nat /\ m.ms_since_running = ms /\ k.ms_since_running = ms
      /\ Len(n.frames_out) <= Len(m.frames_out) /\ Len(m.frames_out) <= Len(k.frames_out)
      /\ ArpTime \in Nat
  BY Addresses DEF Sane, Makes
<1>2. Sane(k, ip)
  BY DEF Makes
<1>3. \A i \in 1 .. Len(n.frames_out) : k.frames_out[i] = n.frames_out[i]
  BY <1>1 DEF Makes
<1>4. \A x \in Ip, t \in Nat : t <= ms + ArpTime /\ Covers(n, x, t) => Covers(m, x, t)
  BY <1>1 DEF Makes
<1>5. \A x \in Ip, t \in Nat : t <= ms + ArpTime /\ Covers(m, x, t) => Covers(k, x, t)
  BY <1>1 DEF Makes
<1>6. ASSUME NEW x \in Ip, NEW i \in Len(n.frames_out) + 1 .. Len(k.frames_out), Requests(k, i, x)
      PROVE  ~Covers(n, x, ms) /\ Covers(k, x, ms + ArpTime)
  <2>1. CASE i <= Len(m.frames_out)
    <3>1. i \in Len(n.frames_out) + 1 .. Len(m.frames_out) /\ i \in 1 .. Len(m.frames_out)
      BY <1>1, <2>1
    <3>2. Requests(m, i, x)
      BY <1>6, <3>1 DEF Requests, Makes
    <3>3. ~Covers(n, x, ms) /\ Covers(m, x, ms + ArpTime)
      BY <1>1, <3>1, <3>2 DEF Makes
    <3> QED BY <1>1, <1>5, <3>3
  <2>2. CASE i > Len(m.frames_out)
    <3>1. i \in Len(m.frames_out) + 1 .. Len(k.frames_out)
      BY <1>1, <2>2
    <3>2. ~Covers(m, x, ms) /\ Covers(k, x, ms + ArpTime)
      BY <1>1, <1>6, <3>1 DEF Makes
    <3> QED BY <1>1, <1>4, <3>2
  <2> QED BY <1>1, <2>1, <2>2
<1> QED BY <1>1, <1>2, <1>3, <1>4, <1>5, <1>6 DEF Makes

\* A call that sends no request and leaves what is known and asked for alone.
LEMMA MakesQuietly ==
    ASSUME NEW ip \in Ip, NEW n, Sane(n, ip), NEW new \in Seq(Frame),
           \A i \in 1 .. Len(new) : ~IsRequest(new[i]),
           NEW m, DOMAIN m = DOMAIN n,
           m.ip_address = n.ip_address, m.ethernet_address = n.ethernet_address,
           m.frames_out = n.frames_out \o new,
           m.datagrams_out \in Seq(Datagram), m.blocked_ip_datagram \in Seq(Waiting),
           m.ms_since_running = n.ms_since_running,
           m.ip_ethernet_cache = n.ip_ethernet_cache, m.arp_expire_time = n.arp_expire_time
    PROVE  Makes(n, m, ip)
<1>1. /\ n.frames_out \in Seq(Frame) /\ Len(n.frames_out) \in Nat /\ Len(new) \in Nat
      /\ m.frames_out \in Seq(Frame)
      /\ Len(m.frames_out) = Len(n.frames_out) + Len(new)
      /\ \A i \in 1 .. Len(n.frames_out) + Len(new) :
             m.frames_out[i] = IF i <= Len(n.frames_out) THEN n.frames_out[i]
                               ELSE new[i - Len(n.frames_out)]
  <2>1. n.frames_out \in Seq(Frame)
    BY DEF Sane
  <2> QED BY <2>1, ConcatProperties, LenProperties
<1>2. Sane(m, ip)
  BY <1>1 DEF Sane
<1>3. \A i \in 1 .. Len(n.frames_out) : m.frames_out[i] = n.frames_out[i]
  BY <1>1
<1>4. \A x, t : Covers(m, x, t) <=> Covers(n, x, t)
  BY DEF Covers
<1>5. \A i \in Len(n.frames_out) + 1 .. Len(m.frames_out) : ~IsRequest(m.frames_out[i])
  <2> SUFFICES ASSUME NEW i \in Len(n.frames_out) + 1 .. Len(m.frames_out)
               PROVE  ~IsRequest(m.frames_out[i])
    OBVIOUS
  <2>1. m.frames_out[i] = new[i - Len(n.frames_out)] /\ i - Len(n.frames_out) \in 1 .. Len(new)
    BY <1>1
  <2> QED BY <2>1
<1> QED BY <1>1, <1>2, <1>3, <1>4, <1>5 DEF Makes, Requests

\* A frame that is no request is queued.
LEMMA PushFrameMakes ==
    ASSUME NEW ip \in Ip, NEW n, Sane(n, ip), NEW type, NEW dst, NEW payload,
           [type |-> type, src |-> n.ethernet_address, dst |-> dst, payload |-> payload] \in Frame,
           type = "IPv4" \/ payload.opcode = "REPLY"
    PROVE  Makes(n, PushFrame(n, type, dst, payload), ip)
<1> DEFINE f == [type |-> type, src |-> n.ethernet_address, dst |-> dst, payload |-> payload]
           m == PushFrame(n, type, dst, payload)
<1>1. <<f>> \in Seq(Frame) /\ Len(<<f>>) = 1 /\ <<f>>[1] = f
  OBVIOUS
<1>2. ~IsRequest(f)
  BY DEF IsRequest
<1>3. n.frames_out \in Seq(Frame) /\ n.datagrams_out \in Seq(Datagram) /\ n.blocked_ip_datagram \in Seq(Waiting)
  BY DEF Sane
<1>4. Append(n.frames_out, f) = n.frames_out \o <<f>>
  BY <1>3, AppendIsConcat
<1>5. /\ DOMAIN m = DOMAIN n
      /\ m.ip_address = n.ip_address /\ m.ethernet_address = n.ethernet_address
      /\ m.frames_out = Append(n.frames_out, f)
      /\ m.datagrams_out = n.datagrams_out /\ m.blocked_ip_datagram = n.blocked_ip_datagram
      /\ m.ms_since_running = n.ms_since_running
      /\ m.ip_ethernet_cache = n.ip_ethernet_cache /\ m.arp_expire_time = n.arp_expire_time
  BY DEF PushFrame, Sane
<1>6. \A i \in 1 .. Len(<<f>>) : ~IsRequest(<<f>>[i])
  BY <1>1, <1>2
<1> HIDE DEF f, m
<1>7. Makes(n, m, ip)
  BY <1>1, <1>3, <1>4, <1>5, <1>6, MakesQuietly
<1> QED BY <1>7 DEF m

\* A reply tells the truth.
LEMMA ReplyMakes ==
    ASSUME NEW ip \in Ip, NEW n, Sane(n, ip), NEW x \in Ip
    PROVE  Makes(n, send_arp_message(n, x, EthernetOf(x), "REPLY"), ip)
<1> DEFINE a == [opcode |-> "REPLY",
                 sender_ethernet_address |-> n.ethernet_address,
                 sender_ip_address       |-> n.ip_address,
                 target_ethernet_address |-> EthernetOf(x),
                 target_ip_address       |-> x]
<1>1. n.ethernet_address = EthernetOf(ip) /\ n.ip_address = ip
  BY DEF Sane
<1>2. EthernetOf(x) \in Ethernet /\ EthernetOf(ip) \in Ethernet
  BY Addresses
<1>3. a \in Message /\ a.opcode = "REPLY"
  BY <1>1, <1>2 DEF Message
<1>4. send_arp_message(n, x, EthernetOf(x), "REPLY") = PushFrame(n, "ARP", EthernetOf(x), a)
  BY DEF send_arp_message
<1> HIDE DEF a
<1>5. [type |-> "ARP", src |-> n.ethernet_address, dst |-> EthernetOf(x), payload |-> a] \in Frame
  BY <1>1, <1>2, <1>3 DEF Frame
<1>6. Makes(n, PushFrame(n, "ARP", EthernetOf(x), a), ip)
  BY <1>3, <1>5, PushFrameMakes
<1> QED BY <1>4, <1>6

\* What is learned covers the address for longer than the request did.
LEMMA LearnMakes ==
    ASSUME NEW ip \in Ip, NEW n, Sane(n, ip), NEW x \in Ip
    PROVE  Makes(n, update_ip_ethernet_cache(n, x, EthernetOf(x)), ip)
<1> DEFINE m == update_ip_ethernet_cache(n, x, EthernetOf(x))
           cache == n.ip_ethernet_cache
           arp == n.arp_expire_time
<1>1. /\ DOMAIN m = DOMAIN n
      /\ m.ip_address = n.ip_address /\ m.ethernet_address = n.ethernet_address
      /\ m.frames_out = n.frames_out
      /\ m.datagrams_out = n.datagrams_out /\ m.blocked_ip_datagram = n.blocked_ip_datagram
      /\ m.ms_since_running = n.ms_since_running
      /\ m.ip_ethernet_cache = Put(cache, x, [ethernet |-> EthernetOf(x),
                                              expire |-> n.ms_since_running + CacheTime])
      /\ m.arp_expire_time = Erase(arp, x)
  BY DEF update_ip_ethernet_cache, Sane
<1>2. /\ n.ms_since_running \in Nat /\ n.ms_since_running + CacheTime \in Nat
      /\ ArpTime \in Nat /\ CacheTime \in Nat /\ ArpTime <= CacheTime
      /\ Len(n.frames_out) \in Nat
  BY Addresses DEF Sane
<1>3. /\ DOMAIN m.ip_ethernet_cache = DOMAIN cache \cup {x}
      /\ m.ip_ethernet_cache[x].ethernet = EthernetOf(x)
      /\ m.ip_ethernet_cache[x].expire = n.ms_since_running + CacheTime
      /\ \A y \in DOMAIN cache : y # x => m.ip_ethernet_cache[y] = cache[y]
      /\ DOMAIN m.arp_expire_time = DOMAIN arp \ {x}
      /\ \A y \in DOMAIN arp : y # x => m.arp_expire_time[y] = arp[y]
  BY <1>1 DEF Put, Erase, Restrict
<1> HIDE DEF m
<1>4. Sane(m, ip)
  <2>1. \A y \in DOMAIN m.ip_ethernet_cache : /\ m.ip_ethernet_cache[y].ethernet = EthernetOf(y)
                                              /\ m.ip_ethernet_cache[y].expire \in Nat
    BY <1>2, <1>3 DEF Sane
  <2>2. \A y \in DOMAIN m.arp_expire_time : m.arp_expire_time[y] \in Nat
    BY <1>3 DEF Sane
  <2> QED BY <1>1, <2>1, <2>2 DEF Sane
<1>5. ASSUME NEW y \in Ip, NEW t \in Nat, t <= n.ms_since_running + ArpTime, Covers(n, y, t)
      PROVE  Covers(m, y, t)
  <2>1. CASE y = x
    BY <1>2, <1>3, <1>5, <2>1 DEF Covers
  <2>2. CASE y # x
    BY <1>3, <1>5, <2>2 DEF Covers
  <2> QED BY <2>1, <2>2
<1>6. Makes(n, m, ip)
  BY <1>1, <1>2, <1>4, <1>5 DEF Makes
<1> QED BY <1>6 DEF m

\* The loop over the waiting datagrams stops somewhere.
LEMMA UnblockedRange ==
    ASSUME NEW ip \in Ip, NEW n, Sane(n, ip)
    PROVE  /\ Unblocked(n) \in 0 .. Len(n.blocked_ip_datagram)
           /\ \A i \in 1 .. Unblocked(n) : Known(n, n.blocked_ip_datagram[i].next_hop)
<1> DEFINE q == n.blocked_ip_datagram
           P(k) == /\ \A i \in 1 .. k : Known(n, q[i].next_hop)
                   /\ k < Len(q) => ~Known(n, q[k + 1].next_hop)
           T == {j \in 1 .. Len(q) : ~Known(n, q[j].next_hop)}
<1>1. Len(q) \in Nat
  BY DEF Sane
<1>2. \E k \in 0 .. Len(q) : P(k)
  <2>1. CASE T = {}
    <3>1. \A i \in 1 .. Len(q) : Known(n, q[i].next_hop)
      BY <2>1
    <3>2. P(Len(q)) /\ Len(q) \in 0 .. Len(q)
      BY <1>1, <3>1
    <3> QED BY <3>2
  <2>2. CASE T # {}
    <3>1. T \in SUBSET Nat
      BY <1>1
    <3>2. PICK j \in T : \A y \in T : j <= y
      <4> HIDE DEF T
      <4> QED BY <2>2, <3>1, LeastNumber
    <3>3. j \in 1 .. Len(q) /\ ~Known(n, q[j].next_hop)
      BY <3>2
    <3>4. \A i \in 1 .. j - 1 : Known(n, q[i].next_hop)
      <4> SUFFICES ASSUME NEW i \in 1 .. j - 1, ~Known(n, q[i].next_hop) PROVE FALSE
        OBVIOUS
      <4>1. i \in T
        BY <1>1, <3>3
      <4> QED BY <1>1, <3>2, <3>3, <4>1
    <3>5. j - 1 \in 0 .. Len(q) /\ (j - 1) + 1 = j
      BY <1>1, <3>3
    <3>6. P(j - 1)
      BY <3>3, <3>4, <3>5
    <3> QED BY <3>5, <3>6
  <2> QED BY <2>1, <2>2
<1>3. Unblocked(n) = CHOOSE k \in 0 .. Len(q) : P(k)
  BY DEF Unblocked
<1>4. Unblocked(n) \in 0 .. Len(q) /\ P(Unblocked(n))
  <2> HIDE DEF P
  <2> QED BY <1>2, <1>3
<1> QED BY <1>4

\* What waited for an answer goes out.
LEMMA SendUnblockedMakes ==
    ASSUME NEW ip \in Ip, NEW n, Sane(n, ip)
    PROVE  Makes(n, SendUnblocked(n), ip)
<1> DEFINE k == Unblocked(n)
           q == n.blocked_ip_datagram
           new == [i \in 1 .. k |-> [type |-> "IPv4", src |-> n.ethernet_address, payload |-> q[i].dgram,
                                     dst |-> n.ip_ethernet_cache[q[i].next_hop].ethernet]]
           m == SendUnblocked(n)
<1>1. /\ q \in Seq(Waiting) /\ Len(q) \in Nat /\ k \in 0 .. Len(q) /\ k \in Nat
      /\ \A i \in 1 .. k : Known(n, q[i].next_hop)
  BY UnblockedRange DEF Sane
<1>2. /\ DOMAIN m = DOMAIN n
      /\ m.ip_address = n.ip_address /\ m.ethernet_address = n.ethernet_address
      /\ m.frames_out = n.frames_out \o new
      /\ m.datagrams_out = n.datagrams_out /\ m.blocked_ip_datagram = SubSeq(q, k + 1, Len(q))
      /\ m.ms_since_running = n.ms_since_running
      /\ m.ip_ethernet_cache = n.ip_ethernet_cache /\ m.arp_expire_time = n.arp_expire_time
  BY DEF SendUnblocked, Sane
<1>3. ASSUME NEW i \in 1 .. k
      PROVE  new[i] \in Frame /\ ~IsRequest(new[i])
  <2>1. i \in 1 .. Len(q)
    BY <1>1
  <2>2. q[i] \in Waiting
    BY <1>1, <2>1, ElementOfSeq
  <2>3. q[i].next_hop \in Ip /\ q[i].dgram \in Datagram
    BY <2>2 DEF Waiting
  <2>4. n.ip_ethernet_cache[q[i].next_hop].ethernet = EthernetOf(q[i].next_hop)
    BY <1>1 DEF Known, Sane
  <2>5. n.ethernet_address \in Ethernet /\ EthernetOf(q[i].next_hop) \in Ethernet
    BY <2>3, Addresses DEF Sane
  <2> HIDE DEF q, k
  <2>6. new[i] = [type |-> "IPv4", src |-> n.ethernet_address, payload |-> q[i].dgram,
                  dst |-> n.ip_ethernet_cache[q[i].next_hop].ethernet]
    BY Zenon
  <2> QED BY <2>3, <2>4, <2>5, <2>6 DEF Frame, IsRequest
<1>4. new \in Seq(Frame) /\ Len(new) = k
  <2>1. \A i \in 1 .. k : new[i] \in Frame
    BY <1>3
  <2>2. DOMAIN new = 1 .. k
    BY Zenon
  <2>3. new \in [1 .. k -> Frame]
    BY <1>3
  <2> HIDE DEF new, k
  <2> QED BY <1>1, <2>3
<1>5. SubSeq(q, k + 1, Len(q)) \in Seq(Waiting)
  BY <1>1, SubSeqProperties, ElementOfSeq
<1>6. n.datagrams_out \in Seq(Datagram)
  BY DEF Sane
<1>7. \A i \in 1 .. Len(new) : ~IsRequest(new[i])
  BY <1>3, <1>4
<1> HIDE DEF new, m, k, q
<1>8. Makes(n, m, ip)
  BY <1>2, <1>4, <1>5, <1>6, <1>7, MakesQuietly
<1> QED BY <1>8 DEF m

\* Any ARP message that tells the truth.
LEMMA ReceiveArpMakes ==
    ASSUME NEW ip \in Ip, NEW n, Sane(n, ip), NEW arp \in Message
    PROVE  Makes(n, ReceiveArp(n, arp), ip)
<1> DEFINE x == arp.sender_ip_address
           learned == update_ip_ethernet_cache(n, x, EthernetOf(x))
<1>1. /\ x \in Ip /\ arp.sender_ethernet_address = EthernetOf(x)
      /\ arp.opcode \in {"REQUEST", "REPLY"}
  BY DEF Message
<1>2. Makes(n, learned, ip)
  BY <1>1, LearnMakes
<1>3. Sane(learned, ip)
  BY <1>2 DEF Makes
<1>4. Makes(learned, SendUnblocked(learned), ip)
  BY <1>3, SendUnblockedMakes
<1>5. Makes(learned, send_arp_message(learned, x, EthernetOf(x), "REPLY"), ip)
  BY <1>1, <1>3, ReplyMakes
<1>6. ReceiveArp(n, arp) \in {learned, SendUnblocked(learned),
                              send_arp_message(learned, x, EthernetOf(x), "REPLY")}
  <2> HIDE DEF x
  <2>1. x = arp.sender_ip_address
    BY DEF x
  <2> QED BY <1>1, <2>1 DEF ReceiveArp
<1> HIDE DEF learned, x
<1>7. Makes(n, SendUnblocked(learned), ip)
  BY <1>2, <1>4, MakesBoth
<1>8. Makes(n, send_arp_message(learned, x, EthernetOf(x), "REPLY"), ip)
  BY <1>2, <1>5, MakesBoth
<1> QED BY <1>2, <1>6, <1>7, <1>8, Zenon

\* Any frame, also a damaged one.
LEMMA RecvFrameMakes ==
    ASSUME NEW ip \in Ip, NEW n, Sane(n, ip), NEW frame, frame \in Frame \/ frame.payload = Malformed
    PROVE  /\ Makes(n, recv_frame(n, frame), ip)
           /\ recv_frame(n, frame).datagrams_out = n.datagrams_out
           /\ \/ received_datagram(n, frame) = <<>>
              \/ \E d \in Datagram : received_datagram(n, frame) = <<d>>
<1>1. CASE Addressed(n, frame) /\ frame.type = "ARP" /\ frame.payload # Malformed
  <2>1. frame.payload \in Message
    BY <1>1 DEF Frame
  <2>2. recv_frame(n, frame) = ReceiveArp(n, frame.payload) /\ received_datagram(n, frame) = <<>>
    BY <1>1 DEF recv_frame, received_datagram
  <2>3. ReceiveArp(n, frame.payload).datagrams_out = n.datagrams_out
    <3>1. frame.payload.opcode \in {"REQUEST", "REPLY"}
      BY <2>1 DEF Message
    <3> HIDE DEF Message
    <3> QED BY <3>1 DEF ReceiveArp, update_ip_ethernet_cache, SendUnblocked, send_arp_message, PushFrame, Sane
  <2> QED BY <2>1, <2>2, <2>3, ReceiveArpMakes
<1>2. CASE ~(Addressed(n, frame) /\ frame.type = "ARP" /\ frame.payload # Malformed)
  <2>1. recv_frame(n, frame) = n
    BY <1>2 DEF recv_frame
  <2>2. \/ received_datagram(n, frame) = <<>>
        \/ frame.payload \in Datagram /\ received_datagram(n, frame) = <<frame.payload>>
    BY DEF received_datagram, Frame
  <2> QED BY <2>1, <2>2, MakesSelf
<1> QED BY <1>1, <1>2

\* A datagram is sent, dropped, or waits; only the last asks, for an address that
\* is neither known nor asked for.
LEMMA SendDatagramMakes ==
    ASSUME NEW ip \in Ip, NEW n, Sane(n, ip), NEW d \in Datagram, NEW hop \in Ip
    PROVE  Makes(n, send_datagram(n, d, hop), ip) /\ send_datagram(n, d, hop).datagrams_out = n.datagrams_out
<1> DEFINE m == send_datagram(n, d, hop)
           ms == n.ms_since_running
<1>1. /\ ms \in Nat /\ ArpTime \in Nat
      /\ n.frames_out \in Seq(Frame) /\ n.blocked_ip_datagram \in Seq(Waiting)
      /\ n.ethernet_address = EthernetOf(ip) /\ n.ip_address = ip
      /\ EthernetOf(ip) \in Ethernet /\ EthernetOf(hop) \in Ethernet
      /\ Broadcast \in Ethernet /\ NoEthernet \in Ethernet
  BY Addresses DEF Sane
<1>2. CASE Known(n, hop)
  <2>1. m = PushFrame(n, "IPv4", n.ip_ethernet_cache[hop].ethernet, d)
    BY <1>2 DEF send_datagram, send_ip_dgram
  <2>2. n.ip_ethernet_cache[hop].ethernet = EthernetOf(hop)
    BY <1>2 DEF Known, Sane
  <2>3. [type |-> "IPv4", src |-> n.ethernet_address, dst |-> EthernetOf(hop), payload |-> d] \in Frame
    BY <1>1 DEF Frame
  <2>4. Makes(n, PushFrame(n, "IPv4", EthernetOf(hop), d), ip)
    BY <2>3, PushFrameMakes
  <2>5. PushFrame(n, "IPv4", EthernetOf(hop), d).datagrams_out = n.datagrams_out
    BY DEF PushFrame, Sane
  <2> QED BY <2>1, <2>2, <2>4, <2>5
<1>3. CASE ~Known(n, hop) /\ RequestPending(n, hop)
  <2>1. m = n
    BY <1>3 DEF send_datagram
  <2> QED BY <2>1, MakesSelf
<1>4. CASE ~Known(n, hop) /\ ~RequestPending(n, hop)
  <2> DEFINE a == [opcode |-> "REQUEST", sender_ethernet_address |-> n.ethernet_address,
                   sender_ip_address |-> n.ip_address, target_ethernet_address |-> NoEthernet,
                   target_ip_address |-> hop]
             f == [type |-> "ARP", src |-> n.ethernet_address, dst |-> Broadcast, payload |-> a]
             w == [next_hop |-> hop, dgram |-> d]
  <2>1. a \in Message /\ f \in Frame /\ w \in Waiting
    <3>1. a \in Message
      BY <1>1 DEF Message
    <3> HIDE DEF a
    <3>2. f \in Frame
      BY <1>1, <3>1 DEF Frame
    <3> QED BY <3>1, <3>2 DEF Waiting
  <2>2. IsRequest(f) /\ f.payload.target_ip_address = hop
    BY DEF IsRequest
  <2>3. /\ DOMAIN m = DOMAIN n
        /\ m.ip_address = n.ip_address /\ m.ethernet_address = n.ethernet_address
        /\ m.frames_out = Append(n.frames_out, f)
        /\ m.datagrams_out = n.datagrams_out
        /\ m.blocked_ip_datagram = Append(n.blocked_ip_datagram, w)
        /\ m.ms_since_running = ms
        /\ m.ip_ethernet_cache = n.ip_ethernet_cache
        /\ m.arp_expire_time = Put(n.arp_expire_time, hop, ms + ArpTime)
    BY <1>4 DEF send_datagram, send_arp_message, PushFrame, Sane
  <2>4. /\ DOMAIN m.arp_expire_time = DOMAIN n.arp_expire_time \cup {hop}
        /\ m.arp_expire_time[hop] = ms + ArpTime
        /\ \A x \in DOMAIN n.arp_expire_time : x # hop => m.arp_expire_time[x] = n.arp_expire_time[x]
    BY <2>3 DEF Put
  <2> HIDE DEF a, f, w, m
  <2>5. /\ m.frames_out \in Seq(Frame) /\ Len(n.frames_out) \in Nat
        /\ Len(m.frames_out) = Len(n.frames_out) + 1
        /\ \A i \in 1 .. Len(n.frames_out) : m.frames_out[i] = n.frames_out[i]
        /\ m.frames_out[Len(n.frames_out) + 1] = f
        /\ m.blocked_ip_datagram \in Seq(Waiting)
    BY <1>1, <2>1, <2>3, AppendProperties, LenProperties
  <2>6. Sane(m, ip)
    <3>1. \A x \in DOMAIN m.arp_expire_time : m.arp_expire_time[x] \in Nat
      BY <1>1, <2>4 DEF Sane
    <3> QED BY <1>1, <2>3, <2>5, <3>1 DEF Sane
  <2>7. ASSUME NEW x \in Ip, NEW t \in Nat, t <= ms + ArpTime, Covers(n, x, t)
        PROVE  Covers(m, x, t)
    BY <1>1, <2>3, <2>4, <2>7 DEF Covers
  <2>8. ~Covers(n, hop, ms) /\ Covers(m, hop, ms + ArpTime)
    BY <1>1, <1>4, <2>3, <2>4 DEF Covers, Known, RequestPending
  <2>9. ASSUME NEW x \in Ip, NEW i \in Len(n.frames_out) + 1 .. Len(m.frames_out), Requests(m, i, x)
        PROVE  x = hop
    <3>1. i = Len(n.frames_out) + 1
      BY <2>5
    <3> QED BY <2>2, <2>5, <2>9, <3>1 DEF Requests
  <2>10. Makes(n, m, ip)
    BY <2>3, <2>5, <2>6, <2>7, <2>8, <2>9 DEF Makes
  <2> QED BY <2>3, <2>10 DEF m
<1> QED BY <1>2, <1>3, <1>4

-----------------------------------------------------------------------------
\* The history of requests

\* By the history h no request of the interface n, which has address ip, came too
\* early, and none will for as long as n covers the addresses it has asked for.
Timely(h, n, ip) ==
    \A x \in Ip : <<ip, x>> \in DOMAIN h =>
        /\ h[<<ip, x>>].at \in Nat /\ h[<<ip, x>>].at <= n.ms_since_running
        /\ h[<<ip, x>>].early = FALSE
        /\ n.ms_since_running <= h[<<ip, x>>].at + ArpTime => Covers(n, x, h[<<ip, x>>].at + ArpTime)

\* The new requests are those among the frames at the end.
LEMMA NewRequestsAre ==
    ASSUME NEW ip \in Ip, NEW n, Sane(n, ip), NEW m, Makes(n, m, ip), NEW x \in NewRequests(n, m)
    PROVE  x \in Ip /\ \E i \in Len(n.frames_out) + 1 .. Len(m.frames_out) : Requests(m, i, x)
<1> DEFINE a == Len(n.frames_out) + 1
           b == Len(m.frames_out)
           new == SubSeq(m.frames_out, a, b)
<1>1. a \in Int /\ b \in Int /\ a >= 1 /\ m.frames_out \in Seq(Frame) /\ b = Len(m.frames_out) /\ a - 1 <= b
  BY DEF Sane, Makes
<1>2. \A i \in a .. b : m.frames_out[i] \in Frame
  BY <1>1, ElementOfSeq
<1>3. PICK f \in ToSet(new) : IsRequest(f) /\ x = f.payload.target_ip_address
  BY DEF NewRequests, IsRequest
<1> HIDE DEF a, b
<1>4. /\ new \in Seq(Frame) /\ Len(new) = IF a <= b THEN b - a + 1 ELSE 0
      /\ \A i \in 1 .. b - a + 1 : new[i] = m.frames_out[a + i - 1]
  BY <1>1, <1>2, SubSeqProperties
<1> HIDE DEF new
<1>5. PICK j \in 1 .. Len(new) : f = new[j]
  BY <1>3, <1>4 DEF ToSet
<1>6. a + j - 1 \in a .. b /\ f = m.frames_out[a + j - 1]
  BY <1>1, <1>4, <1>5
<1>7. x \in Ip
  <2>1. f \in Frame
    BY <1>2, <1>6
  <2>2. f.payload \in Message
    BY <1>3, <2>1 DEF Frame, IsRequest
  <2> QED BY <1>3, <2>2 DEF Message
<1> QED BY <1>3, <1>6, <1>7 DEF Requests, a, b

\* A call of the interface with address ip, and what the history says of it and
\* of another interface k.
LEMMA AskTimely ==
    ASSUME NEW ip \in Ip, NEW n, Sane(n, ip), NEW m, Makes(n, m, ip),
           NEW h, DOMAIN h \subseteq Ip \X Ip, Timely(h, n, ip)
    PROVE  LET g == Ask(h, m, NewRequests(n, m))
           IN  /\ DOMAIN g \subseteq Ip \X Ip
               /\ Timely(g, m, ip)
               /\ \A k, other : other # ip /\ Timely(h, k, other) => Timely(g, k, other)
<1> DEFINE ips == NewRequests(n, m)
           g == Ask(h, m, ips)
           keys == {<<ip, x>> : x \in ips}
           ms == n.ms_since_running
<1>1. /\ m.ip_address = ip /\ m.ms_since_running = ms /\ ms \in Nat /\ ArpTime \in Nat
      /\ Len(n.frames_out) \in Nat /\ Len(m.frames_out) \in Nat
  BY Addresses DEF Sane, Makes
<1>2. \A x \in ips : x \in Ip /\ ~Covers(n, x, ms) /\ Covers(m, x, ms + ArpTime)
  <2> SUFFICES ASSUME NEW x \in ips
               PROVE  x \in Ip /\ ~Covers(n, x, ms) /\ Covers(m, x, ms + ArpTime)
    OBVIOUS
  <2>1. x \in Ip /\ \E i \in Len(n.frames_out) + 1 .. Len(m.frames_out) : Requests(m, i, x)
    BY NewRequestsAre
  <2> QED BY <2>1 DEF Makes
<1>3. /\ DOMAIN g = DOMAIN h \cup keys
      /\ \A key \in DOMAIN h : key \notin keys => g[key] = h[key]
      /\ \A key \in keys : /\ g[key].at = ms
                           /\ g[key].early = (key \in DOMAIN h /\ ms <= h[key].at + ArpTime)
  BY <1>1 DEF Ask
<1> HIDE DEF ips, g
<1>4. DOMAIN g \subseteq Ip \X Ip
  BY <1>2, <1>3
<1>5. ASSUME NEW x \in Ip, <<ip, x>> \in DOMAIN g
      PROVE  /\ g[<<ip, x>>].at \in Nat /\ g[<<ip, x>>].at <= ms /\ g[<<ip, x>>].early = FALSE
             /\ ms <= g[<<ip, x>>].at + ArpTime => Covers(m, x, g[<<ip, x>>].at + ArpTime)
  <2>1. CASE x \in ips
    <3>1. <<ip, x>> \in keys
      BY <2>1
    <3>2. ~(<<ip, x>> \in DOMAIN h /\ ms <= h[<<ip, x>>].at + ArpTime)
      <4> SUFFICES ASSUME <<ip, x>> \in DOMAIN h, ms <= h[<<ip, x>>].at + ArpTime PROVE FALSE
        OBVIOUS
      <4>1. h[<<ip, x>>].at \in Nat /\ Covers(n, x, h[<<ip, x>>].at + ArpTime)
        BY DEF Timely
      <4>2. Covers(n, x, ms)
        BY <1>1, <4>1 DEF Covers, Sane
      <4> QED BY <1>2, <2>1, <4>2
    <3>3. g[<<ip, x>>].at = ms /\ g[<<ip, x>>].early = FALSE
      BY <1>3, <3>1, <3>2, Zenon
    <3> QED BY <1>1, <1>2, <2>1, <3>3
  <2>2. CASE x \notin ips
    <3>1. <<ip, x>> \notin keys
      BY <2>2
    <3>2. <<ip, x>> \in DOMAIN h /\ g[<<ip, x>>] = h[<<ip, x>>]
      BY <1>3, <1>5, <3>1, Zenon
    <3>3. /\ h[<<ip, x>>].at \in Nat /\ h[<<ip, x>>].at <= ms /\ h[<<ip, x>>].early = FALSE
          /\ ms <= h[<<ip, x>>].at + ArpTime => Covers(n, x, h[<<ip, x>>].at + ArpTime)
      BY <3>2 DEF Timely
    <3>4. ms <= h[<<ip, x>>].at + ArpTime => Covers(m, x, h[<<ip, x>>].at + ArpTime)
      BY <1>1, <3>3 DEF Makes
    <3> QED BY <3>2, <3>3, <3>4, Zenon
  <2> QED BY <2>1, <2>2
<1>6. Timely(g, m, ip)
  BY <1>1, <1>5 DEF Timely
<1>7. ASSUME NEW k, NEW other, other # ip, Timely(h, k, other)
      PROVE  Timely(g, k, other)
  <2> SUFFICES ASSUME NEW x \in Ip, <<other, x>> \in DOMAIN g
               PROVE  <<other, x>> \in DOMAIN h /\ g[<<other, x>>] = h[<<other, x>>]
    BY <1>7 DEF Timely
  <2>1. <<other, x>> \notin keys
    BY <1>7
  <2> QED BY <1>3, <2>1, Zenon
<1> QED BY <1>4, <1>6, <1>7 DEF g, ips

\* Queues do not matter to the history.
LEMMA TimelyStill ==
    ASSUME NEW ip \in Ip, NEW h, NEW n, Timely(h, n, ip), NEW k,
           k.ms_since_running = n.ms_since_running,
           k.ip_ethernet_cache = n.ip_ethernet_cache, k.arp_expire_time = n.arp_expire_time
    PROVE  Timely(h, k, ip)
<1>1. \A x, t : Covers(k, x, t) <=> Covers(n, x, t)
  BY DEF Covers
<1> QED BY <1>1 DEF Timely

\* A mapping that expires was good for longer than the request that led to it.
LEMMA TickSane ==
    ASSUME NEW ip \in Ip, NEW n, Sane(n, ip)
    PROVE  LET m == interface_tick(n, 1)
           IN  /\ Sane(m, ip) /\ m.frames_out = n.frames_out /\ m.datagrams_out = n.datagrams_out
               /\ \A h : Timely(h, n, ip) => Timely(h, m, ip)
<1> DEFINE m == interface_tick(n, 1)
           now == n.ms_since_running + 1
           kept == {x \in DOMAIN n.ip_ethernet_cache : n.ip_ethernet_cache[x].expire >= now}
<1>1. n.ms_since_running \in Nat /\ now \in Nat /\ ArpTime \in Nat
  BY Addresses DEF Sane
<1>2. /\ DOMAIN m = DOMAIN n
      /\ m.ip_address = n.ip_address /\ m.ethernet_address = n.ethernet_address
      /\ m.frames_out = n.frames_out /\ m.datagrams_out = n.datagrams_out
      /\ m.blocked_ip_datagram = n.blocked_ip_datagram
      /\ m.ms_since_running = now
      /\ m.ip_ethernet_cache = Restrict(n.ip_ethernet_cache, kept)
      /\ m.arp_expire_time = n.arp_expire_time
  BY DEF interface_tick, Sane
<1>3. /\ DOMAIN m.ip_ethernet_cache = kept
      /\ \A x \in kept : m.ip_ethernet_cache[x] = n.ip_ethernet_cache[x]
  BY <1>2 DEF Restrict
<1> HIDE DEF m
<1>4. Sane(m, ip)
  <2>1. \A x \in DOMAIN m.ip_ethernet_cache : /\ m.ip_ethernet_cache[x].ethernet = EthernetOf(x)
                                              /\ m.ip_ethernet_cache[x].expire \in Nat
    BY <1>3 DEF Sane
  <2> QED BY <1>1, <1>2, <2>1 DEF Sane
<1>5. \A x, t : t \in Nat /\ t >= now /\ Covers(n, x, t) => Covers(m, x, t)
  <2> SUFFICES ASSUME NEW x, NEW t \in Nat, t >= now, Covers(n, x, t) PROVE Covers(m, x, t)
    OBVIOUS
  <2>1. CASE x \in DOMAIN n.ip_ethernet_cache /\ n.ip_ethernet_cache[x].expire >= t
    <3>1. n.ip_ethernet_cache[x].expire \in Nat
      BY <2>1 DEF Sane
    <3>2. x \in kept
      BY <1>1, <2>1, <3>1
    <3> QED BY <1>3, <2>1, <3>2 DEF Covers
  <2>2. CASE x \in DOMAIN n.arp_expire_time /\ n.arp_expire_time[x] >= t
    BY <1>2, <2>2 DEF Covers
  <2> QED BY <2>1, <2>2 DEF Covers
<1>6. ASSUME NEW h, Timely(h, n, ip)
      PROVE  Timely(h, m, ip)
  <2> SUFFICES ASSUME NEW x \in Ip, <<ip, x>> \in DOMAIN h
               PROVE  /\ h[<<ip, x>>].at \in Nat /\ h[<<ip, x>>].at <= now
                      /\ h[<<ip, x>>].early = FALSE
                      /\ now <= h[<<ip, x>>].at + ArpTime => Covers(m, x, h[<<ip, x>>].at + ArpTime)
    BY <1>2 DEF Timely
  <2>1. /\ h[<<ip, x>>].at \in Nat /\ h[<<ip, x>>].at <= n.ms_since_running
        /\ h[<<ip, x>>].early = FALSE
        /\ n.ms_since_running <= h[<<ip, x>>].at + ArpTime => Covers(n, x, h[<<ip, x>>].at + ArpTime)
    BY <1>6 DEF Timely
  <2>2. h[<<ip, x>>].at + ArpTime \in Nat
    BY <1>1, <2>1
  <2> QED BY <1>1, <1>5, <2>1, <2>2
<1> QED BY <1>2, <1>4, <1>6 DEF m

-----------------------------------------------------------------------------
\* A router

PortIp(s, i) == IF i = HostSide THEN GatewayIp[s] ELSE InternetIp[s]

\* Routes lead to interfaces the router has, and of several one is the first.
Table(T) ==
    /\ \A t \in T : t.interface_num \in {HostSide, InternetSide} /\ t.next_hop \subseteq Ip
    /\ \A M \in SUBSET T : M # {} => \E x \in M : \A y \in M \ {x} : ModCmp(x, y)

\* The router of s, perhaps with datagrams to route.
RouterSane(r, s) ==
    /\ DOMAIN r = {"interfaces", "forwarding_table"}
    /\ DOMAIN r.interfaces = 1 .. 2
    /\ \A i \in 1 .. 2 : Sane(r.interfaces[i], PortIp(s, i))
    /\ Table(r.forwarding_table)

\* Between two rounds there are none.
Routed(r) == \A i \in 1 .. 2 : r.interfaces[i].datagrams_out = <<>>

RouterMakes(r, q, s) ==
    RouterSane(q, s) /\ \A i \in 1 .. 2 : Makes(r.interfaces[i], q.interfaces[i], PortIp(s, i))

LEMMA PortType == ASSUME NEW s \in Side, NEW i \in 1 .. 2 PROVE PortIp(s, i) \in Ip
BY Addresses DEF PortIp

\* One thing after another.
LEMMA RouterMakesBoth ==
    ASSUME NEW s \in Side, NEW r, RouterSane(r, s), NEW q, RouterMakes(r, q, s),
           NEW u, RouterMakes(q, u, s)
    PROVE  RouterMakes(r, u, s)
<1> SUFFICES ASSUME NEW i \in 1 .. 2 PROVE Makes(r.interfaces[i], u.interfaces[i], PortIp(s, i))
  BY DEF RouterMakes
<1>1. PortIp(s, i) \in Ip
  BY PortType
<1>2. /\ Sane(r.interfaces[i], PortIp(s, i)) /\ Makes(r.interfaces[i], q.interfaces[i], PortIp(s, i))
      /\ Makes(q.interfaces[i], u.interfaces[i], PortIp(s, i))
  BY DEF RouterSane, RouterMakes
<1> QED BY <1>1, <1>2, MakesBoth

\* A datagram is dropped or handed to one of the interfaces.
LEMMA RouteOneMakes ==
    ASSUME NEW s \in Side, NEW r, RouterSane(r, s), Routed(r), NEW d \in Datagram
    PROVE  RouterMakes(r, route_one_datagram(r, d), s) /\ Routed(route_one_datagram(r, d))
<1> DEFINE matching == {x \in r.forwarding_table : match_function(d.dst, x)}
           first    == CHOOSE x \in matching : \A y \in matching \ {x} : ModCmp(x, y)
           onward   == [d EXCEPT !.ttl = @ - 1]
           hop      == IF first.next_hop = {} THEN d.dst ELSE CHOOSE h \in first.next_hop : TRUE
           p        == first.interface_num
           q        == [r EXCEPT !.interfaces[p] = send_datagram(@, onward, hop)]
<1>1. RouterMakes(r, r, s)
  BY PortType, MakesSelf DEF RouterMakes, RouterSane
<1>2. CASE d.ttl <= 1 \/ matching = {}
  <2>1. route_one_datagram(r, d) = r
    BY <1>2 DEF route_one_datagram
  <2> QED BY <1>1, <2>1
<1>3. CASE ~(d.ttl <= 1 \/ matching = {})
  <2>1. route_one_datagram(r, d) = q
    BY <1>3 DEF route_one_datagram
  <2>2. first \in matching
    <3>1. matching \in SUBSET r.forwarding_table /\ matching # {}
      BY <1>3
    <3> HIDE DEF matching
    <3>2. \E x \in matching : \A y \in matching \ {x} : ModCmp(x, y)
      BY <3>1 DEF RouterSane, Table
    <3> QED BY <3>2
  <2>3. p \in {1, 2} /\ first.next_hop \subseteq Ip
    BY <2>2 DEF RouterSane, Table, HostSide, InternetSide
  <2> HIDE DEF first
  <2>4. hop \in Ip
    <3>1. d.dst \in Ip
      BY DEF Datagram
    <3>2. first.next_hop # {} => (CHOOSE h \in first.next_hop : TRUE) \in first.next_hop
      OBVIOUS
    <3> QED BY <2>3, <3>1, <3>2
  <2>5. onward \in Datagram
    BY <1>3 DEF Datagram
  <2> HIDE DEF hop, onward, p
  <2> DEFINE n == r.interfaces[p]
             m == send_datagram(n, onward, hop)
  <2>6. Makes(n, m, PortIp(s, p)) /\ m.datagrams_out = n.datagrams_out
    BY <2>3, <2>4, <2>5, PortType, SendDatagramMakes DEF RouterSane
  <2>7. Sane(m, PortIp(s, p))
    BY <2>6 DEF Makes
  <2>8. /\ DOMAIN q = DOMAIN r /\ q.forwarding_table = r.forwarding_table
        /\ DOMAIN q.interfaces = DOMAIN r.interfaces
        /\ \A i \in 1 .. 2 : q.interfaces[i] = IF i = p THEN m ELSE r.interfaces[i]
    BY <2>3 DEF RouterSane
  <2> HIDE DEF q, m
  <2>9. RouterSane(q, s)
    BY <2>7, <2>8 DEF RouterSane
  <2>10. \A i \in 1 .. 2 : Makes(r.interfaces[i], q.interfaces[i], PortIp(s, i))
    BY <1>1, <2>6, <2>8 DEF RouterMakes
  <2>11. Routed(q)
    BY <2>3, <2>6, <2>8 DEF Routed
  <2> QED BY <2>1, <2>9, <2>10, <2>11 DEF RouterMakes
<1> QED BY <1>2, <1>3

\* A frame comes in at a port, and route() follows.
LEMMA ReceivesMakes ==
    ASSUME NEW s \in Side, NEW r, RouterSane(r, s), Routed(r), NEW port \in 1 .. 2,
           NEW frame, frame \in Frame \/ frame.payload = Malformed
    PROVE  LET q == route([r EXCEPT !.interfaces[port] = async_recv_frame(@, frame)])
           IN  RouterMakes(r, q, s) /\ Routed(q)
<1> DEFINE n == r.interfaces[port]
           k == recv_frame(n, frame)
           up == received_datagram(n, frame)
           m == async_recv_frame(n, frame)
           r1 == [r EXCEPT !.interfaces[port] = async_recv_frame(@, frame)]
           Emptied(interfaces) == [i \in DOMAIN interfaces |->
                                      [interfaces[i] EXCEPT !.datagrams_out = <<>>]]
           r2 == [r1 EXCEPT !.interfaces = Emptied(@)]
           seqs == [i \in DOMAIN r1.interfaces |-> r1.interfaces[i].datagrams_out]
<1>0. PortIp(s, port) \in Ip /\ Sane(n, PortIp(s, port)) /\ n.datagrams_out = <<>>
  BY PortType DEF RouterSane, Routed
<1>1. /\ Makes(n, k, PortIp(s, port)) /\ k.datagrams_out = <<>>
      /\ up = <<>> \/ \E d \in Datagram : up = <<d>>
  <2> HIDE DEF n
  <2> QED BY <1>0, RecvFrameMakes
<1>2. /\ DOMAIN m = DOMAIN k
      /\ m.ip_address = k.ip_address /\ m.ethernet_address = k.ethernet_address
      /\ m.frames_out = k.frames_out
      /\ m.datagrams_out = k.datagrams_out \o up
      /\ m.blocked_ip_datagram = k.blocked_ip_datagram
      /\ m.ms_since_running = k.ms_since_running
      /\ m.ip_ethernet_cache = k.ip_ethernet_cache /\ m.arp_expire_time = k.arp_expire_time
  <2> HIDE DEF k, n
  <2>1. m = [k EXCEPT !.datagrams_out = @ \o up]
    BY DEF async_recv_frame, k
  <2>2. DOMAIN k = {"ethernet_address", "ip_address", "frames_out", "datagrams_out",
                   "ip_ethernet_cache", "arp_expire_time", "blocked_ip_datagram",
                   "ms_since_running"}
    BY <1>1 DEF Makes, Sane
  <2> HIDE DEF m, up
  <2> QED BY <2>1, <2>2
<1>3. m.datagrams_out = up /\ up \in Seq(Datagram)
  <2>0. \A d \in Datagram : <<d>> \in Seq(Datagram)
    OBVIOUS
  <2>1. up \in Seq(Datagram)
    <3> HIDE DEF up
    <3>1. <<>> \in Seq(Datagram)
      OBVIOUS
    <3>2. up = <<>> \/ \E d \in Datagram : up = <<d>>
      BY <1>1, Zenon
    <3> QED BY <2>0, <3>1, <3>2, Zenon
  <2>2. <<>> \o up = up
    BY <2>1, ConcatEmptySeq
  <2> HIDE DEF m, up, k
  <2> QED BY <1>1, <1>2, <2>1, <2>2
<1>4. /\ DOMAIN r1 = DOMAIN r /\ r1.forwarding_table = r.forwarding_table
      /\ DOMAIN r1.interfaces = 1 .. 2
      /\ \A i \in 1 .. 2 : r1.interfaces[i] = IF i = port THEN m ELSE r.interfaces[i]
  <2>1. DOMAIN r = {"interfaces", "forwarding_table"} /\ DOMAIN r.interfaces = 1 .. 2
    BY DEF RouterSane
  <2> HIDE DEF m
  <2>2. m = async_recv_frame(r.interfaces[port], frame)
    BY DEF m
  <2> QED BY <2>1, <2>2
<1> HIDE DEF m, k, up, r1, n
<1>5. /\ DOMAIN r2 = DOMAIN r /\ r2.forwarding_table = r.forwarding_table
      /\ DOMAIN r2.interfaces = 1 .. 2
      /\ \A i \in 1 .. 2 : r2.interfaces[i] = [r1.interfaces[i] EXCEPT !.datagrams_out = <<>>]
  BY <1>4 DEF RouterSane
<1> HIDE DEF r2
<1>6. ASSUME NEW i \in 1 .. 2
      PROVE  /\ Makes(r.interfaces[i], r2.interfaces[i], PortIp(s, i))
             /\ r2.interfaces[i].datagrams_out = <<>>
  <2> DEFINE j == r1.interfaces[i]
             e == r2.interfaces[i]
  <2>0. PortIp(s, i) \in Ip
    BY PortType
  <2>1. PICK b : /\ Sane(b, PortIp(s, i)) /\ Makes(r.interfaces[i], b, PortIp(s, i))
                 /\ DOMAIN j = DOMAIN b
                 /\ j.ip_address = b.ip_address /\ j.ethernet_address = b.ethernet_address
                 /\ j.frames_out = b.frames_out
                 /\ j.blocked_ip_datagram = b.blocked_ip_datagram
                 /\ j.ms_since_running = b.ms_since_running
                 /\ j.ip_ethernet_cache = b.ip_ethernet_cache /\ j.arp_expire_time = b.arp_expire_time
    <3>1. CASE i = port
      <4>1. Sane(k, PortIp(s, i)) /\ Makes(r.interfaces[i], k, PortIp(s, i)) /\ j = m
        BY <1>1, <1>4, <3>1 DEF Makes, n
      <4> QED BY <1>2, <4>1
    <3>2. CASE i # port
      <4>1. Sane(r.interfaces[i], PortIp(s, i)) /\ j = r.interfaces[i]
        BY <1>4, <3>2 DEF RouterSane
      <4>2. Makes(r.interfaces[i], r.interfaces[i], PortIp(s, i))
        BY <2>0, <4>1, MakesSelf
      <4> QED BY <4>1, <4>2
    <3> QED BY <3>1, <3>2
  <2>2. e = [j EXCEPT !.datagrams_out = <<>>]
    BY <1>5
  <2>3. DOMAIN j = {"ethernet_address", "ip_address", "frames_out", "datagrams_out",
                   "ip_ethernet_cache", "arp_expire_time", "blocked_ip_datagram",
                   "ms_since_running"}
    BY <2>1 DEF Sane
  <2> HIDE DEF e, j
  <2>4. /\ DOMAIN e = DOMAIN b
        /\ e.ip_address = b.ip_address /\ e.ethernet_address = b.ethernet_address
        /\ e.frames_out = b.frames_out /\ e.datagrams_out = <<>>
        /\ e.blocked_ip_datagram = b.blocked_ip_datagram
        /\ e.ms_since_running = b.ms_since_running
        /\ e.ip_ethernet_cache = b.ip_ethernet_cache /\ e.arp_expire_time = b.arp_expire_time
    BY <2>1, <2>2, <2>3
  <2>5. /\ b.frames_out \in Seq(Frame) /\ b.blocked_ip_datagram \in Seq(Waiting)
        /\ <<>> \in Seq(Frame) /\ <<>> \in Seq(Datagram) /\ Len(<<>>) = 0
    BY <2>1 DEF Sane
  <2>6. b.frames_out \o <<>> = b.frames_out
    BY <2>5, ConcatEmptySeq
  <2>7. Makes(b, e, PortIp(s, i))
    <3>1. \A x \in 1 .. Len(<<>>) : ~IsRequest(<<>>[x])
      BY <2>5
    <3> QED BY <2>0, <2>1, <2>4, <2>5, <2>6, <3>1, MakesQuietly
  <2>8. Sane(r.interfaces[i], PortIp(s, i))
    BY DEF RouterSane
  <2> QED BY <2>0, <2>1, <2>4, <2>7, <2>8, MakesBoth DEF e
<1>7. RouterMakes(r, r2, s) /\ Routed(r2)
  <2>1. \A i \in 1 .. 2 : Sane(r2.interfaces[i], PortIp(s, i))
    BY <1>6 DEF Makes
  <2> QED BY <1>5, <1>6, <2>1 DEF RouterMakes, RouterSane, Routed
<1>8. FlattenSeq(seqs) = up
  <2>0. \A i \in 1 .. 2 : r1.interfaces[i].datagrams_out = IF i = port THEN up ELSE <<>>
    BY <1>3, <1>4 DEF Routed
  <2>1. seqs = [i \in 1 .. 2 |-> IF i = port THEN up ELSE <<>>]
    BY <1>4, <2>0
  <2> HIDE DEF seqs
  <2>2. seqs[1] = (IF 1 = port THEN up ELSE <<>>) /\ seqs[2] = (IF 2 = port THEN up ELSE <<>>)
    BY <2>1
  <2>3. seqs \in [1 .. 2 -> Seq(Datagram)]
    BY <1>3, <2>1
  <2>4. seqs \in Seq(Seq(Datagram)) /\ Len(seqs) = 2
    BY <2>3, 2 \in Nat, SeqOfFunction, Zenon
  <2>5. FlattenSeq(seqs) = seqs[1] \o seqs[2]
    BY <2>4, FlattenTwo, Zenon
  <2>6. up \o <<>> = up /\ <<>> \o up = up
    BY <1>3, ConcatEmptySeq
  <2>7. CASE port = 1
    BY <2>2, <2>5, <2>6, <2>7
  <2>8. CASE port = 2
    BY <2>2, <2>5, <2>6, <2>8
  <2> QED BY <2>7, <2>8
<1>9. route(r1) = FoldLeft(route_one_datagram, r2, FlattenSeq(seqs))
  BY DEF route, r2
<1>10. route(r1) = FoldLeft(route_one_datagram, r2, up)
  BY <1>8, <1>9
<1>11. RouterMakes(r, route(r1), s) /\ Routed(route(r1))
  <2>1. CASE up = <<>>
    BY <1>7, <1>10, <2>1, RouteNone
  <2>2. ASSUME NEW d \in Datagram, up = <<d>>
        PROVE  RouterMakes(r, route(r1), s) /\ Routed(route(r1))
    <3>1. route(r1) = route_one_datagram(r2, d)
      BY <1>10, <2>2, RouteOne
    <3>2. RouterSane(r2, s)
      BY <1>7 DEF RouterMakes
    <3>3. RouterMakes(r2, route_one_datagram(r2, d), s) /\ Routed(route_one_datagram(r2, d))
      BY <1>7, <3>2, RouteOneMakes
    <3> QED BY <1>7, <3>1, <3>3, RouterMakesBoth
  <2> QED BY <1>1, <2>1, <2>2
<1> QED BY <1>11 DEF r1

-----------------------------------------------------------------------------
\* The two programs

Hosts == DOMAIN host = Side /\ \A s \in Side : Sane(host[s], HostIp[s]) /\ host[s].frames_out = <<>>

Routers == DOMAIN router = Side /\ \A s \in Side : RouterSane(router[s], s) /\ Routed(router[s])

\* Everything under way tells the truth.
UnderWay ==
    /\ to_router \in [Side -> Seq(Frame)] /\ to_host \in [Side -> Seq(Frame)]
    /\ internet \in [Side -> SUBSET Frame] /\ sent \in [Side -> Nat]

Asked ==
    /\ DOMAIN asked \subseteq Ip \X Ip
    /\ \A s \in Side : /\ Timely(asked, host[s], HostIp[s])
                       /\ \A i \in 1 .. 2 : Timely(asked, router[s].interfaces[i], PortIp(s, i))

Inv == Hosts /\ Routers /\ UnderWay /\ Asked

LEMMA TwoSides == ASSUME NEW s \in Side PROVE Other(s) \in Side
<1>1. \E t \in Side : t # s
  BY Lab7Assumption
<1> QED BY <1>1 DEF Other

\* No two interfaces have the same address.
LEMMA Distinct ==
    ASSUME NEW s \in Side, NEW t \in Side, NEW i \in 1 .. 2, NEW j \in 1 .. 2
    PROVE  /\ HostIp[s] # PortIp(t, i)
           /\ s # t => HostIp[s] # HostIp[t]
           /\ s # t \/ i # j => PortIp(s, i) # PortIp(t, j)
BY Lab7Assumption DEF PortIp, HostSide

\* A call of a host's interface, perhaps after a tick (b), and send_pending after it.
LEMMA HostStep ==
    ASSUME Inv, NEW s \in Side,
           NEW b, Sane(b, HostIp[s]), Timely(asked, b, HostIp[s]), b.frames_out = host[s].frames_out,
           NEW n, Makes(b, n, HostIp[s]), HostSends(s, n), UNCHANGED router
    PROVE  Hosts' /\ Routers' /\ Asked' /\ to_router' \in [Side -> Seq(Frame)]
<1> DEFINE k == [n EXCEPT !.frames_out = <<>>]
<1>0. HostIp[s] \in Ip /\ DOMAIN host = Side /\ DOMAIN asked \subseteq Ip \X Ip
  BY Addresses DEF Inv, Hosts, Asked
<1>1. Sane(n, HostIp[s])
  BY DEF Makes
<1>2. /\ host' = [host EXCEPT ![s] = k]
      /\ to_router' = [to_router EXCEPT ![s] = @ \o n.frames_out]
      /\ asked' = Ask(asked, n, NewRequests(b, n))
  BY DEF HostSends, NewRequests
<1>3. /\ DOMAIN k = DOMAIN n
      /\ k.ip_address = n.ip_address /\ k.ethernet_address = n.ethernet_address
      /\ k.frames_out = <<>>
      /\ k.datagrams_out = n.datagrams_out /\ k.blocked_ip_datagram = n.blocked_ip_datagram
      /\ k.ms_since_running = n.ms_since_running
      /\ k.ip_ethernet_cache = n.ip_ethernet_cache /\ k.arp_expire_time = n.arp_expire_time
  BY <1>1 DEF Sane
<1> HIDE DEF k
<1>4. Sane(k, HostIp[s])
  <2>1. <<>> \in Seq(Frame)
    OBVIOUS
  <2> QED BY <1>1, <1>3, <2>1 DEF Sane
<1>5. DOMAIN host' = Side /\ \A t \in Side : host'[t] = IF t = s THEN k ELSE host[t]
  BY <1>0, <1>2
<1>6. Hosts'
  BY <1>3, <1>4, <1>5 DEF Inv, Hosts
<1>7. to_router' \in [Side -> Seq(Frame)]
  <2>1. n.frames_out \in Seq(Frame) /\ to_router[s] \in Seq(Frame)
    BY <1>1 DEF Sane, Inv, UnderWay
  <2>2. to_router[s] \o n.frames_out \in Seq(Frame)
    BY <2>1, ConcatProperties
  <2> QED BY <1>2, <2>2 DEF Inv, UnderWay
<1>8. /\ DOMAIN asked' \subseteq Ip \X Ip
      /\ Timely(asked', n, HostIp[s])
      /\ \A m, other : other # HostIp[s] /\ Timely(asked, m, other) => Timely(asked', m, other)
  BY <1>0, <1>2, AskTimely
<1>9. Timely(asked', k, HostIp[s])
  BY <1>0, <1>3, <1>8, TimelyStill
<1>10. \A t \in Side : Timely(asked', host'[t], HostIp[t])
  <2> SUFFICES ASSUME NEW t \in Side, t # s PROVE Timely(asked', host[t], HostIp[t])
    BY <1>5, <1>9
  <2>1. HostIp[t] # HostIp[s] /\ Timely(asked, host[t], HostIp[t])
    BY 1 \in 1 .. 2, Distinct DEF Inv, Asked
  <2> QED BY <1>8, <2>1
<1>11. \A t \in Side, i \in 1 .. 2 : Timely(asked', router'[t].interfaces[i], PortIp(t, i))
  <2> SUFFICES ASSUME NEW t \in Side, NEW i \in 1 .. 2
               PROVE  Timely(asked', router[t].interfaces[i], PortIp(t, i))
    OBVIOUS
  <2>1. PortIp(t, i) # HostIp[s] /\ Timely(asked, router[t].interfaces[i], PortIp(t, i))
    BY Distinct DEF Inv, Asked
  <2> QED BY <1>8, <2>1
<1>12. Routers'
  BY DEF Inv, Routers
<1> QED BY <1>6, <1>7, <1>8, <1>10, <1>11, <1>12 DEF Asked

LEMMA HostWriteInv == ASSUME Inv, NEW s \in Side, HostWrite(s) PROVE Inv'
<1> DEFINE d == [src |-> HostIp[s], dst |-> HostIp[Other(s)], ttl |-> 128, id |-> sent[s] + 1]
           n == send_datagram(host[s], d, GatewayIp[s])
<1>1. Other(s) \in Side /\ sent[s] \in Nat
  BY TwoSides DEF Inv, UnderWay
<1>2. /\ d \in Datagram /\ GatewayIp[s] \in Ip /\ HostIp[s] \in Ip
      /\ Sane(host[s], HostIp[s]) /\ Timely(asked, host[s], HostIp[s])
  BY <1>1, Addresses DEF Datagram, Inv, Hosts, Asked
<1>3. /\ sent' = [sent EXCEPT ![s] = @ + 1] /\ HostSends(s, n)
      /\ UNCHANGED <<router, to_host, internet>>
  BY DEF HostWrite
<1> HIDE DEF d
<1>4. Makes(host[s], n, HostIp[s])
  BY <1>2, SendDatagramMakes
<1> HIDE DEF n
<1>5. Hosts' /\ Routers' /\ Asked' /\ to_router' \in [Side -> Seq(Frame)]
  BY <1>2, <1>3, <1>4, HostStep
<1>6. sent' \in [Side -> Nat]
  BY <1>1, <1>3 DEF Inv, UnderWay
<1> QED BY <1>3, <1>5, <1>6 DEF Inv, UnderWay

LEMMA HostReadInv == ASSUME Inv, NEW s \in Side, HostRead(s) PROVE Inv'
<1> DEFINE frame == Head(to_host[s])
           n == recv_frame(host[s], frame)
<1>1. /\ to_host[s] # <<>> /\ to_host' = [to_host EXCEPT ![s] = Tail(@)] /\ HostSends(s, n)
      /\ UNCHANGED <<router, internet, sent>>
  BY DEF HostRead
<1>2. to_host \in [Side -> Seq(Frame)] /\ to_host[s] \in Seq(Frame)
  BY DEF Inv, UnderWay
<1>3. frame \in Frame /\ Tail(to_host[s]) \in Seq(Frame)
  BY <1>1, <1>2, HeadTailProperties
<1>4. HostIp[s] \in Ip /\ Sane(host[s], HostIp[s]) /\ Timely(asked, host[s], HostIp[s])
  BY Addresses DEF Inv, Hosts, Asked
<1> HIDE DEF frame
<1>5. Makes(host[s], n, HostIp[s])
  BY <1>3, <1>4, RecvFrameMakes
<1> HIDE DEF n
<1>6. Hosts' /\ Routers' /\ Asked' /\ to_router' \in [Side -> Seq(Frame)]
  BY <1>1, <1>4, <1>5, HostStep
<1>7. to_host' \in [Side -> Seq(Frame)]
  BY <1>1, <1>2, <1>3
<1> QED BY <1>1, <1>6, <1>7 DEF Inv, UnderWay

LEMMA HostTickInv == ASSUME Inv, NEW s \in Side, HostTick(s) PROVE Inv'
<1> DEFINE n == interface_tick(host[s], 1)
<1>1. HostSends(s, n) /\ UNCHANGED <<router, to_host, internet, sent>>
  BY DEF HostTick
<1>2. HostIp[s] \in Ip /\ Sane(host[s], HostIp[s]) /\ Timely(asked, host[s], HostIp[s])
  BY Addresses DEF Inv, Hosts, Asked
<1>3. Sane(n, HostIp[s]) /\ n.frames_out = host[s].frames_out /\ Timely(asked, n, HostIp[s])
  BY <1>2, TickSane
<1> HIDE DEF n
<1>4. Makes(n, n, HostIp[s])
  BY <1>2, <1>3, MakesSelf
<1>5. Hosts' /\ Routers' /\ Asked' /\ to_router' \in [Side -> Seq(Frame)]
  BY <1>1, <1>3, <1>4, HostStep
<1> QED BY <1>1, <1>5 DEF Inv, UnderWay

\* A frame comes to a router.
LEMMA RouterStep ==
    ASSUME Inv, NEW s \in Side, NEW port \in 1 .. 2,
           NEW frame, frame \in Frame \/ frame.payload = Malformed,
           RouterReceives(s, port, frame), UNCHANGED host
    PROVE  Hosts' /\ Routers' /\ Asked'
<1> DEFINE r == route([router[s] EXCEPT !.interfaces[port] = async_recv_frame(@, frame)])
           old(i) == router[s].interfaces[i]
           new(i) == r.interfaces[i]
           h == Ask(asked, new(1), NewRequests(old(1), new(1)))
<1>1. DOMAIN router = Side /\ RouterSane(router[s], s) /\ Routed(router[s])
  BY DEF Inv, Routers
<1>2. RouterMakes(router[s], r, s) /\ Routed(r)
  BY <1>1, ReceivesMakes
<1>3. /\ router' = [router EXCEPT ![s] = r]
      /\ asked' = Ask(h, new(2), NewRequests(old(2), new(2)))
  BY DEF RouterReceives, HostSide, InternetSide
<1> HIDE DEF r
<1>4. RouterSane(r, s) /\ \A i \in 1 .. 2 : Makes(old(i), new(i), PortIp(s, i))
  BY <1>2 DEF RouterMakes
<1>5. \A i \in 1 .. 2 : Sane(old(i), PortIp(s, i)) /\ PortIp(s, i) \in Ip /\ Timely(asked, old(i), PortIp(s, i))
  BY <1>1, PortType DEF RouterSane, Inv, Asked
<1>6. DOMAIN asked \subseteq Ip \X Ip
  BY DEF Inv, Asked
<1> HIDE DEF old, new
<1>7. 1 \in 1 .. 2 /\ 2 \in 1 .. 2 /\ PortIp(s, 1) # PortIp(s, 2)
  BY Distinct
<1>8. /\ DOMAIN h \subseteq Ip \X Ip
      /\ Timely(h, new(1), PortIp(s, 1))
      /\ \A m, other : other # PortIp(s, 1) /\ Timely(asked, m, other) => Timely(h, m, other)
  BY <1>4, <1>5, <1>6, <1>7, AskTimely
<1> HIDE DEF h
<1>9. Timely(h, old(2), PortIp(s, 2))
  BY <1>5, <1>7, <1>8
<1>10. /\ DOMAIN asked' \subseteq Ip \X Ip
       /\ Timely(asked', new(2), PortIp(s, 2))
       /\ \A m, other : other # PortIp(s, 2) /\ Timely(h, m, other) => Timely(asked', m, other)
  BY <1>3, <1>4, <1>5, <1>7, <1>8, <1>9, AskTimely
<1>11. Timely(asked', new(1), PortIp(s, 1))
  BY <1>7, <1>8, <1>10
<1>12. \A m, other : other # PortIp(s, 1) /\ other # PortIp(s, 2) /\ Timely(asked, m, other) => Timely(asked', m, other)
  BY <1>8, <1>10
<1>13. DOMAIN router' = Side /\ \A t \in Side : router'[t] = IF t = s THEN r ELSE router[t]
  BY <1>1, <1>3
<1>14. Routers'
  BY <1>2, <1>4, <1>13 DEF Inv, Routers
<1>15. ASSUME NEW t \in Side, NEW i \in 1 .. 2
       PROVE  Timely(asked', router'[t].interfaces[i], PortIp(t, i))
  <2>1. CASE t = s
    <3>1. router'[t].interfaces[i] = new(i)
      BY <1>13, <2>1 DEF new
    <3>2. i = 1 \/ i = 2
      OBVIOUS
    <3> QED BY <1>10, <1>11, <2>1, <3>1, <3>2
  <2>2. CASE t # s
    <3>1. PortIp(t, i) # PortIp(s, 1) /\ PortIp(t, i) # PortIp(s, 2)
      BY <1>7, <2>2, Distinct
    <3>2. router'[t] = router[t] /\ Timely(asked, router[t].interfaces[i], PortIp(t, i))
      BY <1>13, <2>2 DEF Inv, Asked
    <3> QED BY <1>12, <3>1, <3>2
  <2> QED BY <2>1, <2>2
<1>16. ASSUME NEW t \in Side
       PROVE  Timely(asked', host'[t], HostIp[t])
  <2>1. HostIp[t] # PortIp(s, 1) /\ HostIp[t] # PortIp(s, 2) /\ Timely(asked, host[t], HostIp[t])
    BY <1>7, Distinct DEF Inv, Asked
  <2> QED BY <1>12, <2>1
<1>17. Hosts'
  BY DEF Inv, Hosts
<1> QED BY <1>10, <1>14, <1>15, <1>16, <1>17 DEF Asked

LEMMA FromHostInv == ASSUME Inv, NEW s \in Side, FromHost(s) PROVE Inv'
<1>1. /\ to_router[s] # <<>> /\ to_router' = [to_router EXCEPT ![s] = Tail(@)]
      /\ RouterReceives(s, 1, Head(to_router[s])) /\ UNCHANGED <<host, to_host, internet, sent>>
  BY DEF FromHost, HostSide
<1>2. to_router \in [Side -> Seq(Frame)] /\ to_router[s] \in Seq(Frame)
  BY DEF Inv, UnderWay
<1>3. Head(to_router[s]) \in Frame /\ Tail(to_router[s]) \in Seq(Frame)
  BY <1>1, <1>2, HeadTailProperties
<1>4. Hosts' /\ Routers' /\ Asked'
  BY <1>1, <1>3, 1 \in 1 .. 2, RouterStep
<1>5. to_router' \in [Side -> Seq(Frame)]
  BY <1>1, <1>2, <1>3
<1> QED BY <1>1, <1>4, <1>5 DEF Inv, UnderWay

LEMMA FromInternetInv ==
    ASSUME Inv, NEW s \in Side, NEW frame \in internet[s], NEW fault, FromInternet(s, frame, fault)
    PROVE  Inv'
<1> DEFINE f == IF fault = "damaged" THEN [frame EXCEPT !.payload = Malformed] ELSE frame
<1>1. /\ internet' = IF fault = "again" THEN internet ELSE [internet EXCEPT ![s] = @ \ {frame}]
      /\ RouterReceives(s, 2, f) /\ UNCHANGED <<host, to_router, to_host, sent>>
  BY DEF FromInternet, InternetSide
<1>2. internet \in [Side -> SUBSET Frame] /\ frame \in Frame
  BY DEF Inv, UnderWay
<1>3. f \in Frame \/ f.payload = Malformed
  <2>1. [frame EXCEPT !.payload = Malformed].payload = Malformed
    BY <1>2 DEF Frame
  <2> QED BY <1>2, <2>1
<1> HIDE DEF f
<1>4. Hosts' /\ Routers' /\ Asked'
  BY <1>1, <1>3, 2 \in 1 .. 2, RouterStep
<1>5. internet' \in [Side -> SUBSET Frame]
  BY <1>1, <1>2
<1> QED BY <1>1, <1>4, <1>5 DEF Inv, UnderWay

\* Something happens to the router of s that no request is part of.
LEMMA RouterOnly ==
    ASSUME Inv, NEW s \in Side, NEW q, RouterSane(q, s), Routed(q),
           \A i \in 1 .. 2 : Timely(asked, q.interfaces[i], PortIp(s, i)),
           router' = [router EXCEPT ![s] = q], UNCHANGED <<host, asked>>
    PROVE  Hosts' /\ Routers' /\ Asked'
<1>1. DOMAIN router' = Side /\ \A t \in Side : router'[t] = IF t = s THEN q ELSE router[t]
  BY DEF Inv, Routers
<1>2. Routers'
  BY <1>1 DEF Inv, Routers
<1>3. Asked'
  BY <1>1 DEF Inv, Asked
<1>4. Hosts'
  BY DEF Inv, Hosts
<1> QED BY <1>2, <1>3, <1>4

\* The front of the queue of port leaves.
LEMMA SendFront ==
    ASSUME Inv, NEW s \in Side, NEW port \in 1 .. 2, router[s].interfaces[port].frames_out # <<>>,
           router' = [router EXCEPT ![s].interfaces[port].frames_out = Tail(@)],
           UNCHANGED <<host, asked>>
    PROVE  Hosts' /\ Routers' /\ Asked' /\ Head(router[s].interfaces[port].frames_out) \in Frame
<1> DEFINE r == router[s]
           n == r.interfaces[port]
           m == [n EXCEPT !.frames_out = Tail(@)]
           q == [r EXCEPT !.interfaces[port] = m]
<1>1. RouterSane(r, s) /\ Routed(r) /\ \A i \in 1 .. 2 : Timely(asked, r.interfaces[i], PortIp(s, i))
  BY DEF Inv, Routers, Asked
<1>2. /\ Sane(n, PortIp(s, port)) /\ n.datagrams_out = <<>> /\ PortIp(s, port) \in Ip
      /\ n.frames_out \in Seq(Frame)
  BY <1>1, PortType DEF RouterSane, Routed, Sane
<1>3. Head(n.frames_out) \in Frame /\ Tail(n.frames_out) \in Seq(Frame)
  BY <1>2, HeadTailProperties
<1>4. router' = [router EXCEPT ![s] = q]
  OBVIOUS
<1> HIDE DEF n
<1>5. /\ DOMAIN m = DOMAIN n
      /\ m.ip_address = n.ip_address /\ m.ethernet_address = n.ethernet_address
      /\ m.frames_out = Tail(n.frames_out)
      /\ m.datagrams_out = n.datagrams_out /\ m.blocked_ip_datagram = n.blocked_ip_datagram
      /\ m.ms_since_running = n.ms_since_running
      /\ m.ip_ethernet_cache = n.ip_ethernet_cache /\ m.arp_expire_time = n.arp_expire_time
  BY <1>2 DEF Sane
<1> HIDE DEF m
<1>6. Sane(m, PortIp(s, port))
  BY <1>2, <1>3, <1>5 DEF Sane
<1>7. Timely(asked, m, PortIp(s, port))
  BY <1>1, <1>2, <1>5, TimelyStill DEF n
<1>8. /\ DOMAIN q = DOMAIN r /\ q.forwarding_table = r.forwarding_table
      /\ DOMAIN q.interfaces = DOMAIN r.interfaces
      /\ \A i \in 1 .. 2 : q.interfaces[i] = IF i = port THEN m ELSE r.interfaces[i]
  <2> HIDE DEF r
  <2> QED BY <1>1 DEF RouterSane
<1> HIDE DEF r, q
<1>9. RouterSane(q, s)
  BY <1>1, <1>6, <1>8 DEF RouterSane
<1>10. Routed(q)
  BY <1>1, <1>2, <1>5, <1>8 DEF Routed
<1>11. \A i \in 1 .. 2 : Timely(asked, q.interfaces[i], PortIp(s, i))
  BY <1>1, <1>7, <1>8
<1> QED BY <1>3, <1>4, <1>9, <1>10, <1>11, RouterOnly DEF n, r

LEMMA ToHostInv == ASSUME Inv, NEW s \in Side, ToHost(s) PROVE Inv'
<1> DEFINE queue == router[s].interfaces[1].frames_out
<1>1. /\ queue # <<>> /\ to_host' = [to_host EXCEPT ![s] = Append(@, Head(queue))]
      /\ router' = [router EXCEPT ![s].interfaces[1].frames_out = Tail(@)]
      /\ UNCHANGED <<host, asked, to_router, internet, sent>>
  BY SMTT(30) DEF ToHost, HostSide
<1>2. Hosts' /\ Routers' /\ Asked' /\ Head(queue) \in Frame
  BY <1>1, 1 \in 1 .. 2, SendFront
<1>3. to_host' \in [Side -> Seq(Frame)]
  <2>1. to_host \in [Side -> Seq(Frame)] /\ to_host[s] \in Seq(Frame)
    BY DEF Inv, UnderWay
  <2>2. Append(to_host[s], Head(queue)) \in Seq(Frame)
    BY <1>2, <2>1, AppendProperties
  <2> QED BY <1>1, <2>1, <2>2
<1> QED BY <1>1, <1>2, <1>3 DEF Inv, UnderWay

LEMMA ToInternetInv == ASSUME Inv, NEW s \in Side, ToInternet(s) PROVE Inv'
<1> DEFINE queue == router[s].interfaces[2].frames_out
<1>1. /\ queue # <<>> /\ internet' = [internet EXCEPT ![Other(s)] = @ \cup {Head(queue)}]
      /\ router' = [router EXCEPT ![s].interfaces[2].frames_out = Tail(@)]
      /\ UNCHANGED <<host, asked, to_router, to_host, sent>>
  BY DEF ToInternet, InternetSide
<1>2. Hosts' /\ Routers' /\ Asked' /\ Head(queue) \in Frame
  BY <1>1, 2 \in 1 .. 2, SendFront
<1>3. internet' \in [Side -> SUBSET Frame]
  BY <1>1, <1>2, TwoSides DEF Inv, UnderWay
<1> QED BY <1>1, <1>2, <1>3 DEF Inv, UnderWay

LEMMA RouterTickInv == ASSUME Inv, NEW s \in Side, RouterTick(s) PROVE Inv'
<1> DEFINE r == router[s]
           ticked == [i \in DOMAIN r.interfaces |-> interface_tick(r.interfaces[i], 1)]
           q == [r EXCEPT !.interfaces = ticked]
<1>1. RouterSane(r, s) /\ Routed(r) /\ \A i \in 1 .. 2 : Timely(asked, r.interfaces[i], PortIp(s, i))
  BY DEF Inv, Routers, Asked
<1>2. router' = [router EXCEPT ![s] = q] /\ UNCHANGED <<host, asked, to_router, to_host, internet, sent>>
  BY DEF RouterTick
<1> HIDE DEF r
<1>3. /\ DOMAIN q = DOMAIN r /\ q.forwarding_table = r.forwarding_table
      /\ DOMAIN q.interfaces = 1 .. 2
      /\ \A i \in 1 .. 2 : q.interfaces[i] = interface_tick(r.interfaces[i], 1)
  BY <1>1 DEF RouterSane
<1> HIDE DEF q
<1>4. \A i \in 1 .. 2 : /\ Sane(q.interfaces[i], PortIp(s, i))
                        /\ q.interfaces[i].datagrams_out = r.interfaces[i].datagrams_out
                        /\ Timely(asked, q.interfaces[i], PortIp(s, i))
  BY <1>1, <1>3, PortType, TickSane DEF RouterSane
<1>5. RouterSane(q, s) /\ Routed(q)
  BY <1>1, <1>3, <1>4 DEF RouterSane, Routed
<1>6. Hosts' /\ Routers' /\ Asked'
  BY <1>2, <1>4, <1>5, RouterOnly
<1> QED BY <1>2, <1>6 DEF Inv, UnderWay

-----------------------------------------------------------------------------
\* The start

\* A new interface.
LEMMA NewSane ==
    ASSUME NEW ip \in Ip
    PROVE  LET n == NewNetworkInterface(EthernetOf(ip), ip)
           IN  Sane(n, ip) /\ n.frames_out = <<>> /\ n.datagrams_out = <<>>
<1> DEFINE n == NewNetworkInterface(EthernetOf(ip), ip)
<1>1. /\ DOMAIN n = {"ethernet_address", "ip_address", "frames_out", "datagrams_out",
                     "ip_ethernet_cache", "arp_expire_time", "blocked_ip_datagram",
                     "ms_since_running"}
      /\ n.ip_address = ip /\ n.ethernet_address = EthernetOf(ip)
      /\ n.frames_out = <<>> /\ n.datagrams_out = <<>> /\ n.blocked_ip_datagram = <<>>
      /\ n.ms_since_running = 0 /\ n.ip_ethernet_cache = <<>> /\ n.arp_expire_time = <<>>
  BY DEF NewNetworkInterface
<1>2. /\ <<>> \in Seq(Frame) /\ <<>> \in Seq(Datagram) /\ <<>> \in Seq(Waiting)
      /\ DOMAIN <<>> = {}
  OBVIOUS
<1> HIDE DEF n
<1>3. /\ \A x \in DOMAIN n.ip_ethernet_cache : /\ n.ip_ethernet_cache[x].ethernet = EthernetOf(x)
                                               /\ n.ip_ethernet_cache[x].expire \in Nat
      /\ \A x \in DOMAIN n.arp_expire_time : n.arp_expire_time[x] \in Nat
  BY <1>1, <1>2, Zenon
<1>4. Sane(n, ip)
  BY <1>1, <1>2, <1>3 DEF Sane
<1> QED BY <1>1, <1>4 DEF n

\* Prefixes are numbers, and no prefix is in the table twice.
Keyed(T) ==
    /\ \A t \in T : t.length \in Nat /\ t.prefix \in Nat
    /\ \A t, u \in T : t.length = u.length /\ t.prefix = u.prefix => t = u

\* A route is added to the table.
LEMMA AddRouteTable ==
    ASSUME NEW r, DOMAIN r = {"interfaces", "forwarding_table"},
           Table(r.forwarding_table), Keyed(r.forwarding_table),
           NEW prefix \in Nat, NEW length \in Nat, NEW hop \in SUBSET Ip,
           NEW num \in {HostSide, InternetSide}
    PROVE  LET q == add_route(r, prefix, length, hop, num)
           IN  /\ DOMAIN q = DOMAIN r /\ q.interfaces = r.interfaces
               /\ Table(q.forwarding_table) /\ Keyed(q.forwarding_table)
<1> DEFINE T == r.forwarding_table
           q == add_route(r, prefix, length, hop, num)
           a == [length |-> length, prefix |-> prefix, next_hop |-> hop, interface_num |-> num]
<1>1. CASE \E old \in T : old.length = length /\ old.prefix = prefix
  <2>1. q = r
    BY <1>1 DEF add_route
  <2> QED BY <2>1
<1>2. CASE ~\E old \in T : old.length = length /\ old.prefix = prefix
  <2>1. q = [r EXCEPT !.forwarding_table = @ \cup {a}]
    BY <1>2 DEF add_route
  <2>2. DOMAIN q = DOMAIN r /\ q.interfaces = r.interfaces /\ q.forwarding_table = T \cup {a}
    BY <2>1
  <2>3. /\ a.length = length /\ a.prefix = prefix /\ a.next_hop = hop /\ a.interface_num = num
    OBVIOUS
  <2> HIDE DEF a, q
  <2>4. Keyed(T \cup {a})
    <3>1. \A t \in T \cup {a} : t.length \in Nat /\ t.prefix \in Nat
      BY <2>3 DEF Keyed
    <3>2. ASSUME NEW t \in T \cup {a}, NEW u \in T \cup {a}, t.length = u.length, t.prefix = u.prefix
          PROVE  t = u
      <4>1. CASE t \in T /\ u \in T
        BY <3>2, <4>1 DEF Keyed
      <4>2. CASE t = a \/ u = a
        BY <1>2, <2>3, <3>2, <4>2
      <4> QED BY <4>1, <4>2
    <3> QED BY <3>1, <3>2 DEF Keyed
  <2>5. \A x, y \in T \cup {a} : x # y => ModCmp(x, y) \/ ModCmp(y, x)
    BY <2>4 DEF Keyed, ModCmp
  <2>6. \A x, y, z \in T \cup {a} : ModCmp(x, y) /\ ModCmp(y, z) => ModCmp(x, z)
    BY <2>4 DEF Keyed, ModCmp
  <2>7. ASSUME NEW M \in SUBSET (T \cup {a}), M # {}
        PROVE  \E x \in M : \A y \in M \ {x} : ModCmp(x, y)
    <3> DEFINE N == M \ {a}
    <3>1. CASE N = {}
      <4>1. M = {a}
        BY <2>7, <3>1
      <4> QED BY <4>1
    <3>2. CASE N # {}
      <4>1. N \in SUBSET T
        OBVIOUS
      <4>2. PICK x \in N : \A y \in N \ {x} : ModCmp(x, y)
        BY <3>2, <4>1 DEF Table
      <4>3. CASE a \notin M
        BY <4>2, <4>3
      <4>4. CASE a \in M /\ ModCmp(x, a)
        BY <4>2, <4>4
      <4>5. CASE a \in M /\ ~ModCmp(x, a)
        <5>1. ModCmp(a, x)
          BY <2>5, <4>2, <4>5
        <5>2. \A y \in M \ {a} : ModCmp(a, y)
          <6> SUFFICES ASSUME NEW y \in M \ {a}, y # x PROVE ModCmp(a, y)
            BY <5>1
          <6>1. ModCmp(x, y)
            BY <4>2
          <6> QED BY <2>6, <4>2, <5>1, <6>1
        <5> QED BY <4>5, <5>2
      <4> QED BY <4>3, <4>4, <4>5
    <3> QED BY <3>1, <3>2
  <2>8. Table(T \cup {a})
    BY <2>3, <2>7 DEF Table
  <2> QED BY <2>2, <2>4, <2>8 DEF q
<1> QED BY <1>1, <1>2

\* The router as program_body sets it up.
LEMMA SetUpSane == ASSUME NEW s \in Side PROVE RouterSane(SetUp(s), s) /\ Routed(SetUp(s))
<1> DEFINE o  == Other(s)
           a  == NewNetworkInterface(EthernetOf(GatewayIp[s]), GatewayIp[s])
           b  == NewNetworkInterface(EthernetOf(InternetIp[s]), InternetIp[s])
           r0 == NewRouter(<<a, b>>)
           r1 == add_route(r0, Prefix[s].prefix, Prefix[s].length, {}, HostSide)
           r2 == add_route(r1, Backbone.prefix, Backbone.length, {}, InternetSide)
           r3 == add_route(r2, Prefix[o].prefix, Prefix[o].length, {InternetIp[o]}, InternetSide)
<1>1. o \in Side /\ GatewayIp[s] \in Ip /\ InternetIp[s] \in Ip /\ InternetIp[o] \in Ip
  BY TwoSides, Addresses
<1>2. /\ Sane(a, GatewayIp[s]) /\ a.datagrams_out = <<>>
      /\ Sane(b, InternetIp[s]) /\ b.datagrams_out = <<>>
  BY <1>1, NewSane
<1> HIDE DEF o, a, b
<1>3. /\ Prefix[s].prefix \in Nat /\ Prefix[s].length \in Nat
      /\ Prefix[o].prefix \in Nat /\ Prefix[o].length \in Nat
      /\ Backbone.prefix \in Nat /\ Backbone.length \in Nat
  <2>1. \A net \in {Prefix[t] : t \in Side} \cup {Backbone} : net \in [prefix : Nat, length : Nat]
    BY Lab7Assumption
  <2>2. Prefix[s] \in [prefix : Nat, length : Nat] /\ Prefix[o] \in [prefix : Nat, length : Nat]
        /\ Backbone \in [prefix : Nat, length : Nat]
    BY <1>1, <2>1
  <2> QED BY <2>2
<1>4. /\ DOMAIN r0 = {"interfaces", "forwarding_table"} /\ r0.interfaces = <<a, b>>
      /\ Table(r0.forwarding_table) /\ Keyed(r0.forwarding_table)
  <2>1. DOMAIN r0 = {"interfaces", "forwarding_table"} /\ r0.interfaces = <<a, b>> /\ r0.forwarding_table = {}
    BY DEF NewRouter
  <2>2. Table({}) /\ Keyed({})
    BY DEF Table, Keyed
  <2> QED BY <2>1, <2>2
<1>5. /\ {} \in SUBSET Ip /\ {InternetIp[o]} \in SUBSET Ip
      /\ HostSide \in {HostSide, InternetSide} /\ InternetSide \in {HostSide, InternetSide}
  BY <1>1
<1> HIDE DEF r0
<1>6. /\ DOMAIN r1 = DOMAIN r0 /\ r1.interfaces = r0.interfaces
      /\ Table(r1.forwarding_table) /\ Keyed(r1.forwarding_table)
  BY <1>3, <1>4, <1>5, AddRouteTable
<1> HIDE DEF r1
<1>7. /\ DOMAIN r2 = DOMAIN r1 /\ r2.interfaces = r1.interfaces
      /\ Table(r2.forwarding_table) /\ Keyed(r2.forwarding_table)
  BY <1>3, <1>4, <1>5, <1>6, AddRouteTable
<1> HIDE DEF r2
<1>8. /\ DOMAIN r3 = DOMAIN r2 /\ r3.interfaces = r2.interfaces
      /\ Table(r3.forwarding_table) /\ Keyed(r3.forwarding_table)
  BY <1>3, <1>4, <1>5, <1>6, <1>7, AddRouteTable
<1>9. SetUp(s) = r3
  BY DEF SetUp, r2, r1, r0, a, b, o
<1> HIDE DEF r3
<1>10. r3.interfaces = <<a, b>> /\ DOMAIN r3 = {"interfaces", "forwarding_table"}
  BY <1>4, <1>6, <1>7, <1>8
<1>11. /\ DOMAIN r3.interfaces = 1 .. 2
       /\ \A i \in 1 .. 2 : r3.interfaces[i] = IF i = 1 THEN a ELSE b
  BY <1>10
<1>12. \A i \in 1 .. 2 : Sane(r3.interfaces[i], PortIp(s, i)) /\ r3.interfaces[i].datagrams_out = <<>>
  BY <1>2, <1>11 DEF PortIp, HostSide
<1> QED BY <1>8, <1>9, <1>10, <1>11, <1>12 DEF RouterSane, Routed

LEMMA InitInv == Init => Inv
<1> SUFFICES ASSUME Init PROVE Inv
  OBVIOUS
<1>1. Hosts
  <2>1. DOMAIN host = Side /\ \A s \in Side : host[s] = NewNetworkInterface(EthernetOf(HostIp[s]), HostIp[s])
    BY DEF Init
  <2>2. \A s \in Side : HostIp[s] \in Ip
    BY Addresses
  <2> QED BY <2>1, <2>2, NewSane DEF Hosts
<1>2. Routers
  <2>1. DOMAIN router = Side /\ \A s \in Side : router[s] = SetUp(s)
    BY DEF Init
  <2> QED BY <2>1, SetUpSane DEF Routers
<1>3. UnderWay
  BY DEF Init, UnderWay
<1>4. Asked
  <2>1. DOMAIN asked = {}
    BY DEF Init
  <2> QED BY <2>1 DEF Asked, Timely
<1> QED BY <1>1, <1>2, <1>3, <1>4 DEF Inv

-----------------------------------------------------------------------------

\* The invariant of the two programs: every interface, frame and entry of the
\* history is as above, after every step of the hosts, the routers and the clocks.
THEOREM Lab7Invariant == Spec => []Inv
<1>1. Inv /\ [Next]_vars => Inv'
  <2> SUFFICES ASSUME Inv, [Next]_vars PROVE Inv'
    OBVIOUS
  <2>1. ASSUME NEW s \in Side, HostWrite(s) PROVE Inv'
    BY <2>1, HostWriteInv
  <2>2. ASSUME NEW s \in Side, HostRead(s) PROVE Inv'
    BY <2>2, HostReadInv
  <2>3. ASSUME NEW s \in Side, HostTick(s) PROVE Inv'
    BY <2>3, HostTickInv
  <2>4. ASSUME NEW s \in Side, FromHost(s) PROVE Inv'
    BY <2>4, FromHostInv
  <2>5. ASSUME NEW s \in Side, ToHost(s) PROVE Inv'
    BY <2>5, ToHostInv
  <2>6. ASSUME NEW s \in Side, ToInternet(s) PROVE Inv'
    BY <2>6, ToInternetInv
  <2>7. ASSUME NEW s \in Side, RouterTick(s) PROVE Inv'
    BY <2>7, RouterTickInv
  <2>8. ASSUME NEW s \in Side, NEW frame \in internet[s], NEW fault, FromInternet(s, frame, fault)
        PROVE  Inv'
    BY <2>8, FromInternetInv
  <2>9. CASE UNCHANGED vars
    BY <2>9 DEF vars, Inv, Hosts, Routers, UnderWay, Asked
  <2> QED BY <2>1, <2>2, <2>3, <2>4, <2>5, <2>6, <2>7, <2>8, <2>9, Zenon DEF Next
<1> QED BY <1>1, InitInv, PTL DEF Spec

\* What an interface has learned from requests and replies, old, late and repeated
\* ones too, is the address of the interface that has it (update_ip_ethernet_cache).
THEOREM CachesStayTruthful == Spec => []CacheTruthful
<1>1. Inv => CacheTruthful
  <2> SUFFICES ASSUME Inv, NEW n \in Interfaces, NEW x \in DOMAIN n.ip_ethernet_cache
               PROVE  n.ip_ethernet_cache[x].ethernet = EthernetOf(x)
    BY DEF CacheTruthful
  <2>1. \E ip : Sane(n, ip)
    <3>1. CASE \E s \in Side : n = host[s]
      BY <3>1 DEF Inv, Hosts
    <3>2. CASE \E s \in Side : \E i \in {1, 2} : n = router[s].interfaces[i]
      BY <3>2 DEF Inv, Routers, RouterSane
    <3> QED BY <3>1, <3>2 DEF Interfaces, HostSide, InternetSide
  <2> QED BY <2>1 DEF Sane
<1> QED BY <1>1, Lab7Invariant, PTL

\* No interface asks for the same address twice within ArpTime (send_datagram),
\* however answers are lost or late and mappings expire.
THEOREM RequestsStayRare == Spec => []ArpRateLimited
<1>1. Inv => ArpRateLimited
  <2> SUFFICES ASSUME Inv, NEW key \in DOMAIN asked
               PROVE  ~asked[key].early
    BY DEF ArpRateLimited
  <2>1. key \in Ip \X Ip
    BY DEF Inv, Asked
  <2>2. PICK ip \in Ip, x \in Ip : key = <<ip, x>>
    BY <2>1
  <2>3. \E n : Timely(asked, n, ip)
    <3>1. PICK s \in Side : ip \in {HostIp[s], GatewayIp[s], InternetIp[s]}
      BY DEF Ip
    <3>2. PortIp(s, 1) = GatewayIp[s] /\ PortIp(s, 2) = InternetIp[s] /\ 1 \in 1 .. 2 /\ 2 \in 1 .. 2
      BY DEF PortIp, HostSide
    <3> QED BY <3>1, <3>2 DEF Inv, Asked
  <2>4. asked[<<ip, x>>].early = FALSE
    BY <2>2, <2>3 DEF Timely
  <2> QED BY <2>2, <2>4
<1> QED BY <1>1, Lab7Invariant, PTL

=============================================================================
