--------------------------- MODULE TCPPairProofs ---------------------------
(***************************************************************************)
(* The safety properties of TCPPair, for every stream, capacity, payload   *)
(* size and initial sequence number, however often the network loses,      *)
(* repeats and reorders segments; and those of SpongeSocket, where one of  *)
(* the endpoints is run by the threads of TCPSpongeSocket.                 *)
(***************************************************************************)
EXTENDS SpongeSocket, TCPLemmas

\* There are two endpoints.
LEMMA TwoPeers ==
    ASSUME NEW p \in Peer
    PROVE  /\ Other(p) \in Peer /\ Other(p) # p /\ Other(Other(p)) = p
           /\ \A x \in Peer : x = p \/ x = Other(p)
<1> DEFINE S == Peer \ {p}
<1>1. IsFiniteSet(Peer) /\ Cardinality(Peer) = 2
  BY PairAssumption
<1>2. IsFiniteSet(S) /\ Cardinality(S) = 1
  <2>1. IsFiniteSet(S) /\ Cardinality(S) = Cardinality(Peer) - 1
    BY <1>1, FS_RemoveElement
  <2> QED BY <1>1, <2>1
<1>3. S # {}
  <2>1. Cardinality({}) = 0
    BY FS_EmptySet
  <2> QED BY <1>2, <2>1
<1>4. PICK q : q \in S
  BY <1>3
<1>5. \A x \in S : x = q
  <2> SUFFICES ASSUME NEW x \in S, x # q PROVE FALSE
    OBVIOUS
  <2>1. IsFiniteSet(S \ {q}) /\ Cardinality(S \ {q}) = Cardinality(S) - 1
    BY <1>2, <1>4, FS_RemoveElement
  <2>2. Cardinality(S \ {q}) = 0
    BY <1>2, <2>1
  <2>3. S \ {q} = {}
    BY <2>1, <2>2, FS_EmptySet
  <2> QED BY <2>3
<1>6. q \in Peer /\ q # p /\ \A x \in Peer : x = p \/ x = q
  BY <1>4, <1>5
<1>7. Other(p) \in Peer /\ Other(p) # p
  BY <1>6 DEF Other
<1>8. Other(p) = q
  BY <1>6, <1>7
<1>9. Other(q) \in Peer /\ Other(q) # q
  BY <1>6 DEF Other
<1>10. Other(q) = p
  BY <1>6, <1>9
<1> QED BY <1>6, <1>7, <1>8, <1>10

\* The lengths that two streams may have: an application that gives up early ends
\* its stream before StreamLen.
Lengths == {f \in [Peer -> Nat] : \A p \in Peer : f[p] + 2 < HalfRange /\ f[p] + 2 < SizeSpace}

\* The constants of the lemmas about one endpoint.
LEMMA PairConstants ==
    /\ Capacity \in Nat /\ Capacity > 0 /\ Capacity <= WindowLimit
    /\ StreamLen \in Lengths
    /\ \A p \in Peer : ISN[p] \in SeqNo
    /\ \A total \in Lengths : \A p \in Peer :
           total[p] \in Nat /\ total[p] + 2 < HalfRange /\ total[p] + 2 < SizeSpace
<1>1. Capacity \in Nat /\ Capacity > 0 /\ Capacity <= WindowLimit
  BY PairAssumption, SenderAssumption, HalfRangeAssumption DEF WindowLimit
<1>2. StreamLen \in Lengths /\ \A p \in Peer : ISN[p] \in SeqNo
  BY PairAssumption DEF Lengths
<1>3. ASSUME NEW total \in Lengths, NEW p \in Peer
      PROVE  total[p] \in Nat /\ total[p] + 2 < HalfRange /\ total[p] + 2 < SizeSpace
  BY DEF Lengths
<1> QED BY <1>1, <1>2, <1>3

-----------------------------------------------------------------------------

\* A sender of p.
SenderFine(s, p, total) ==
    /\ Good(s, s.stream.bytes_written, ISN[p], Capacity)
    /\ NotStalled(s, s.stream.bytes_written)
    /\ s.window_size <= Capacity
    /\ s.stream.bytes_written <= total[p]
    /\ s.stream.end_input = TRUE => s.stream.bytes_written = total[p] /\ s.next_seqno > 0

\* A receiver of p.
ReceiverFine(v, p, total) ==
    /\ ReceiverSound(v, Capacity, total[Other(p)], ISN[Other(p)])
    /\ v.reassembler.eof_appear_sign = TRUE => v.syn = TRUE

\* The absolute acknowledgment number of a receiver (Reached, of the receiver).
Got(v) == IF v.syn THEN FirstMissing(v.reassembler.output) ELSE 0

\* The sender s and the receiver v of an endpoint fit to those of the other one,
\* s2 and v2: what s believes to be acknowledged has arrived, and what v has was
\* sent.
Heard(s, v, s2, v2) ==
    /\ s.abs_ackno <= Got(v2)
    /\ v.syn = TRUE => s2.next_seqno > 0
    /\ \A i \in Accepted(v.reassembler) : i < s2.stream.bytes_read
    /\ v.reassembler.eof_appear_sign = TRUE =>
           s2.stream.end_input = TRUE /\ s2.next_seqno = s2.stream.bytes_written + 2

\* An endpoint that had the sender s and the receiver v now has t and x.
Later(s, v, t, x) ==
    /\ Got(v) <= Got(x) /\ s.next_seqno <= t.next_seqno
    /\ \/ /\ t.stream.end_input = s.stream.end_input
          /\ t.stream.bytes_written = s.stream.bytes_written
       \/ s.stream.end_input = FALSE /\ s.stream.bytes_written <= t.stream.bytes_written

\* The segments an endpoint puts on the network.
Wired == [seqno : SeqNo, syn : BOOLEAN, fin : BOOLEAN, rst : BOOLEAN, payload : Seq(Int),
          ack : BOOLEAN, ackno : SeqNo, win : Nat]

\* seg takes up sequence numbers that s has sent, and holds what belongs there.
SentBy(seg, s, p) ==
    \E a \in Nat : /\ Placed(seg, a, s.stream.bytes_written, s.stream.end_input, ISN[p])
                   /\ a + length_in_sequence_space(seg) <= s.next_seqno

\* seg acknowledges no more than v has.
AcksFor(seg, v, p) ==
    seg.ack = TRUE => \E b \in Nat : b <= Got(v) /\ seg.ackno = wrap(b, ISN[Other(p)])

\* What p, with the sender s and the receiver v, may have sent.
Valid(seg, s, v, p) ==
    /\ seg \in Wired
    /\ seg.rst = FALSE => SentBy(seg, s, p) /\ AcksFor(seg, v, p) /\ seg.win <= Capacity

-----------------------------------------------------------------------------

\* What a segment on the network has for fields.
LEMMA WiredFields ==
    ASSUME NEW seg \in Wired
    PROVE  /\ seg.seqno \in SeqNo /\ seg.syn \in BOOLEAN /\ seg.fin \in BOOLEAN
           /\ seg.rst \in BOOLEAN /\ seg.ack \in BOOLEAN /\ seg.ackno \in SeqNo /\ seg.win \in Nat
           /\ seg.payload \in Seq(Int) /\ Len(seg.payload) \in Nat
           /\ length_in_sequence_space(seg) \in Nat
           /\ Len(seg.payload) <= length_in_sequence_space(seg)
           /\ (seg.syn \/ seg.fin) => Len(seg.payload) < length_in_sequence_space(seg)
<1>1. /\ seg.seqno \in SeqNo /\ seg.syn \in BOOLEAN /\ seg.fin \in BOOLEAN
      /\ seg.rst \in BOOLEAN /\ seg.ack \in BOOLEAN /\ seg.ackno \in SeqNo /\ seg.win \in Nat
      /\ seg.payload \in Seq(Int)
  BY DEF Wired
<1> DEFINE l == Len(seg.payload)
           m == IF seg.syn THEN 1 ELSE 0
           n == IF seg.fin THEN 1 ELSE 0
<1>2. l \in Nat /\ m \in Nat /\ n \in Nat /\ ((seg.syn \/ seg.fin) => m + n > 0)
  BY <1>1
<1>3. length_in_sequence_space(seg) = l + m + n
  BY Zenon DEF length_in_sequence_space
<1> HIDE DEF l, m, n
<1>4. /\ length_in_sequence_space(seg) \in Nat /\ l <= length_in_sequence_space(seg)
      /\ (seg.syn \/ seg.fin) => l < length_in_sequence_space(seg)
  BY <1>2, <1>3
<1> QED BY <1>1, <1>2, <1>4 DEF l

\* The numbers of a sender.
LEMMA SenderNumbers ==
    ASSUME NEW total \in Lengths, NEW p \in Peer, NEW s, SenderFine(s, p, total)
    PROVE  /\ s.next_seqno \in Nat /\ s.abs_ackno \in Nat /\ s.abs_ackno <= s.next_seqno
           /\ s.window_size \in Nat
           /\ s.stream.bytes_written \in Nat /\ s.stream.bytes_read \in Nat
           /\ s.stream.buffer_size \in Nat
           /\ s.stream.bytes_written = s.stream.bytes_read + s.stream.buffer_size
           /\ s.stream.end_input \in BOOLEAN /\ s.stream.error \in BOOLEAN
           /\ s.next_seqno <= total[p] + 2 /\ total[p] \in Nat
           /\ s.next_seqno <= s.stream.bytes_written + 2
           /\ s.stream.end_input = FALSE => s.next_seqno <= s.stream.bytes_written + 1
           /\ s.next_seqno > 0 => s.next_seqno > s.stream.bytes_read
           /\ s.next_seqno = s.stream.bytes_written + 2 => s.stream.buffer_size = 0
           /\ s.next_seqno <= s.stream.bytes_read + 1 \/ s.stream.bytes_read = s.stream.bytes_written
           /\ s.next_seqno = 0 => s.stream.bytes_read = 0
<1> DEFINE w == s.stream.bytes_written
<1>1. /\ s.next_seqno \in Nat /\ s.abs_ackno \in Nat /\ s.abs_ackno <= s.next_seqno
      /\ s.window_size \in 0 .. WindowLimit /\ Sending(s.stream, s.next_seqno, w, Capacity)
      /\ s.stream.bytes_written <= total[p]
  BY Zenon DEF SenderFine, Good, Core
<1>2. /\ InOrder(s.stream, Capacity)
      /\ \/ s.next_seqno = 0 /\ s.stream.bytes_read = 0
         \/ s.next_seqno = s.stream.bytes_read + 1
         \/ s.stream.end_input = TRUE /\ s.stream.buffer_size = 0 /\ s.next_seqno = w + 2
  BY <1>1, Zenon DEF Sending
<1>3. /\ s.stream.bytes_read \in Nat /\ s.stream.buffer_size \in 0 .. Capacity
      /\ w = s.stream.bytes_read + s.stream.buffer_size
      /\ s.stream.end_input \in BOOLEAN /\ s.stream.error \in BOOLEAN
  BY <1>2, Zenon DEF InOrder
<1>4. total[p] \in Nat /\ Capacity \in Nat
  BY PairConstants
<1> DEFINE n == s.next_seqno  r == s.stream.bytes_read  z == s.stream.buffer_size
<1>5. n \in Nat /\ r \in Nat /\ z \in Nat /\ w = r + z /\ w <= total[p]
      /\ s.window_size \in Nat
      /\ \/ n = 0 /\ r = 0
         \/ n = r + 1
         \/ s.stream.end_input = TRUE /\ z = 0 /\ n = w + 2
  BY <1>1, <1>2, <1>3, <1>4, WindowLimitType
<1> HIDE DEF n, r, z, w
<1>6. /\ n <= total[p] + 2 /\ n <= w + 2 /\ (s.stream.end_input = FALSE => n <= w + 1)
      /\ (n > 0 => n > r) /\ (n = w + 2 => z = 0) /\ (n <= r + 1 \/ r = w) /\ (n = 0 => r = 0)
  BY <1>4, <1>5
<1> QED BY <1>1, <1>3, <1>4, <1>5, <1>6 DEF n, r, z, w

\* The numbers of a receiver.
LEMMA ReceiverNumbers ==
    ASSUME NEW total \in Lengths, NEW p \in Peer, NEW v, ReceiverFine(v, p, total)
    PROVE  /\ v.syn \in BOOLEAN /\ Got(v) \in Nat /\ Got(v) <= total[Other(p)] + 2
           /\ v.syn = TRUE => v.isn = ISN[Other(p)] /\ Got(v) > v.reassembler.output.bytes_written
           /\ v.syn = FALSE => Got(v) = 0
           /\ total[Other(p)] \in Nat
           /\ Sound(v.reassembler, Capacity, total[Other(p)])
<1> DEFINE L == total[Other(p)]  r == v.reassembler
<1>1. /\ v.syn \in BOOLEAN /\ Sound(r, Capacity, L) /\ (v.syn = TRUE => v.isn = ISN[Other(p)])
  BY Zenon DEF ReceiverFine, ReceiverSound
<1>2. L \in Nat /\ Capacity \in Nat
  BY TwoPeers, PairConstants
<1>3. /\ FirstMissing(r.output) \in Nat /\ r.output.bytes_written < FirstMissing(r.output)
      /\ FirstMissing(r.output) <= L + 2 /\ r.output.bytes_written \in Nat
  <2> HIDE DEF L, r
  <2>1. /\ FirstMissing(r.output) \in Nat /\ r.output.bytes_written < FirstMissing(r.output)
        /\ FirstMissing(r.output) <= L + 2 /\ r.output.bytes_written \in 0 .. L
    BY <1>1, <1>2, SoundCounts, Zenon
  <2> QED BY <1>2, <2>1
<1>4. CASE v.syn = TRUE
  <2>1. Got(v) = FirstMissing(r.output)
    BY <1>4 DEF Got
  <2> QED BY <1>1, <1>2, <1>3, <1>4, <2>1
<1>5. CASE v.syn = FALSE
  <2>1. Got(v) = 0
    BY <1>5 DEF Got
  <2> QED BY <1>1, <1>2, <1>5, <2>1
<1> QED BY <1>1, <1>4, <1>5

-----------------------------------------------------------------------------

\* An endpoint that is fine.
Fine(s, v, p, total) == SenderFine(s, p, total) /\ ReceiverFine(v, p, total)

\* Nothing has happened.
LEMMA LaterSelf ==
    ASSUME NEW total \in Lengths, NEW p \in Peer, NEW s, NEW v, Fine(s, v, p, total) PROVE Later(s,
           v, s, v)
<1>1. s.next_seqno \in Nat /\ Got(v) \in Nat
  BY SenderNumbers, ReceiverNumbers DEF Fine
<1> QED BY <1>1 DEF Later

\* One thing after another.
LEMMA LaterStill ==
    ASSUME NEW total \in Lengths, NEW p \in Peer, NEW s, NEW v, Fine(s, v, p, total), NEW t, NEW x,
           Fine(t, x, p, total),
           NEW u, NEW y, Fine(u, y, p, total), Later(s, v, t, x), Later(t, x, u, y)
    PROVE  Later(s, v, u, y)
<1> DEFINE n1 == s.next_seqno  n2 == t.next_seqno  n3 == u.next_seqno
           g1 == Got(v)  g2 == Got(x)  g3 == Got(y)
           w1 == s.stream.bytes_written  w2 == t.stream.bytes_written  w3 == u.stream.bytes_written
           e1 == s.stream.end_input  e2 == t.stream.end_input  e3 == u.stream.end_input
<1>1. /\ n1 \in Nat /\ n2 \in Nat /\ n3 \in Nat /\ g1 \in Nat /\ g2 \in Nat /\ g3 \in Nat
      /\ w1 \in Nat /\ w2 \in Nat /\ w3 \in Nat
      /\ e1 \in BOOLEAN /\ e2 \in BOOLEAN /\ e3 \in BOOLEAN
  <2>1. n1 \in Nat /\ w1 \in Nat /\ e1 \in BOOLEAN /\ g1 \in Nat
    BY SenderNumbers, ReceiverNumbers DEF Fine
  <2>2. n2 \in Nat /\ w2 \in Nat /\ e2 \in BOOLEAN /\ g2 \in Nat
    BY SenderNumbers, ReceiverNumbers DEF Fine
  <2>3. n3 \in Nat /\ w3 \in Nat /\ e3 \in BOOLEAN /\ g3 \in Nat
    BY SenderNumbers, ReceiverNumbers DEF Fine
  <2> QED BY <2>1, <2>2, <2>3, Zenon
<1>2. /\ g1 <= g2 /\ n1 <= n2 /\ ((e2 = e1 /\ w2 = w1) \/ (e1 = FALSE /\ w1 <= w2))
      /\ g2 <= g3 /\ n2 <= n3 /\ ((e3 = e2 /\ w3 = w2) \/ (e2 = FALSE /\ w2 <= w3))
  BY DEF Later
<1> HIDE DEF n1, n2, n3, g1, g2, g3, w1, w2, w3, e1, e2, e3
<1>3. g1 <= g3 /\ n1 <= n3 /\ ((e3 = e1 /\ w3 = w1) \/ (e1 = FALSE /\ w1 <= w3))
  BY <1>1, <1>2
<1> QED BY <1>3 DEF Later, n1, n2, n3, g1, g2, g3, w1, w2, w3, e1, e2, e3

\* Bytes that have been read out of the stream stay read.
LEMMA ReadOn ==
    ASSUME NEW total \in Lengths, NEW p \in Peer, NEW s, NEW v, Fine(s, v, p, total), NEW t, NEW x,
           Fine(t, x, p, total),
           Later(s, v, t, x)
    PROVE  s.stream.bytes_read <= t.stream.bytes_read
<1> DEFINE n1 == s.next_seqno  n2 == t.next_seqno
           w1 == s.stream.bytes_written  w2 == t.stream.bytes_written
           r1 == s.stream.bytes_read  r2 == t.stream.bytes_read
           z1 == s.stream.buffer_size  z2 == t.stream.buffer_size
<1>1. /\ n1 \in Nat /\ w1 \in Nat /\ r1 \in Nat /\ z1 \in Nat /\ w1 = r1 + z1
      /\ (n1 > 0 => n1 > r1) /\ (n1 = 0 => r1 = 0)
  BY SenderNumbers DEF Fine
<1>2. /\ n2 \in Nat /\ w2 \in Nat /\ r2 \in Nat
      /\ (n2 <= r2 + 1 \/ r2 = w2)
  BY SenderNumbers DEF Fine
<1>3. n1 <= n2 /\ (w2 = w1 \/ w1 <= w2)
  BY DEF Later
<1> HIDE DEF n1, n2, w1, w2, r1, r2, z1, z2
<1>4. r1 <= r2
  BY <1>1, <1>2, <1>3
<1> QED BY <1>4 DEF r1, r2

\* What fits to an endpoint still fits later.
LEMMA HeardLater ==
    ASSUME NEW total \in Lengths, NEW p \in Peer, NEW s, NEW v, Fine(s, v, p, total), NEW t, NEW x,
           Fine(t, x, p, total),
           Later(s, v, t, x), NEW s2, NEW v2, s2.abs_ackno \in Nat,
           Accepted(v2.reassembler) \subseteq Nat, Heard(s2, v2, s, v)
    PROVE  Heard(s2, v2, t, x)
<1>1. s2.abs_ackno <= Got(x)
  <2>1. Got(v) \in Nat /\ Got(x) \in Nat
    BY ReceiverNumbers DEF Fine
  <2>2. s2.abs_ackno <= Got(v) /\ Got(v) <= Got(x)
    BY Zenon DEF Heard, Later
  <2> QED BY <2>1, <2>2
<1>2. s.next_seqno \in Nat /\ t.next_seqno \in Nat /\ s.next_seqno <= t.next_seqno
  BY SenderNumbers DEF Later, Fine
<1>3. v2.syn = TRUE => t.next_seqno > 0
  <2>1. v2.syn = TRUE => s.next_seqno > 0
    BY Zenon DEF Heard
  <2> QED BY <1>2, <2>1
<1>4. ASSUME NEW i \in Accepted(v2.reassembler) PROVE i < t.stream.bytes_read
  <2>1. i \in Nat /\ i < s.stream.bytes_read
    BY Zenon DEF Heard
  <2>2. /\ s.stream.bytes_read \in Nat /\ t.stream.bytes_read \in Nat
        /\ s.stream.bytes_read <= t.stream.bytes_read
    BY SenderNumbers, ReadOn DEF Fine
  <2> QED BY <2>1, <2>2
<1>5. ASSUME v2.reassembler.eof_appear_sign = TRUE
      PROVE  t.stream.end_input = TRUE /\ t.next_seqno = t.stream.bytes_written + 2
  <2>1. s.stream.end_input = TRUE /\ s.next_seqno = s.stream.bytes_written + 2
    BY <1>5, Zenon DEF Heard
  <2>2. t.stream.end_input = s.stream.end_input /\ t.stream.bytes_written = s.stream.bytes_written
    BY <2>1 DEF Later
  <2>3. t.stream.bytes_written \in Nat /\ t.next_seqno <= t.stream.bytes_written + 2
    BY SenderNumbers DEF Fine
  <2> QED BY <1>2, <2>1, <2>2, <2>3
<1> QED BY <1>1, <1>3, <1>4, <1>5, Zenon DEF Heard

\* What an endpoint may have sent before, it may have sent later.
LEMMA ValidLater ==
    ASSUME NEW total \in Lengths, NEW p \in Peer, NEW s, NEW v, Fine(s, v, p, total), NEW t, NEW x,
           Fine(t, x, p, total),
           Later(s, v, t, x), NEW seg, Valid(seg, s, v, p)
    PROVE  Valid(seg, t, x, p)
<1> SUFFICES ASSUME seg.rst = FALSE PROVE SentBy(seg, t, p) /\ AcksFor(seg, x, p)
  BY Zenon DEF Valid
<1>1. SentBy(seg, s, p) /\ AcksFor(seg, v, p) /\ seg \in Wired
  BY Zenon DEF Valid
<1>2. SentBy(seg, t, p)
  <2> DEFINE n1 == s.next_seqno  n2 == t.next_seqno
             w1 == s.stream.bytes_written  w2 == t.stream.bytes_written
             l == Len(seg.payload)  m == length_in_sequence_space(seg)
  <2>1. PICK a \in Nat : /\ Placed(seg, a, w1, s.stream.end_input, ISN[p])
                         /\ a + m <= n1
    BY <1>1, Zenon DEF SentBy
  <2>2. n1 \in Nat /\ n2 \in Nat /\ n1 <= n2 /\ w1 \in Nat /\ w2 \in Nat
    BY SenderNumbers DEF Fine, Later
  <2>3. l \in Nat /\ m \in Nat
    BY <1>1, WiredFields
  <2> HIDE DEF n1, n2, m
  <2>4. a + m <= n2
    BY <2>1, <2>2, <2>3
  <2>5. Placed(seg, a, w2, t.stream.end_input, ISN[p])
    <3>1. CASE t.stream.end_input = s.stream.end_input /\ w2 = w1
      BY <2>1, <3>1, Zenon
    <3>2. CASE s.stream.end_input = FALSE /\ w1 <= w2
      <4> DEFINE e == t.stream.end_input
      <4>1. ~seg.fin
        BY <2>1, <3>2 DEF Placed
      <4>2. l > 0 => a > 0 /\ a + l <= w1 + 1
        BY <2>1, Zenon DEF Placed
      <4> HIDE DEF w1, w2, l, e
      <4>3. l > 0 => a > 0 /\ a + l <= w2 + 1
        BY <2>2, <2>3, <3>2, <4>2
      <4>4. /\ seg.seqno = wrap(a, ISN[p]) /\ seg.payload = Bytes(a - 1, Len(seg.payload))
            /\ seg.syn => a = 0
        BY <2>1, Zenon DEF Placed
      <4>5. Placed(seg, a, w2, e, ISN[p])
        BY <4>1, <4>3, <4>4, Zenon DEF Placed, l
      <4> QED BY <4>5 DEF e
    <3> QED BY <3>1, <3>2 DEF Later
  <2> QED BY <2>4, <2>5, Zenon DEF SentBy, n2, m
<1>3. AcksFor(seg, x, p)
  <2> SUFFICES ASSUME seg.ack = TRUE
               PROVE  \E b \in Nat : b <= Got(x) /\ seg.ackno = wrap(b, ISN[Other(p)])
    BY DEF AcksFor
  <2>1. PICK b \in Nat : b <= Got(v) /\ seg.ackno = wrap(b, ISN[Other(p)])
    BY <1>1 DEF AcksFor
  <2>2. Got(v) \in Nat /\ Got(x) \in Nat /\ Got(v) <= Got(x)
    BY ReceiverNumbers DEF Fine, Later
  <2>3. b <= Got(x)
    BY <2>1, <2>2
  <2> QED BY <2>1, <2>3, Zenon
<1> QED BY <1>2, <1>3

-----------------------------------------------------------------------------

\* The endpoint p, which was o before the call, has the sender s and the receiver
\* v by now, and fits to d, the other endpoint.
Ahead(s, v, o, d, p, total) ==
    /\ Fine(s, v, p, total)
    /\ Later(o.sender, o.receiver, s, v)
    /\ Heard(s, v, d.sender, d.receiver)

\* What a method of the sender makes of s without new bytes; b bounds the
\* acknowledgments it may have seen.
Onward(s, t, b, p) ==
    /\ Good(t, s.stream.bytes_written, ISN[p], Capacity)
    /\ NotStalled(t, s.stream.bytes_written)
    /\ t.window_size <= Capacity
    /\ t.stream.end_input = s.stream.end_input
    /\ s.next_seqno <= t.next_seqno
    /\ t.abs_ackno <= b

\* A method of the sender that takes no new bytes.
LEMMA SenderMoves ==
    ASSUME NEW total \in Lengths, NEW p \in Peer, NEW o, Fine(o.sender, o.receiver, p, total),
           NEW d,
           NEW s, NEW v, Ahead(s, v, o, d, p, total), NEW t, Onward(s, t, Got(d.receiver), p)
    PROVE  Ahead(t, v, o, d, p, total)
<1> DEFINE w == s.stream.bytes_written
<1>1. /\ SenderFine(s, p, total) /\ ReceiverFine(v, p, total) /\ Fine(s, v, p, total)
      /\ Later(o.sender, o.receiver, s, v) /\ Heard(s, v, d.sender, d.receiver)
  BY Zenon DEF Ahead, Fine
<1>2. /\ Good(t, w, ISN[p], Capacity) /\ NotStalled(t, w) /\ t.window_size <= Capacity
      /\ t.stream.end_input = s.stream.end_input /\ s.next_seqno <= t.next_seqno
      /\ t.abs_ackno <= Got(d.receiver)
  BY Zenon DEF Onward
<1>3. t.stream.bytes_written = w /\ t.next_seqno \in Nat
  BY <1>2, Zenon DEF Good, Core, Sending
<1>4. SenderFine(t, p, total)
  <2>1. w <= total[p] /\ (s.stream.end_input = TRUE => w = total[p] /\ s.next_seqno > 0)
    BY <1>1, Zenon DEF SenderFine
  <2>2. s.next_seqno \in Nat
    BY <1>1, SenderNumbers
  <2>3. s.next_seqno > 0 => t.next_seqno > 0
    BY <1>2, <1>3, <2>2
  <2> QED BY <1>2, <1>3, <2>1, <2>3, Zenon DEF SenderFine
<1>5. Fine(t, v, p, total)
  BY <1>1, <1>4, Zenon DEF Fine
<1>6. Later(s, v, t, v)
  <2>1. Got(v) \in Nat
    BY <1>1, ReceiverNumbers
  <2>2. Got(v) <= Got(v)
    BY <2>1
  <2> QED BY <1>2, <1>3, <2>2, Zenon DEF Later
<1>7. Later(o.sender, o.receiver, t, v)
  BY <1>1, <1>5, <1>6, LaterStill, Zenon
<1>8. Heard(t, v, d.sender, d.receiver)
  BY <1>1, <1>2, Zenon DEF Heard
<1> QED BY <1>5, <1>7, <1>8, Zenon DEF Ahead

\* A change of the receiver.
LEMMA ReceiverMoves ==
    ASSUME NEW total \in Lengths, NEW p \in Peer, NEW o, Fine(o.sender, o.receiver, p, total),
           NEW d,
           NEW s, NEW v, Ahead(s, v, o, d, p, total), NEW x, ReceiverFine(x, p, total),
           Got(v) <= Got(x),
           Heard(s, x, d.sender, d.receiver)
    PROVE  Ahead(s, x, o, d, p, total)
<1>1. /\ SenderFine(s, p, total) /\ Fine(s, v, p, total) /\ Later(o.sender, o.receiver, s, v)
  BY Zenon DEF Ahead, Fine
<1>2. Fine(s, x, p, total)
  BY <1>1, Zenon DEF Fine
<1>3. Later(s, v, s, x)
  <2>1. s.next_seqno \in Nat
    BY <1>1, SenderNumbers
  <2>2. s.next_seqno <= s.next_seqno
    BY <2>1
  <2> QED BY <2>2, Zenon DEF Later
<1>4. Later(o.sender, o.receiver, s, x)
  BY <1>1, <1>2, <1>3, LaterStill, Zenon
<1> QED BY <1>2, <1>4, Zenon DEF Ahead

\* What the lemmas about the sender need of an endpoint.
LEMMA AheadSender ==
    ASSUME NEW total \in Lengths, NEW p \in Peer, NEW o, NEW d, NEW s, NEW v, Ahead(s, v, o, d, p,
           total)
    PROVE  /\ ISN[p] \in SeqNo /\ Capacity \in Nat
           /\ Good(s, s.stream.bytes_written, ISN[p], Capacity)
           /\ NotStalled(s, s.stream.bytes_written)
           /\ s.window_size <= Capacity /\ s.abs_ackno <= Got(d.receiver)
           /\ s.next_seqno <= s.next_seqno
<1>1. ISN[p] \in SeqNo /\ Capacity \in Nat
  BY PairConstants
<1>2. SenderFine(s, p, total) /\ s.abs_ackno <= Got(d.receiver)
  BY Zenon DEF Ahead, Fine, Heard
<1>3. s.next_seqno <= s.next_seqno
  <2>1. s.next_seqno \in Nat
    BY <1>2, SenderNumbers
  <2> QED BY <2>1
<1> QED BY <1>1, <1>2, <1>3, Zenon DEF SenderFine

\* TCPSender::fill_window
LEMMA AheadFill ==
    ASSUME NEW total \in Lengths, NEW p \in Peer, NEW o, Fine(o.sender, o.receiver, p, total),
           NEW d,
           NEW s, NEW v, Ahead(s, v, o, d, p, total)
    PROVE  /\ Ahead(fill_window(s), v, o, d, p, total) /\ fill_window(s).next_seqno > 0
           /\ SameFlags(s, fill_window(s))
<1> DEFINE t == fill_window(s)  w == s.stream.bytes_written
<1>1. /\ ISN[p] \in SeqNo /\ Capacity \in Nat /\ Good(s, w, ISN[p], Capacity)
      /\ s.window_size <= Capacity /\ s.abs_ackno <= Got(d.receiver)
  BY AheadSender, Zenon
<1>2. Stepped(s, t, w, ISN[p], Capacity) /\ Filled(s, t) /\ t.next_seqno > 0
  BY <1>1, FillStep, Zenon
<1> HIDE DEF t
<1>3. Onward(s, t, Got(d.receiver), p)
  BY <1>1, <1>2, Zenon DEF Onward, Stepped, Filled, SameFlags
<1>4. Ahead(t, v, o, d, p, total)
  BY <1>3, SenderMoves, Zenon
<1> QED BY <1>2, <1>4, Zenon DEF t, Filled

\* The owner takes the segments.
LEMMA AheadDrain ==
    ASSUME NEW total \in Lengths, NEW p \in Peer, NEW o, Fine(o.sender, o.receiver, p, total),
           NEW d,
           NEW s, NEW v, Ahead(s, v, o, d, p, total)
    PROVE  /\ Ahead(Drain(s), v, o, d, p, total) /\ SameButOut(s, Drain(s))
           /\ Drain(s).segments_out = <<>>
<1> DEFINE t == Drain(s)  w == s.stream.bytes_written
<1>1. /\ ISN[p] \in SeqNo /\ Capacity \in Nat /\ Good(s, w, ISN[p], Capacity) /\ NotStalled(s, w)
      /\ s.window_size <= Capacity /\ s.abs_ackno <= Got(d.receiver) /\ s.next_seqno <= s.next_seqno
  BY AheadSender, Zenon
<1>2. Good(t, w, ISN[p], Capacity) /\ SameButOut(s, t) /\ t.segments_out = <<>> /\ NotStalled(t, w)
  <2> HIDE DEF w
  <2>1. /\ Good(Drain(s), w, ISN[p], Capacity) /\ SameButOut(s, Drain(s)) /\ Drain(s).segments_out = <<>>
        /\ NotStalled(s, w) => NotStalled(Drain(s), w)
    BY <1>1, DrainGood
  <2> QED BY <1>1, <2>1
<1> HIDE DEF t
<1>3. Onward(s, t, Got(d.receiver), p)
  BY <1>1, <1>2, Zenon DEF Onward, SameButOut
<1>4. Ahead(t, v, o, d, p, total)
  BY <1>3, SenderMoves, Zenon
<1> QED BY <1>2, <1>4, Zenon DEF t

\* TCPSender::send_empty_segment
LEMMA AheadEmpty ==
    ASSUME NEW total \in Lengths, NEW p \in Peer, NEW o, Fine(o.sender, o.receiver, p, total),
           NEW d,
           NEW s, NEW v, Ahead(s, v, o, d, p, total)
    PROVE  /\ Ahead(send_empty_segment(s), v, o, d, p, total) /\ SameButOut(s, send_empty_segment(s))
           /\ send_empty_segment(s).segments_out # <<>>
<1> DEFINE t == send_empty_segment(s)  w == s.stream.bytes_written
<1>1. /\ ISN[p] \in SeqNo /\ Capacity \in Nat /\ Good(s, w, ISN[p], Capacity) /\ NotStalled(s, w)
      /\ s.window_size <= Capacity /\ s.abs_ackno <= Got(d.receiver) /\ s.next_seqno <= s.next_seqno
  BY AheadSender, Zenon
<1>2. Stepped(s, t, w, ISN[p], Capacity) /\ SameButOut(s, t) /\ t.segments_out # <<>>
  BY <1>1, EmptyStep, Zenon
<1> HIDE DEF t
<1>3. Onward(s, t, Got(d.receiver), p)
  BY <1>1, <1>2, Zenon DEF Onward, SameButOut, Stepped
<1>4. Ahead(t, v, o, d, p, total)
  BY <1>3, SenderMoves, Zenon
<1> QED BY <1>2, <1>4, Zenon DEF t

\* TCPSender::tick
LEMMA AheadTick ==
    ASSUME NEW total \in Lengths, NEW p \in Peer, NEW o, Fine(o.sender, o.receiver, p, total),
           NEW d,
           NEW s, NEW v, Ahead(s, v, o, d, p, total), s.segments_out = <<>>, NEW ms \in Nat
    PROVE  Ahead(sender_tick(s, ms), v, o, d, p, total) /\ SameButClock(s, sender_tick(s, ms))
<1> DEFINE t == sender_tick(s, ms)  w == s.stream.bytes_written
<1>1. /\ ISN[p] \in SeqNo /\ Capacity \in Nat /\ Good(s, w, ISN[p], Capacity) /\ NotStalled(s, w)
      /\ s.window_size <= Capacity /\ s.abs_ackno <= Got(d.receiver) /\ s.next_seqno <= s.next_seqno
  BY AheadSender, Zenon
<1>2. Stepped(s, t, w, ISN[p], Capacity) /\ SameButClock(s, t)
  BY <1>1, TickStep, Zenon
<1> HIDE DEF t
<1>3. Onward(s, t, Got(d.receiver), p)
  BY <1>1, <1>2, Zenon DEF Onward, SameButClock, Stepped
<1>4. Ahead(t, v, o, d, p, total)
  BY <1>3, SenderMoves, Zenon
<1> QED BY <1>2, <1>4, Zenon DEF t

\* The sender whose stream has broken.
Broken(s) == Restreamed(s, set_error(s.stream))

\* ByteStream::set_error of the outgoing stream
LEMMA AheadBroken ==
    ASSUME NEW total \in Lengths, NEW p \in Peer, NEW o, Fine(o.sender, o.receiver, p, total),
           NEW d,
           NEW s, NEW v, Ahead(s, v, o, d, p, total)
    PROVE  /\ Ahead(Broken(s), v, o, d, p, total) /\ SameButBytes(s, Broken(s))
           /\ Broken(s).stream = set_error(s.stream) /\ Broken(s).stream.error = TRUE
<1> DEFINE t == Broken(s)  w == s.stream.bytes_written
<1>1. /\ ISN[p] \in SeqNo /\ Capacity \in Nat /\ Good(s, w, ISN[p], Capacity) /\ NotStalled(s, w)
      /\ s.window_size <= Capacity /\ s.abs_ackno <= Got(d.receiver) /\ s.next_seqno <= s.next_seqno
  BY AheadSender, Zenon
<1>2. Good(t, w, ISN[p], Capacity) /\ SameButBytes(s, t) /\ t.stream = set_error(s.stream)
  BY <1>1, StreamBroken DEF Broken
<1> HIDE DEF t
<1>3. InOrder(s.stream, Capacity)
  BY <1>1, Zenon DEF Good, Sending
<1>4. /\ t.stream.error = TRUE /\ t.stream.end_input = s.stream.end_input
      /\ t.stream.buffer_size = s.stream.buffer_size
  <2> DEFINE q == s.stream
  <2>1. InOrder(q, Capacity) /\ Capacity \in Nat /\ t.stream = set_error(q)
    BY <1>1, <1>2, <1>3
  <2> HIDE DEF q
  <2>2. /\ set_error(q).error = TRUE /\ set_error(q).end_input = q.end_input
        /\ set_error(q).buffer_size = q.buffer_size
    BY <2>1, ErrorInOrder
  <2> QED BY <2>1, <2>2 DEF q
<1>5. NotStalled(t, w)
  BY <1>1, <1>2, <1>4, Zenon DEF NotStalled, SameButBytes
<1>6. Onward(s, t, Got(d.receiver), p)
  BY <1>1, <1>2, <1>4, <1>5, Zenon DEF Onward, SameButBytes
<1>7. Ahead(t, v, o, d, p, total)
  BY <1>6, SenderMoves, Zenon
<1> QED BY <1>2, <1>4, <1>7, Zenon DEF t

\* What bytes_in_flight tells about the acknowledgment number.
LEMMA FlightCounts ==
    ASSUME NEW total \in Lengths, NEW p \in Peer, NEW s, SenderFine(s, p, total)
    PROVE  /\ s.bytes_in_flight \in Nat
           /\ s.bytes_in_flight = 0 => s.abs_ackno = s.next_seqno
           /\ s.abs_ackno = 0 => s.bytes_in_flight = s.next_seqno
           /\ s.abs_ackno < s.next_seqno => s.bytes_in_flight > 0
           /\ s.segments_track = <<>> => s.abs_ackno = s.next_seqno /\ s.bytes_in_flight = 0
           /\ s.abs_ackno = s.next_seqno => s.bytes_in_flight = 0
<1> DEFINE next == s.next_seqno  ack == s.abs_ackno  fl == s.bytes_in_flight
           track == s.segments_track  w == s.stream.bytes_written  e == s.stream.end_input
<1>1. /\ next \in Nat /\ ack \in Nat /\ ack <= next
      /\ Flight(track, next, ack, fl, w, e, ISN[p])
  BY Zenon DEF SenderFine, Good, Core
<1>2. PICK st : /\ Chain(track, st, w, e, ISN[p]) /\ st[1] <= ack /\ fl = next - st[1]
  BY <1>1, Zenon DEF Flight
<1>3. st[1] \in Nat
  <2>1. Len(track) \in Nat /\ st \in [1 .. Len(track) + 1 -> Nat]
    BY <1>2 DEF Chain
  <2>2. 1 \in 1 .. Len(track) + 1
    BY <2>1
  <2> QED BY <2>1, <2>2, Zenon
<1>4. track = <<>> => ack = next /\ fl = 0
  BY <1>1, FlightEmpty, PairConstants, Zenon
<1> HIDE DEF next, ack, fl
<1>5. fl \in Nat /\ (fl = 0 => ack = next) /\ (ack = 0 => fl = next) /\ (ack < next => fl > 0)
  BY <1>1, <1>2, <1>3
<1>6. ack = next => track = <<>>
  <2>1. /\ Len(track) \in Nat /\ track \in Seq(Segs)
    BY <1>2 DEF Chain
  <2> SUFFICES ASSUME ack = next, Len(track) > 0 PROVE FALSE
    BY <2>1
  <2>2. PICK tt : /\ Chain(track, tt, w, e, ISN[p]) /\ tt[Len(track) + 1] = next
                  /\ (Len(track) > 0 => ack < tt[2])
    BY <1>1, Zenon DEF Flight
  <2>3. tt[2] <= tt[Len(track) + 1] /\ tt[2] \in Nat
    <3>1. /\ tt \in [1 .. Len(track) + 1 -> Nat] 
          /\ \A i, j \in 1 .. Len(track) + 1 : i < j => tt[i] < tt[j]
      BY <2>2, Zenon DEF Chain
    <3>2. 2 \in 1 .. Len(track) + 1 /\ Len(track) + 1 \in 1 .. Len(track) + 1
      BY <2>1
    <3> QED BY <2>1, <3>1, <3>2
  <2> QED BY <1>1, <2>1, <2>2, <2>3
<1> QED BY <1>4, <1>5, <1>6 DEF next, ack, fl, track

\* An acknowledgment that arrives is near the last one.
LEMMA AcksNear ==
    ASSUME NEW total \in Lengths, NEW p \in Peer, NEW o, NEW d, NEW s, NEW v, Ahead(s, v, o, d, p,
           total),
           ReceiverFine(d.receiver, Other(p), total), NEW b \in Nat, b <= Got(d.receiver)
    PROVE  b - s.abs_ackno < HalfRange /\ s.abs_ackno - b < HalfRange /\ s.abs_ackno \in Nat
<1> DEFINE g == Got(d.receiver)  a == s.abs_ackno  n == total[p]
<1>1. Other(p) \in Peer /\ Other(Other(p)) = p
  BY TwoPeers
<1>2. g \in Nat /\ g <= n + 2
  BY <1>1, ReceiverNumbers
<1>3. a <= g /\ a \in Nat
  <2>1. a <= g /\ SenderFine(s, p, total)
    BY Zenon DEF Ahead, Heard, Fine
  <2> QED BY <2>1, SenderNumbers
<1>4. n \in Nat /\ n + 2 < HalfRange /\ HalfRange \in Nat
  BY PairConstants, HalfRangeAssumption
<1> HIDE DEF g, a, n
<1>5. b <= g
  BY DEF g
<1>6. b - a < HalfRange /\ a - b < HalfRange
  BY <1>2, <1>3, <1>4, <1>5
<1> QED BY <1>3, <1>6 DEF a

\* TCPSender::ack_received
LEMMA AheadAck ==
    ASSUME NEW total \in Lengths, NEW p \in Peer, NEW o, Fine(o.sender, o.receiver, p, total),
           NEW d,
           ReceiverFine(d.receiver, Other(p), total), NEW s, NEW v, Ahead(s, v, o, d, p, total),
           s.segments_out = <<>>, NEW b \in Nat, b <= Got(d.receiver),
           NEW win \in Nat, win <= Capacity
    PROVE  /\ Ahead(ack_received(s, wrap(b, ISN[p]), win), v, o, d, p, total)
           /\ SameFlags(s, ack_received(s, wrap(b, ISN[p]), win))
<1> DEFINE t == ack_received(s, wrap(b, ISN[p]), win)  w == s.stream.bytes_written
<1>1. /\ ISN[p] \in SeqNo /\ Capacity \in Nat /\ Good(s, w, ISN[p], Capacity) /\ NotStalled(s, w)
      /\ s.window_size <= Capacity /\ s.abs_ackno <= Got(d.receiver) /\ s.next_seqno <= s.next_seqno
  BY AheadSender, Zenon
<1>2. b - s.abs_ackno < HalfRange /\ s.abs_ackno - b < HalfRange
  BY AcksNear, Zenon
<1>3. win \in 0 .. WindowLimit
  BY PairConstants, WindowLimitType
<1>4. Stepped(s, t, w, ISN[p], Capacity) /\ Heeded(s, t, b, win)
  BY <1>1, <1>2, <1>3, AckStep, Zenon
<1> HIDE DEF t
<1>5. t.abs_ackno <= Got(d.receiver) /\ t.window_size <= Capacity
  <2>1. t.abs_ackno \in {s.abs_ackno, b} /\ t.window_size \in {s.window_size, win}
    BY <1>4, Zenon DEF Heeded
  <2> QED BY <1>1, <2>1
<1>6. Onward(s, t, Got(d.receiver), p)
  BY <1>4, <1>5, Zenon DEF Onward, Stepped, Heeded, SameFlags
<1>7. Ahead(t, v, o, d, p, total)
  BY <1>6, SenderMoves, Zenon
<1> QED BY <1>4, <1>7, Zenon DEF t, Heeded

\* What a method of the sender makes of s when it takes new bytes or their end.
Extended(s, t, b, p, total) ==
    /\ SenderFine(t, p, total) /\ s.stream.end_input = FALSE
    /\ s.stream.bytes_written <= t.stream.bytes_written
    /\ s.next_seqno <= t.next_seqno /\ t.abs_ackno <= b

\* A method of the sender that takes new bytes or their end.
LEMMA SenderGrows ==
    ASSUME NEW total \in Lengths, NEW p \in Peer, NEW o, Fine(o.sender, o.receiver, p, total),
           NEW d,
           NEW s, NEW v, Ahead(s, v, o, d, p, total), NEW t, Extended(s, t, Got(d.receiver), p,
           total)
    PROVE  Ahead(t, v, o, d, p, total)
<1>1. /\ ReceiverFine(v, p, total) /\ Fine(s, v, p, total)
      /\ Later(o.sender, o.receiver, s, v) /\ Heard(s, v, d.sender, d.receiver)
  BY Zenon DEF Ahead, Fine
<1>2. Fine(t, v, p, total)
  BY <1>1, Zenon DEF Fine, Extended
<1>3. Later(s, v, t, v)
  <2>1. Got(v) \in Nat
    BY <1>1, ReceiverNumbers
  <2>2. Got(v) <= Got(v)
    BY <2>1
  <2> QED BY <2>2, Zenon DEF Later, Extended
<1>4. Later(o.sender, o.receiver, t, v)
  BY <1>1, <1>2, <1>3, LaterStill, Zenon
<1>5. Heard(t, v, d.sender, d.receiver)
  BY <1>1, Zenon DEF Heard, Extended
<1> QED BY <1>2, <1>4, <1>5, Zenon DEF Ahead

\* fill_window after a write of len bytes.
WriteAndFill(s, len) == fill_window(Given(s, Bytes(s.stream.bytes_written, len)))

\* TCPConnection::write, as far as the sender goes
LEMMA AheadWrite ==
    ASSUME NEW total \in Lengths, NEW p \in Peer, NEW o, Fine(o.sender, o.receiver, p, total),
           NEW d,
           NEW s, NEW v, Ahead(s, v, o, d, p, total), s.segments_out = <<>>,
           s.stream.end_input = FALSE,
           NEW len \in Nat, s.stream.bytes_written + len <= total[p]
    PROVE  /\ Ahead(WriteAndFill(s, len), v, o, d, p, total)
           /\ WriteAndFill(s, len).next_seqno > 0
           /\ SameFlags(s, WriteAndFill(s, len))
<1> DEFINE w == s.stream.bytes_written  q == Bytes(w, len)  u == Given(s, q)
           c == write_count(s.stream, q)  t == fill_window(u)
<1>1. /\ ISN[p] \in SeqNo /\ Capacity \in Nat /\ Good(s, w, ISN[p], Capacity) /\ NotStalled(s, w)
      /\ s.window_size <= Capacity /\ s.abs_ackno <= Got(d.receiver) /\ s.next_seqno <= s.next_seqno
  BY AheadSender, Zenon
<1>2. TookData(s, u, q, w, ISN[p], Capacity)
  <2> HIDE DEF w
  <2>1. Open(s, w, ISN[p], Capacity)
    BY <1>1, Zenon DEF Open
  <2> QED BY <1>1, <2>1, WriteStep, Zenon
<1>3. InOrder(s.stream, Capacity) /\ w \in Nat
  BY <1>1, Zenon DEF Good, Sending
<1>4. Wrote(s.stream, write(s.stream, q), c, len, Capacity)
  BY <1>1, <1>3, WriteInOrder, Zenon
<1> HIDE DEF u, c, q
<1>5. /\ Good(u, w + c, ISN[p], Capacity) /\ u.next_seqno = s.next_seqno
      /\ u.stream = write(s.stream, q) /\ SameButBytes(s, u)
  BY <1>2, Zenon DEF TookData, c
<1>6. SameFlags(s, u) /\ c \in 0 .. len
  BY <1>4, <1>5, Zenon DEF Wrote, SameFlags
<1>7. Stepped(s, t, w + c, ISN[p], Capacity) /\ Filled(u, t) /\ t.next_seqno > 0
  BY <1>1, <1>5, FillStep, Zenon
<1> HIDE DEF t
<1>8. SameFlags(s, t)
  BY <1>6, <1>7, Zenon DEF Filled, SameFlags
<1>9. Extended(s, t, Got(d.receiver), p, total)
  <2>1. t.stream.bytes_written = w + c
    BY <1>7, Zenon DEF Stepped, Good, Sending
  <2>2. w <= w + c /\ w + c <= total[p]
    BY <1>3, <1>6, PairConstants, SMTT(30)
  <2>3. t.abs_ackno <= Got(d.receiver) /\ t.window_size <= Capacity
    BY <1>1, <1>5, <1>7, Zenon DEF Filled, SameButBytes
  <2>4. t.stream.end_input = FALSE
    BY <1>8, Zenon DEF SameFlags
  <2>5. Good(t, w + c, ISN[p], Capacity) /\ NotStalled(t, w + c) /\ s.next_seqno <= t.next_seqno
    BY <1>7, Zenon DEF Stepped
  <2>6. SenderFine(t, p, total)
    <3>1. ~(t.stream.end_input = TRUE)
      BY <2>4
    <3> QED BY <2>1, <2>2, <2>3, <2>5, <3>1, Zenon DEF SenderFine
  <2> QED BY <2>1, <2>2, <2>3, <2>5, <2>6, Zenon DEF Extended
<1>10. Ahead(t, v, o, d, p, total)
  BY <1>9, SenderGrows, Zenon
<1> QED BY <1>7, <1>8, <1>10, Zenon DEF t, u, q, WriteAndFill

\* fill_window after the end of the stream.
EndAndFill(s) == fill_window([s EXCEPT !.stream = end_input(@)])

\* TCPConnection::end_input_stream, as far as the sender goes: the FIN is
\* outstanding or still to be sent.
LEMMA AheadEnd ==
    ASSUME NEW total \in Lengths, NEW p \in Peer, NEW o, Fine(o.sender, o.receiver, p, total),
           NEW d,
           NEW s, NEW v, Ahead(s, v, o, d, p, total), s.segments_out = <<>>,
           s.stream.end_input = FALSE,
           s.stream.bytes_written = total[p], s.next_seqno > 0
    PROVE  /\ Ahead(EndAndFill(s), v, o, d, p, total)
           /\ EndAndFill(s).next_seqno > 0
           /\ EndAndFill(s).stream.error = s.stream.error
           /\ EndAndFill(s).bytes_in_flight = 0 =>
                  EndAndFill(s).next_seqno < EndAndFill(s).stream.bytes_written + 2
<1> DEFINE w == s.stream.bytes_written  u == [s EXCEPT !.stream = end_input(@)]  t == fill_window(u)
<1>1. /\ ISN[p] \in SeqNo /\ Capacity \in Nat /\ Good(s, w, ISN[p], Capacity) /\ NotStalled(s, w)
      /\ s.window_size <= Capacity /\ s.abs_ackno <= Got(d.receiver) /\ s.next_seqno <= s.next_seqno
  BY AheadSender, Zenon
<1>2. /\ Good(u, w, ISN[p], Capacity) /\ u.next_seqno = s.next_seqno
      /\ u.stream = end_input(s.stream) /\ SameButBytes(s, u)
  <2> HIDE DEF w
  <2> QED BY <1>1, EndStep
<1>3. InOrder(s.stream, Capacity) /\ w \in Nat
  BY <1>1, Zenon DEF Good, Sending
<1> HIDE DEF u
<1>4. u.stream.error = s.stream.error
  <2> DEFINE q == s.stream
  <2>1. InOrder(q, Capacity) /\ Capacity \in Nat /\ u.stream = end_input(q)
    BY <1>1, <1>2, <1>3
  <2> HIDE DEF q
  <2>2. end_input(q).error = q.error
    BY <2>1, EndInOrder
  <2> QED BY <2>1, <2>2 DEF q
<1>5. Stepped(s, t, w, ISN[p], Capacity) /\ Filled(u, t) /\ t.next_seqno > 0
  BY <1>1, <1>2, FillStep, Zenon
<1> HIDE DEF t
<1>6. t.stream.error = s.stream.error
  BY <1>4, <1>5, Zenon DEF Filled, SameFlags
<1>7. t.stream.bytes_written = w /\ s.next_seqno <= t.next_seqno
  BY <1>5, Zenon DEF Stepped, Good, Sending
<1>8. t.abs_ackno = s.abs_ackno /\ t.window_size = s.window_size
  BY <1>2, <1>5, Zenon DEF Filled, SameButBytes
<1>9. SenderFine(t, p, total)
  <2>1. Good(t, w, ISN[p], Capacity) /\ NotStalled(t, w)
    BY <1>5, Zenon DEF Stepped
  <2>2. w <= total[p]
    BY <1>3
  <2> QED BY <1>1, <1>5, <1>7, <1>8, <2>1, <2>2, Zenon DEF SenderFine
<1>10. Extended(s, t, Got(d.receiver), p, total)
  <2>1. w <= t.stream.bytes_written
    BY <1>3, <1>7
  <2> QED BY <1>1, <1>7, <1>8, <1>9, <2>1, Zenon DEF Extended
<1>11. Ahead(t, v, o, d, p, total)
  BY <1>10, SenderGrows, Zenon
<1>12. t.bytes_in_flight = 0 => t.next_seqno < t.stream.bytes_written + 2
  <2>1. /\ t.next_seqno \in Nat /\ s.next_seqno \in Nat /\ s.abs_ackno <= s.next_seqno
        /\ s.abs_ackno \in Nat /\ s.next_seqno <= w + 1 /\ t.next_seqno <= w + 2
    <3>1. SenderFine(s, p, total)
      BY Zenon DEF Ahead, Fine
    <3> QED BY <1>7, <1>9, <3>1, SenderNumbers
  <2>2. t.bytes_in_flight = 0 => t.abs_ackno = t.next_seqno
    BY <1>9, FlightCounts
  <2> SUFFICES ASSUME t.bytes_in_flight = 0 PROVE t.next_seqno < w + 2
    BY <1>7
  <2>3. t.next_seqno = s.abs_ackno
    BY <1>8, <2>2
  <2> HIDE DEF w
  <2> QED BY <1>3, <2>1, <2>3
<1> QED BY <1>5, <1>6, <1>11, <1>12, Zenon DEF t, u, EndAndFill

-----------------------------------------------------------------------------

\* The stream index that a segment with the absolute sequence number a is given.
IndexAt(a, syn) == IF syn THEN a ELSE IF a = 0 THEN SizeSpace - 1 ELSE a - 1

\* A segment the other endpoint has sent goes where it belongs.
LEMMA SegmentArrives ==
    ASSUME NEW total \in Lengths, NEW p \in Peer, NEW v, ReceiverFine(v, p, total), NEW u,
           SenderFine(u, Other(p), total),
           NEW seg \in Wired, NEW a \in Nat,
           Placed(seg, a, u.stream.bytes_written, u.stream.end_input, ISN[Other(p)]),
           a + length_in_sequence_space(seg) <= u.next_seqno,
           v.syn = FALSE => seg.syn = TRUE
    PROVE  /\ Arriving(v, seg, IndexAt(a, seg.syn), Len(seg.payload), seg.fin,
                       total[Other(p)], ISN[Other(p)])
           /\ Len(seg.payload) > 0 =>
                  IndexAt(a, seg.syn) + Len(seg.payload) <= u.stream.bytes_read
           /\ seg.fin = TRUE => u.stream.end_input = TRUE /\ u.next_seqno = u.stream.bytes_written + 2
<1> DEFINE q == Other(p)  L == total[q]  w == u.stream.bytes_written  n == Len(seg.payload)
           x == IndexAt(a, seg.syn)  next == u.next_seqno  sp == length_in_sequence_space(seg)
           rd == u.stream.bytes_read
<1>1. /\ q \in Peer /\ ISN[q] \in SeqNo /\ L \in Nat /\ L + 2 < HalfRange /\ L + 2 < SizeSpace
      /\ SizeSpace \in Nat /\ HalfRange \in Nat
  BY TwoPeers, PairConstants, SizeSpaceAssumption, HalfRangeAssumption
<1>2. /\ next \in Nat /\ w \in Nat /\ rd \in Nat /\ next <= L + 2 /\ next <= w + 2
      /\ (next <= rd + 1 \/ rd = w) /\ w <= L
      /\ (u.stream.end_input = TRUE => w = L)
  <2>1. /\ next \in Nat /\ w \in Nat /\ rd \in Nat /\ next <= L + 2 /\ next <= w + 2
        /\ (next <= rd + 1 \/ rd = w)
    BY <1>1, SenderNumbers
  <2>2. w <= L /\ (u.stream.end_input = TRUE => w = L)
    BY Zenon DEF SenderFine
  <2> QED BY <2>1, <2>2
<1>3. /\ n \in Nat /\ sp \in Nat /\ n <= sp /\ (seg.fin => n < sp) /\ seg.syn \in BOOLEAN
      /\ seg.fin \in BOOLEAN
  BY WiredFields
<1>4. /\ seg.seqno = wrap(a, ISN[q]) /\ seg.payload = Bytes(a - 1, n)
      /\ (seg.syn => a = 0) /\ (seg.fin => u.stream.end_input = TRUE /\ a + n = w + 1)
      /\ (n > 0 => a > 0 /\ a + n <= w + 1)
  BY Zenon DEF Placed
<1>5. a + sp <= next
  OBVIOUS
<1> DEFINE cp == CheckPoint(v)
<1>6. cp \in Nat /\ cp <= L + 1
  <2>1. Sound(v.reassembler, Capacity, L)
    BY ReceiverNumbers
  <2>2. v.reassembler.output.bytes_written \in 0 .. L
    <3> HIDE DEF L
    <3>1. L \in Nat /\ Capacity \in Nat
      BY <1>1, PairConstants
    <3> QED BY <2>1, <3>1, SoundCounts, Zenon
  <2> QED BY <1>1, <2>2 DEF CheckPoint, stream_out
<1>7. unwrap(seg.seqno, ISN[q], cp) = a
  <2> HIDE DEF L, next, sp, cp
  <2>1. a - cp < HalfRange /\ cp - a < HalfRange
    BY <1>1, <1>2, <1>3, <1>5, <1>6, SMTT(30)
  <2> QED BY <1>1, <1>4, <1>6, <2>1, UnwrapInvertsWrap
<1>8. CASE a = 0
  <2>1. n = 0 /\ seg.fin = FALSE /\ x \in Nat /\ x + n < SizeSpace
        /\ StreamIndex(a, seg.syn) = x
    <3>1. n = 0 /\ ~seg.fin
      <4> HIDE DEF n, w
      <4> QED BY <1>2, <1>3, <1>4, <1>8
    <3>2. StreamIndex(a, seg.syn) = x
      BY Zenon DEF StreamIndex, IndexAt
    <3>3. x = 0 \/ x = SizeSpace - 1
      BY <1>8 DEF IndexAt
    <3> HIDE DEF x, n
    <3>4. x \in Nat /\ x + n < SizeSpace
      BY <1>1, <3>1, <3>3, SizeSpaceAssumption
    <3> QED BY <1>3, <3>1, <3>2, <3>4
  <2>2. seg.payload = Bytes(x, n)
    BY <1>4, <2>1 DEF Bytes
  <2>3. v.syn = FALSE => seg.syn = TRUE /\ seg.seqno = ISN[q]
    BY <1>1, <1>4, <1>8, WrapZero
  <2>4. Arriving(v, seg, x, n, seg.fin, L, ISN[q])
    <3> HIDE DEF x, n, L, q
    <3>1. /\ x \in Nat /\ n \in Nat /\ x + n < SizeSpace /\ (n > 0 => x + n <= L)
          /\ (seg.fin => x + n = L)
      BY <1>3, <2>1
    <3>2. StreamIndex(unwrap(seg.seqno, ISN[q], cp), seg.syn) = x
      BY <1>7, <2>1
    <3> QED BY <1>3, <2>2, <2>3, <3>1, <3>2, Zenon DEF Arriving, cp
  <2> QED BY <2>1, <2>4
<1>9. CASE a > 0
  <2>1. /\ seg.syn = FALSE /\ x = a - 1 /\ StreamIndex(a, seg.syn) = x
    BY <1>3, <1>4, <1>9 DEF StreamIndex, IndexAt
  <2>2. /\ x \in Nat /\ x + n < SizeSpace /\ (n > 0 => x + n <= L) /\ (seg.fin => x + n = L)
        /\ (n > 0 => x + n <= rd) /\ (seg.fin => next = w + 2)
    <3> HIDE DEF x, n, L, q, next, w, sp, rd
    <3> QED BY <1>1, <1>2, <1>3, <1>4, <1>5, <1>9, <2>1
  <2>3. Arriving(v, seg, x, n, seg.fin, L, ISN[q])
    <3>1. v.syn # FALSE
      BY <2>1
    <3>2. seg.payload = Bytes(x, n)
      BY <1>4, <2>1
    <3> HIDE DEF x, n, L, q
    <3>3. StreamIndex(unwrap(seg.seqno, ISN[q], CheckPoint(v)), seg.syn) = x
      BY <1>7, <2>1
    <3>4. v.syn = FALSE => seg.syn = TRUE /\ seg.seqno = ISN[q]
      BY <3>1, Zenon
    <3> QED BY <1>3, <2>2, <3>2, <3>3, <3>4, Zenon DEF Arriving
  <2>4. seg.fin = TRUE => u.stream.end_input = TRUE /\ u.next_seqno = u.stream.bytes_written + 2
    BY <1>4, <2>2, Zenon
  <2> QED BY <2>2, <2>3, <2>4, Zenon
<1>10. a = 0 \/ a > 0
  OBVIOUS
<1> QED BY <1>8, <1>9, <1>10

\* What a receiver that fits to the sender u becomes when a segment arrives.
Received(v, x, u, p, total) ==
    /\ ReceiverFine(x, p, total) /\ Got(v) <= Got(x)
    /\ x.syn = TRUE => u.next_seqno > 0
    /\ \A i \in Accepted(x.reassembler) : i < u.stream.bytes_read
    /\ x.reassembler.eof_appear_sign = TRUE =>
           u.stream.end_input = TRUE /\ u.next_seqno = u.stream.bytes_written + 2
    /\ x.reassembler.output.error = v.reassembler.output.error
    /\ v.reassembler.output.end_input = TRUE => x.reassembler.output.end_input = TRUE

\* TCPReceiver::segment_received, of a segment the other endpoint has sent.
LEMMA ReceiveTakes ==
    ASSUME NEW total \in Lengths, NEW p \in Peer, NEW v, ReceiverFine(v, p, total), NEW u,
           SenderFine(u, Other(p), total),
           NEW seg \in Wired, SentBy(seg, u, Other(p)), Received(v, v, u, p, total)
    PROVE  Received(v, receiver_segment_received(v, seg), u, p, total)
<1> DEFINE x == receiver_segment_received(v, seg)
           q == Other(p)  L == total[q]  r == v.reassembler  t == x.reassembler
<1>1. /\ v.syn \in BOOLEAN /\ Sound(r, Capacity, L)
      /\ ReceiverSound(v, Capacity, L, ISN[q])
      /\ (r.eof_appear_sign = TRUE => v.syn = TRUE)
  <2>1. ReceiverSound(v, Capacity, L, ISN[q]) /\ (r.eof_appear_sign = TRUE => v.syn = TRUE)
    BY Zenon DEF ReceiverFine
  <2> QED BY <2>1, Zenon DEF ReceiverSound
<1>2. CASE v.syn = FALSE /\ seg.syn = FALSE
  <2>1. x = v
    BY <1>2 DEF receiver_segment_received
  <2> QED BY <2>1
<1>3. CASE ~(v.syn = FALSE /\ seg.syn = FALSE)
  <2>1. PICK a \in Nat : /\ Placed(seg, a, u.stream.bytes_written, u.stream.end_input, ISN[q])
                         /\ a + length_in_sequence_space(seg) <= u.next_seqno
    BY Zenon DEF SentBy
  <2>2. v.syn = FALSE => seg.syn = TRUE
    BY <1>3, WiredFields
  <2> DEFINE index == IndexAt(a, seg.syn)  len == Len(seg.payload)  fin == seg.fin
  <2>3. /\ Arriving(v, seg, index, len, fin, L, ISN[q])
        /\ (len > 0 => index + len <= u.stream.bytes_read)
        /\ (fin = TRUE => u.stream.end_input = TRUE /\ u.next_seqno = u.stream.bytes_written + 2)
    BY <2>1, <2>2, SegmentArrives, Zenon
  <2>4. index \in Nat /\ len \in Nat /\ fin \in BOOLEAN
    BY <2>3, Zenon DEF Arriving
  <2>5. L \in Nat /\ Capacity \in Nat /\ ISN[q] \in SeqNo /\ q \in Peer
    BY TwoPeers, PairConstants
  <2>6. u.stream.bytes_read \in Nat /\ u.next_seqno \in Nat
    BY <2>5, SenderNumbers
  <2>7. length_in_sequence_space(seg) \in Nat /\ (seg.syn => len < length_in_sequence_space(seg))
    BY WiredFields
  <2>8. u.next_seqno > 0
    <3>1. CASE seg.syn = TRUE
      BY <2>1, <2>4, <2>6, <2>7, <3>1
    <3>2. CASE v.syn = TRUE
      BY <3>2 DEF Received
    <3> QED BY <1>1, <2>2, <3>1, <3>2
  <2> HIDE DEF index, len, fin, L, q
  <2>9. TookIn(v, x, index, len, fin, Capacity, L, ISN[q])
    BY <1>1, <2>3, <2>5, ReceiverPushes, Zenon
  <2> HIDE DEF x
  <2>10. /\ DOMAIN x = {"reassembler", "capacity", "syn", "isn"}
         /\ Pushed(r, t, index, len, fin, Capacity, L)
         /\ x.syn = TRUE /\ x.isn = ISN[q] /\ t.output.error = r.output.error
    BY <2>9, Zenon DEF TookIn
  <2> HIDE DEF r, t
  <2>11. /\ Sound(t, Capacity, L) /\ Accepted(t) = Accepted(r) \cup Fitting(r, index, len, Capacity)
         /\ r.next_pos <= t.next_pos
         /\ (t.eof_appear_sign <=> (r.eof_appear_sign \/ fin))
    BY <2>10, Zenon DEF Pushed
  <2>12. /\ r.eof_appear_sign \in BOOLEAN /\ t.eof_appear_sign \in BOOLEAN
         /\ (r.output.end_input <=> (r.eof_appear_sign /\ r.next_pos = L))
         /\ (t.output.end_input <=> (t.eof_appear_sign /\ t.next_pos = L))
    BY <1>1, <2>11, Zenon DEF Sound, Ends
  <2>13. /\ r.next_pos \in 0 .. L /\ t.next_pos \in 0 .. L
         /\ r.output.bytes_written = r.next_pos /\ t.output.bytes_written = t.next_pos
         /\ r.output.end_input \in BOOLEAN /\ t.output.end_input \in BOOLEAN
    BY <1>1, <2>11, Zenon DEF Sound, Tidy, InOrder
  <2>14. r.output.end_input = TRUE => t.output.end_input = TRUE
    <3>1. r.next_pos = L => t.next_pos = L
      BY <2>5, <2>11, <2>13
    <3>2. ASSUME r.output.end_input = TRUE PROVE t.output.end_input
      BY <2>11, <2>12, <3>1, <3>2, Zenon
    <3> QED BY <2>13, <3>2, Zenon
  <2>15. Got(v) <= Got(x)
    <3>1. Got(x) = 1 + t.next_pos + (IF t.output.end_input THEN 1 ELSE 0)
      BY <2>10, <2>13, Zenon DEF Got, FirstMissing, t
    <3>2. CASE v.syn = TRUE
      <4>1. Got(v) = 1 + r.next_pos + (IF r.output.end_input THEN 1 ELSE 0)
        BY <2>13, <3>2, Zenon DEF Got, FirstMissing, r
      <4> QED BY <2>5, <2>11, <2>13, <2>14, <3>1, <4>1
    <3>3. CASE v.syn = FALSE
      <4>1. Got(v) = 0
        BY <3>3 DEF Got
      <4> QED BY <2>5, <2>13, <3>1, <4>1
    <3> QED BY <1>1, <3>2, <3>3
  <2>16. ReceiverFine(x, p, total)
    BY <2>10, <2>11, Zenon DEF ReceiverFine, ReceiverSound, t, L, q
  <2>17. ASSUME NEW i \in Accepted(t) PROVE i < u.stream.bytes_read
    <3>1. CASE i \in Accepted(r)
      BY <3>1, Zenon DEF Received, r
    <3>2. CASE i \in Fitting(r, index, len, Capacity)
      <4>1. i \in index .. index + len - 1
        BY <3>2 DEF Fitting
      <4> QED BY <2>3, <2>4, <2>6, <4>1
    <3> QED BY <2>11, <3>1, <3>2
  <2>18. t.eof_appear_sign = TRUE =>
             u.stream.end_input = TRUE /\ u.next_seqno = u.stream.bytes_written + 2
    <3>1. r.eof_appear_sign = TRUE =>
              u.stream.end_input = TRUE /\ u.next_seqno = u.stream.bytes_written + 2
      BY Zenon DEF Received, r
    <3> QED BY <2>3, <2>4, <2>11, <2>12, <3>1, Zenon
  <2> QED BY <2>8, <2>10, <2>14, <2>15, <2>16, <2>17, <2>18, Zenon DEF Received, x, r, t
<1> QED BY <1>2, <1>3

\* Nothing that the inbound stream tells its reader is taken back.
Lasting(v, x) ==
    /\ x.reassembler.output.error = v.reassembler.output.error
    /\ v.reassembler.output.end_input = TRUE => x.reassembler.output.end_input = TRUE

\* TCPReceiver::segment_received at an endpoint
LEMMA AheadReceive ==
    ASSUME NEW total \in Lengths, NEW p \in Peer, NEW o, Fine(o.sender, o.receiver, p, total),
           NEW d,
           SenderFine(d.sender, Other(p), total), NEW s, NEW v, Ahead(s, v, o, d, p, total),
           NEW seg, Valid(seg, d.sender, d.receiver, Other(p)), seg.rst = FALSE
    PROVE  /\ Ahead(s, receiver_segment_received(v, seg), o, d, p, total)
           /\ Lasting(v, receiver_segment_received(v, seg))
<1> DEFINE x == receiver_segment_received(v, seg)  u == d.sender
<1>1. seg \in Wired /\ SentBy(seg, u, Other(p))
  BY Zenon DEF Valid
<1>2. ReceiverFine(v, p, total) /\ Heard(s, v, u, d.receiver)
  BY Zenon DEF Ahead, Fine
<1>3. Received(v, v, u, p, total)
  <2>1. Got(v) <= Got(v)
    <3>1. Got(v) \in Nat
      BY <1>2, ReceiverNumbers
    <3> QED BY <3>1
  <2> QED BY <1>2, <2>1, Zenon DEF Received, Heard
<1> HIDE DEF u
<1>4. Received(v, x, u, p, total)
  BY <1>1, <1>2, <1>3, ReceiveTakes, Zenon DEF u
<1> HIDE DEF x
<1>5. Heard(s, x, u, d.receiver)
  BY <1>2, <1>4, Zenon DEF Heard, Received
<1>6. Ahead(s, x, o, d, p, total)
  BY <1>4, <1>5, ReceiverMoves, Zenon DEF Received, u
<1>7. Lasting(v, x)
  BY <1>4, Zenon DEF Received, Lasting
<1> QED BY <1>6, <1>7 DEF x

\* The receiver v whose output has become n.
Reoutput(v, n) == [v EXCEPT !.reassembler = [v.reassembler EXCEPT !.output = n]]

\* The inbound stream o, after the reader has taken bytes or it has broken.
Used(o, n) ==
    /\ InOrder(n, Capacity) /\ n.bytes_written = o.bytes_written /\ n.end_input = o.end_input
    /\ o.bytes_read <= n.bytes_read

\* Reading from the inbound stream, or breaking it, changes nothing for the other
\* endpoint.
LEMMA AheadUsed ==
    ASSUME NEW total \in Lengths, NEW p \in Peer, NEW o, Fine(o.sender, o.receiver, p, total),
           NEW d,
           NEW s, NEW v, Ahead(s, v, o, d, p, total), NEW n, Used(v.reassembler.output, n)
    PROVE  /\ Ahead(s, Reoutput(v, n), o, d, p, total)
           /\ Reoutput(v, n).reassembler.output = n
           /\ Reoutput(v, n).syn = v.syn
<1> DEFINE r == v.reassembler  t == [r EXCEPT !.output = n]  x == Reoutput(v, n)
           L == total[Other(p)]
<1>1. ReceiverFine(v, p, total) /\ Heard(s, v, d.sender, d.receiver)
  BY Zenon DEF Ahead, Fine
<1>2. /\ DOMAIN v = {"reassembler", "capacity", "syn", "isn"} /\ Sound(r, Capacity, L)
      /\ v.syn \in BOOLEAN /\ (v.syn = TRUE => v.isn = ISN[Other(p)])
      /\ (r.eof_appear_sign = TRUE => v.syn = TRUE)
  BY <1>1, Zenon DEF ReceiverFine, ReceiverSound
<1>3. L \in Nat /\ Capacity \in Nat
  BY TwoPeers, PairConstants
<1> HIDE DEF L
<1>4. /\ InOrder(n, Capacity) /\ n.bytes_written = r.output.bytes_written
      /\ n.end_input = r.output.end_input /\ r.output.bytes_read <= n.bytes_read
  BY Zenon DEF Used
<1>5. /\ DOMAIN r = {"output", "capacity", "unassemble_buffer", "next_pos",
                     "unassembled_bytes", "eof_index", "eof_appear_sign"}
      /\ r.capacity = Capacity /\ r.next_pos \in 0 .. L
      /\ r.output.bytes_written = r.next_pos
      /\ Apart(r.unassemble_buffer, r.next_pos + 1, L, r.output.bytes_read + Capacity)
      /\ InPlace(r.unassemble_buffer)
      /\ r.unassembled_bytes = Cardinality(Held(r.unassemble_buffer))
      /\ r.output.bytes_read \in Nat /\ n.bytes_read \in Nat
  BY <1>2, <1>4, Zenon DEF Sound, Tidy, InOrder
<1> HIDE DEF r
<1>6. /\ DOMAIN t = DOMAIN r /\ t.output = n /\ t.next_pos = r.next_pos
      /\ t.unassemble_buffer = r.unassemble_buffer /\ t.unassembled_bytes = r.unassembled_bytes
      /\ t.capacity = r.capacity /\ t.eof_index = r.eof_index
      /\ t.eof_appear_sign = r.eof_appear_sign
  BY <1>5
<1> HIDE DEF t
<1>7. /\ DOMAIN x = DOMAIN v /\ x.reassembler = t /\ x.syn = v.syn /\ x.isn = v.isn
  BY <1>2 DEF Reoutput, t, r
<1> HIDE DEF x
<1>8. Apart(r.unassemble_buffer, r.next_pos + 1, L, n.bytes_read + Capacity)
  BY <1>3, <1>4, <1>5 DEF Apart
<1>9. Tidy(t, t.next_pos + 1, Capacity, L)
  BY <1>4, <1>5, <1>6, <1>8 DEF Tidy
<1>10. Ends(t, L)
  BY <1>2, <1>4, <1>6 DEF Sound, Ends
<1>11. Accepted(t) = Accepted(r)
  BY <1>6 DEF Accepted
<1>12. ReceiverFine(x, p, total)
  BY <1>2, <1>6, <1>7, <1>9, <1>10, Zenon DEF ReceiverFine, ReceiverSound, Sound, L
<1>13. Got(x) = Got(v)
  BY <1>4, <1>6, <1>7, Zenon DEF Got, FirstMissing, r
<1>14. Got(v) <= Got(x)
  <2>1. Got(v) \in Nat
    BY <1>1, ReceiverNumbers
  <2> QED BY <1>13, <2>1
<1>15. Heard(s, x, d.sender, d.receiver)
  BY <1>1, <1>6, <1>7, <1>11, Zenon DEF Heard, r
<1>16. Ahead(s, x, o, d, p, total)
  BY <1>12, <1>14, <1>15, ReceiverMoves, Zenon
<1> QED BY <1>6, <1>7, <1>16, Zenon DEF x

\* ByteStream::set_error of the inbound stream
LEMMA AheadErrorIn ==
    ASSUME NEW total \in Lengths, NEW p \in Peer, NEW o, Fine(o.sender, o.receiver, p, total),
           NEW d,
           NEW s, NEW v, Ahead(s, v, o, d, p, total)
    PROVE  /\ Ahead(s, Reoutput(v, set_error(v.reassembler.output)), o, d, p, total)
           /\ Reoutput(v, set_error(v.reassembler.output)).reassembler.output.error = TRUE
           /\ Reoutput(v, set_error(v.reassembler.output)).syn = v.syn
<1> DEFINE q == v.reassembler.output  n == set_error(q)
<1>1. InOrder(q, Capacity) /\ q.bytes_read \in Nat /\ Capacity \in Nat
  <2>1. Sound(v.reassembler, Capacity, total[Other(p)])
    BY Zenon DEF Ahead, Fine, ReceiverFine, ReceiverSound
  <2> QED BY <2>1, PairConstants DEF Sound, Tidy, InOrder
<1>2. Used(q, n) /\ n.error = TRUE
  <2> HIDE DEF q
  <2>1. /\ InOrder(n, Capacity) /\ n.error = TRUE /\ n.bytes_written = q.bytes_written
        /\ n.bytes_read = q.bytes_read /\ n.end_input = q.end_input
    BY <1>1, ErrorInOrder
  <2> QED BY <1>1, <2>1 DEF Used
<1> HIDE DEF n
<1>3. /\ Ahead(s, Reoutput(v, n), o, d, p, total) /\ Reoutput(v, n).reassembler.output = n
      /\ Reoutput(v, n).syn = v.syn
  BY <1>2, AheadUsed
<1> QED BY <1>2, <1>3, Zenon DEF n

\* TCPSpongeSocket reads from the inbound stream.
LEMMA AheadPop ==
    ASSUME NEW total \in Lengths, NEW p \in Peer, NEW o, Fine(o.sender, o.receiver, p, total),
           NEW d,
           NEW s, NEW v, Ahead(s, v, o, d, p, total), NEW len \in Nat,
           len <= v.reassembler.output.buffer_size
    PROVE  /\ Ahead(s, Reoutput(v, pop_output(v.reassembler.output, len)), o, d, p, total)
           /\ LET n == Reoutput(v, pop_output(v.reassembler.output, len)).reassembler.output
              IN  n.error = v.reassembler.output.error /\ n.end_input = v.reassembler.output.end_input
           /\ Reoutput(v, pop_output(v.reassembler.output, len)).syn = v.syn
<1> DEFINE q == v.reassembler.output  n == pop_output(q, len)
<1>1. InOrder(q, Capacity) /\ q.bytes_read \in Nat /\ Capacity \in Nat /\ q.buffer_size \in 0 .. Capacity
  <2>1. Sound(v.reassembler, Capacity, total[Other(p)])
    BY Zenon DEF Ahead, Fine, ReceiverFine, ReceiverSound
  <2> QED BY <2>1, PairConstants DEF Sound, Tidy, InOrder
<1>2. Used(q, n) /\ n.error = q.error
  <2> HIDE DEF q
  <2>1. len \in 0 .. q.buffer_size
    BY <1>1 DEF q
  <2>2. /\ InOrder(n, Capacity) /\ n.bytes_written = q.bytes_written
        /\ n.bytes_read = q.bytes_read + len /\ n.end_input = q.end_input
    BY <1>1, <2>1, PopInOrder
  <2>3. n.error = q.error
    BY <1>1 DEF InOrder, pop_output
  <2> HIDE DEF n
  <2>4. q.bytes_read <= n.bytes_read
    BY <1>1, <2>2
  <2> QED BY <2>2, <2>3, <2>4, Zenon DEF Used
<1> HIDE DEF n
<1>3. /\ Ahead(s, Reoutput(v, n), o, d, p, total) /\ Reoutput(v, n).reassembler.output = n
      /\ Reoutput(v, n).syn = v.syn
  BY <1>2, AheadUsed
<1> QED BY <1>2, <1>3, Zenon DEF n, Used

-----------------------------------------------------------------------------

\* What the connection does to a segment on its way out.
Marked(seg, g, win, v, p) ==
    /\ g \in Wired /\ g.seqno = seg.seqno /\ g.syn = seg.syn /\ g.fin = seg.fin
    /\ g.payload = seg.payload /\ g.win = win /\ AcksFor(g, v, p)

\* ackno and window are stamped on.
LEMMA StampMarks ==
    ASSUME NEW total \in Lengths, NEW p \in Peer, NEW c, ReceiverFine(c.receiver, p, total),
           NEW seg \in Segs, NEW win \in Nat
    PROVE  /\ Marked(seg, Stamped(c, seg, win), win, c.receiver, p)
           /\ Marked(seg, [Stamped(c, seg, win) EXCEPT !.rst = TRUE], win, c.receiver, p)
           /\ [Stamped(c, seg, win) EXCEPT !.rst = TRUE].rst = TRUE
           /\ Stamped(c, seg, win).rst = FALSE
<1> DEFINE v == c.receiver  b == Got(v)  g == Stamped(c, seg, win)  h == [g EXCEPT !.rst = TRUE]
           A == ackno(v)
<1>1. /\ v.syn \in BOOLEAN /\ b \in Nat /\ b <= b /\ (v.syn = TRUE => v.isn = ISN[Other(p)])
      /\ ISN[Other(p)] \in SeqNo
  <2>1. v.syn \in BOOLEAN /\ b \in Nat /\ (v.syn = TRUE => v.isn = ISN[Other(p)])
    BY ReceiverNumbers
  <2> QED BY <2>1, TwoPeers, PairConstants
<1>2. v.syn = TRUE => A = wrap(b, ISN[Other(p)]) /\ A \in SeqNo
  <2> SUFFICES ASSUME v.syn = TRUE PROVE A = wrap(b, ISN[Other(p)]) /\ A \in SeqNo
    OBVIOUS
  <2>1. FirstMissing(v.reassembler.output)
          = v.reassembler.output.bytes_written + 1
              + (IF v.reassembler.output.end_input THEN 1 ELSE 0)
    <3>1. v.reassembler.output.bytes_written \in Int
      <4>1. Sound(v.reassembler, Capacity, total[Other(p)])
        BY ReceiverNumbers
      <4> QED BY <4>1 DEF Sound, Tidy
    <3> QED BY <3>1 DEF FirstMissing
  <2>2. b = FirstMissing(v.reassembler.output)
    BY DEF Got
  <2>3. A = wrap(b, v.isn)
    BY <2>1, <2>2, Zenon DEF ackno, stream_out
  <2> QED BY <1>1, <2>3, WrapType
<1>3. seg = [seqno |-> seg.seqno, syn |-> seg.syn, fin |-> seg.fin, rst |-> FALSE,
             payload |-> seg.payload, ack |-> FALSE, ackno |-> 0, win |-> 0]
      /\ seg.seqno \in SeqNo /\ seg.syn \in BOOLEAN /\ seg.fin \in BOOLEAN /\ seg.payload \in Seq(Int)
      /\ 0 \in SeqNo
  <2>1. 0 \in SeqNo
    BY SpaceType DEF SeqNo
  <2>2. /\ seg.seqno \in SeqNo /\ seg.syn \in BOOLEAN /\ seg.fin \in BOOLEAN
        /\ seg.payload \in Seq(Int)
    BY SegFields
  <2>3. seg = [seqno |-> seg.seqno, syn |-> seg.syn, fin |-> seg.fin, rst |-> FALSE,
               payload |-> seg.payload, ack |-> FALSE, ackno |-> 0, win |-> 0]
    BY DEF Segs
  <2> QED BY <2>1, <2>2, <2>3, Zenon
<1> DEFINE sq == seg.seqno  sy == seg.syn  fi == seg.fin  pl == seg.payload
<1>6. seg = [seqno |-> sq, syn |-> sy, fin |-> fi, rst |-> FALSE,
             payload |-> pl, ack |-> FALSE, ackno |-> 0, win |-> 0]
  BY <1>3
<1> HIDE DEF A, b, v, sq, sy, fi, pl
<1>4. CASE v.syn = TRUE
  <2>1. g = [seqno |-> sq, syn |-> sy, fin |-> fi, rst |-> FALSE,
             payload |-> pl, ack |-> TRUE, ackno |-> A, win |-> win]
    <3>1. g = [seg EXCEPT !.ack = TRUE, !.ackno = A, !.win = win]
      BY <1>4 DEF Stamped, has_ackno, v, A
    <3> QED BY <1>6, <3>1
  <2> HIDE DEF g
  <2>2. /\ h.seqno = sq /\ h.syn = sy /\ h.fin = fi /\ h.rst = TRUE /\ h.payload = pl
        /\ h.ack = TRUE /\ h.ackno = A /\ h.win = win
    BY <2>1
  <2>8. g \in Wired => h \in Wired
    BY DEF Wired
  <2> HIDE DEF h
  <2>3. g \in Wired /\ h \in Wired
    BY <1>2, <1>3, <1>4, <2>1, <2>8 DEF Wired, sq, sy, fi, pl
  <2>4. g.ackno = A /\ h.ackno = A
    BY <2>1, <2>2
  <2>5. AcksFor(g, v, p) /\ AcksFor(h, v, p)
    BY <1>1, <1>2, <1>4, <2>4 DEF AcksFor, b
  <2>6. Marked(seg, g, win, v, p) /\ Marked(seg, h, win, v, p)
    BY <2>1, <2>2, <2>3, <2>5 DEF Marked, sq, sy, fi, pl
  <2>7. g.rst = FALSE /\ h.rst = TRUE
    BY <2>1, <2>2
  <2> QED BY <2>6, <2>7 DEF g, h, v
<1>5. CASE v.syn = FALSE
  <2>1. g = [seqno |-> sq, syn |-> sy, fin |-> fi, rst |-> FALSE,
             payload |-> pl, ack |-> FALSE, ackno |-> 0, win |-> win]
    <3>1. g = [seg EXCEPT !.win = win]
      BY <1>5 DEF Stamped, has_ackno, v
    <3> QED BY <1>6, <3>1
  <2> HIDE DEF g
  <2>2. /\ h.seqno = sq /\ h.syn = sy /\ h.fin = fi /\ h.rst = TRUE /\ h.payload = pl
        /\ h.ack = FALSE /\ h.ackno = 0 /\ h.win = win
    BY <2>1
  <2>8. g \in Wired => h \in Wired
    BY DEF Wired
  <2> HIDE DEF h
  <2>3. g \in Wired /\ h \in Wired
    BY <1>3, <2>1, <2>8 DEF Wired, sq, sy, fi, pl
  <2>4. g.ack = FALSE /\ h.ack = FALSE
    BY <2>1, <2>2
  <2>5. AcksFor(g, v, p) /\ AcksFor(h, v, p)
    BY <2>4 DEF AcksFor
  <2>6. Marked(seg, g, win, v, p) /\ Marked(seg, h, win, v, p)
    BY <2>1, <2>2, <2>3, <2>5 DEF Marked, sq, sy, fi, pl
  <2>7. g.rst = FALSE /\ h.rst = TRUE
    BY <2>1, <2>2
  <2> QED BY <2>6, <2>7 DEF g, h, v
<1> QED BY <1>1, <1>4, <1>5 DEF v

\* The window a receiver advertises.
LEMMA WindowFits ==
    ASSUME NEW total \in Lengths, NEW p \in Peer, NEW v, ReceiverFine(v, p, total)
    PROVE  /\ LesserOf(window_size(v), MaxWin) \in Nat
           /\ LesserOf(window_size(v), MaxWin) <= Capacity
           /\ window_size(v) % (MaxWin + 1) \in Nat
<1>1. Sound(v.reassembler, Capacity, total[Other(p)])
  BY ReceiverNumbers
<1>2. /\ v.reassembler.output.capacity = Capacity
      /\ v.reassembler.output.buffer_size \in 0 .. Capacity
  BY <1>1, Zenon DEF Sound, Tidy, InOrder
<1>3. Capacity \in Nat /\ MaxWin \in Nat
  BY PairConstants, ConnectionAssumption
<1> DEFINE z == v.reassembler.output.buffer_size  win == window_size(v)
<1>4. win = Capacity - z
  BY <1>2 DEF window_size, remaining_capacity, stream_out
<1> HIDE DEF z, win
<1>5. win \in Nat /\ win <= Capacity
  BY <1>2, <1>3, <1>4 DEF z
<1>6. LesserOf(win, MaxWin) \in Nat /\ LesserOf(win, MaxWin) <= Capacity
  BY <1>3, <1>5 DEF LesserOf
<1>7. win % (MaxWin + 1) \in Nat
  <2>1. MaxWin + 1 \in Nat /\ MaxWin + 1 > 0
    BY <1>3
  <2>2. win \in Int
    BY <1>5
  <2> DEFINE M == MaxWin + 1
  <2> HIDE DEF M
  <2>3. win % M \in 0 .. M - 1
    BY <2>1, <2>2, ModRange DEF M
  <2> QED BY <2>1, <2>3 DEF M
<1> QED BY <1>6, <1>7 DEF win

-----------------------------------------------------------------------------

\* The members of a connection and nothing else.
Members(c) ==
    DOMAIN c = {"receiver", "sender", "segments_out", "linger_after_streams_finish",
                "time_since_last_segment_received", "active"}

\* The segments of out may have been sent.
Queue(out, s, v, p) == out \in Seq(Wired) /\ \A i \in 1 .. Len(out) : Valid(out[i], s, v, p)

\* The connection c of p fits to d, the connection of the other endpoint.
Endpoint(c, d, p, total) ==
    /\ Members(c) /\ Fine(c.sender, c.receiver, p, total)
    /\ Heard(c.sender, c.receiver, d.sender, d.receiver)
    /\ Queue(c.segments_out, c.sender, c.receiver, p)

\* A method makes e of the connection c.
Advance(c, e, d, p, total) ==
    Endpoint(e, d, p, total) /\ Later(c.sender, c.receiver, e.sender, e.receiver)

\* The members that only TCPConnection itself looks at.
SameRest(c, e) ==
    /\ e.linger_after_streams_finish = c.linger_after_streams_finish
    /\ e.active = c.active

\* Before the method has done anything.
LEMMA EndpointAhead ==
    ASSUME NEW total \in Lengths, NEW p \in Peer, NEW c, NEW d, Endpoint(c, d, p, total)
    PROVE  /\ Fine(c.sender, c.receiver, p, total) /\ Ahead(c.sender, c.receiver, c, d, p, total)
           /\ Advance(c, c, d, p, total)
<1>1. Fine(c.sender, c.receiver, p, total) /\ Heard(c.sender, c.receiver, d.sender, d.receiver)
  BY Zenon DEF Endpoint
<1>2. Later(c.sender, c.receiver, c.sender, c.receiver)
  BY <1>1, LaterSelf, Zenon
<1> QED BY <1>1, <1>2, Zenon DEF Ahead, Advance

\* One method after another.
LEMMA AdvanceStill ==
    ASSUME NEW total \in Lengths, NEW p \in Peer, NEW c, NEW d, Endpoint(c, d, p, total), NEW e,
           Advance(c, e, d, p, total),
           NEW f, Advance(e, f, d, p, total)
    PROVE  Advance(c, f, d, p, total)
<1>1. /\ Fine(c.sender, c.receiver, p, total) /\ Fine(e.sender, e.receiver, p, total)
      /\ Fine(f.sender, f.receiver, p, total)
      /\ Later(c.sender, c.receiver, e.sender, e.receiver)
      /\ Later(e.sender, e.receiver, f.sender, f.receiver) /\ Endpoint(f, d, p, total)
  BY Zenon DEF Advance, Endpoint
<1>2. Later(c.sender, c.receiver, f.sender, f.receiver)
  BY <1>1, LaterStill, Zenon
<1> QED BY <1>1, <1>2, Zenon DEF Advance

\* What is queued may still be sent later.
LEMMA QueueLater ==
    ASSUME NEW total \in Lengths, NEW p \in Peer, NEW s, NEW v, Fine(s, v, p, total), NEW t, NEW x,
           Fine(t, x, p, total),
           Later(s, v, t, x), NEW out, Queue(out, s, v, p)
    PROVE  Queue(out, t, x, p)
<1>1. ASSUME NEW i \in 1 .. Len(out) PROVE Valid(out[i], t, x, p)
  <2>1. Valid(out[i], s, v, p)
    BY Zenon DEF Queue
  <2> QED BY <2>1, ValidLater, Zenon
<1> QED BY <1>1, Zenon DEF Queue

\* A method that changes the sender and the receiver and queues nothing.
LEMMA HalvesAdvance ==
    ASSUME NEW total \in Lengths, NEW p \in Peer, NEW c, NEW d, Endpoint(c, d, p, total),
           NEW t, NEW x, Ahead(t, x, c, d, p, total),
           NEW e, Members(e), e.sender = t, e.receiver = x, e.segments_out = c.segments_out
    PROVE  Advance(c, e, d, p, total)
<1>1. /\ Fine(c.sender, c.receiver, p, total) /\ Queue(c.segments_out, c.sender, c.receiver, p)
  BY Zenon DEF Endpoint
<1>2. /\ Fine(t, x, p, total) /\ Later(c.sender, c.receiver, t, x) /\ Heard(t, x, d.sender, d.receiver)
  BY Zenon DEF Ahead
<1>3. Queue(c.segments_out, t, x, p)
  BY <1>1, <1>2, QueueLater, Zenon
<1> QED BY <1>2, <1>3, Zenon DEF Advance, Endpoint

\* What the sender has queued may go out once it is stamped.
LEMMA StampedValid ==
    ASSUME NEW total \in Lengths, NEW p \in Peer, NEW c, Fine(c.sender, c.receiver, p, total),
           NEW i \in 1 .. Len(c.sender.segments_out)
    PROVE  /\ c.sender.segments_out[i] \in Segs
           /\ Valid(Stamped(c, c.sender.segments_out[i],
                            LesserOf(window_size(c.receiver), MaxWin)), c.sender, c.receiver, p)
<1> DEFINE s == c.sender  v == c.receiver  seg == s.segments_out[i]
           win == LesserOf(window_size(v), MaxWin)  g == Stamped(c, seg, win)
           w == s.stream.bytes_written  e == s.stream.end_input
<1>1. ReceiverFine(v, p, total) /\ SenderFine(s, p, total)
  BY Zenon DEF Fine
<1>2. Out(s.segments_out, s.abs_ackno, s.next_seqno, w, e, ISN[p])
  BY <1>1, Zenon DEF SenderFine, Good, Core
<1>3. s.segments_out \in Seq(Segs)
  BY <1>2, Zenon DEF Out
<1>4. seg \in Segs
  BY <1>3
<1>5. PICK a : InReach(seg, a, s.abs_ackno, s.next_seqno, w, e, ISN[p])
  BY <1>2, Zenon DEF Out
<1>6. /\ a \in Nat /\ Placed(seg, a, w, e, ISN[p])
      /\ a + length_in_sequence_space(seg) <= s.next_seqno
  BY <1>5, Zenon DEF InReach, NearAck
<1>7. win \in Nat /\ win <= Capacity
  BY <1>1, WindowFits, Zenon
<1>8. Marked(seg, g, win, v, p)
  BY <1>1, <1>4, <1>7, StampMarks, Zenon
<1> HIDE DEF seg, win, g
<1>9. SentBy(g, s, p)
  <2>1. /\ g.seqno = seg.seqno /\ g.syn = seg.syn /\ g.fin = seg.fin /\ g.payload = seg.payload
    BY <1>8, Zenon DEF Marked
  <2>2. Placed(g, a, w, e, ISN[p]) /\ length_in_sequence_space(g) = length_in_sequence_space(seg)
    BY <1>6, <2>1, Zenon DEF Placed, length_in_sequence_space
  <2>3. a + length_in_sequence_space(g) <= s.next_seqno
    BY <1>6, <2>2, Zenon
  <2> QED BY <1>6, <2>2, <2>3, Zenon DEF SentBy
<1>10. Valid(g, s, v, p)
  BY <1>7, <1>8, <1>9, Zenon DEF Valid, Marked
<1> QED BY <1>4, <1>10 DEF seg, g, win

\* TCPConnection::send_segments
LEMMA SendAdvance ==
    ASSUME NEW total \in Lengths, NEW p \in Peer, NEW c, NEW d, Endpoint(c, d, p, total)
    PROVE  /\ Advance(c, send_segments(c), d, p, total)
           /\ send_segments(c).receiver = c.receiver
           /\ SameButOut(c.sender, send_segments(c).sender)
           /\ send_segments(c).sender.segments_out = <<>>
           /\ SameRest(c, send_segments(c))
<1> DEFINE s == c.sender  v == c.receiver  e == send_segments(c)
           win == LesserOf(window_size(v), MaxWin)
           new == [i \in 1 .. Len(s.segments_out) |-> Stamped(c, s.segments_out[i], win)]
           out == c.segments_out \o new  t == Drain(s)
<1>1. /\ Members(c) /\ Fine(s, v, p, total) /\ Queue(c.segments_out, s, v, p)
      /\ Ahead(s, v, c, d, p, total)
  BY EndpointAhead, Zenon DEF Endpoint
<1>2. e = [c EXCEPT !.segments_out = out, !.sender = [s EXCEPT !.segments_out = <<>>]]
  BY <1>1 DEF send_segments, Members
<1> HIDE DEF out
<1>3. /\ Members(e) /\ e.segments_out = out /\ e.sender = t /\ e.receiver = v /\ SameRest(c, e)
  BY <1>1, <1>2 DEF Members, SameRest, Drain
<1> HIDE DEF e
<1>4. Ahead(t, v, c, d, p, total) /\ SameButOut(s, t) /\ t.segments_out = <<>>
  BY <1>1, AheadDrain, Zenon
<1> HIDE DEF t
<1>5. \A i \in 1 .. Len(s.segments_out) : Valid(Stamped(c, s.segments_out[i], win), s, v, p)
  BY <1>1, StampedValid, Zenon
<1> HIDE DEF s, v, win
<1>6. Queue(out, s, v, p)
  <2>1. /\ c.segments_out \in Seq(Wired)
        /\ \A i \in 1 .. Len(c.segments_out) : Valid(c.segments_out[i], s, v, p)
    BY <1>1, Zenon DEF Queue
  <2>2. Len(s.segments_out) \in Nat
    <3>1. Out(s.segments_out, s.abs_ackno, s.next_seqno, s.stream.bytes_written,
              s.stream.end_input, ISN[p])
      BY <1>1, Zenon DEF Fine, SenderFine, Good, Core
    <3>2. s.segments_out \in Seq(Segs)
      BY <3>1, Zenon DEF Out
    <3> QED BY <3>2
  <2>3. \A i \in 1 .. Len(s.segments_out) : Stamped(c, s.segments_out[i], win) \in Wired
    BY <1>5, Zenon DEF Valid
  <2>4. new \in Seq(Wired) /\ Len(new) = Len(s.segments_out)
    BY <2>2, <2>3
  <2>5. \A i \in 1 .. Len(new) : Valid(new[i], s, v, p)
    BY <1>5, <2>4
  <2> HIDE DEF new
  <2> DEFINE old == c.segments_out
  <2> HIDE DEF old
  <2>6. /\ old \o new \in Seq(Wired) /\ Len(old \o new) = Len(old) + Len(new)
        /\ \A i \in 1 .. Len(old \o new) :
              \/ i \in 1 .. Len(old) /\ (old \o new)[i] = old[i]
              \/ i - Len(old) \in 1 .. Len(new) /\ (old \o new)[i] = new[i - Len(old)]
    <3>1. old \in Seq(Wired) /\ new \in Seq(Wired)
      BY <2>1, <2>4 DEF old
    <3>2. /\ old \o new \in Seq(Wired) /\ Len(old \o new) = Len(old) + Len(new)
          /\ Len(old) \in Nat /\ Len(new) \in Nat
      BY <3>1
    <3>3. ASSUME NEW i \in 1 .. Len(old \o new)
          PROVE  \/ i \in 1 .. Len(old) /\ (old \o new)[i] = old[i]
                 \/ i - Len(old) \in 1 .. Len(new) /\ (old \o new)[i] = new[i - Len(old)]
      BY <3>1, <3>2
    <3> QED BY <3>2, <3>3
  <2>7. ASSUME NEW i \in 1 .. Len(old \o new) PROVE Valid((old \o new)[i], s, v, p)
    <3>1. CASE i \in 1 .. Len(old) /\ (old \o new)[i] = old[i]
      BY <2>1, <3>1, Zenon DEF old
    <3>2. CASE i - Len(old) \in 1 .. Len(new) /\ (old \o new)[i] = new[i - Len(old)]
      BY <2>5, <3>2, Zenon
    <3> QED BY <2>6, <3>1, <3>2, Zenon
  <2>8. Queue(old \o new, s, v, p)
    BY <2>6, <2>7, Zenon DEF Queue
  <2> QED BY <2>8 DEF out, old
<1>7. /\ Queue(out, t, v, p) /\ Fine(t, v, p, total)
      /\ Heard(t, v, d.sender, d.receiver) /\ Later(s, v, t, v)
  <2>1. Fine(t, v, p, total) /\ Heard(t, v, d.sender, d.receiver) /\ Later(s, v, t, v)
    BY <1>4, Zenon DEF Ahead, s, v
  <2> QED BY <1>1, <1>6, <2>1, QueueLater, Zenon
<1>8. Advance(c, e, d, p, total)
  BY <1>3, <1>7, Zenon DEF Advance, Endpoint, s, v
<1> QED BY <1>3, <1>4, <1>8, Zenon DEF e, s, v

\* TCPConnection::send_rst_segment
LEMMA RstAdvance ==
    ASSUME NEW total \in Lengths, NEW p \in Peer, NEW c, NEW d, Endpoint(c, d, p, total)
    PROVE  /\ Advance(c, send_rst_segment(c), d, p, total)
           /\ send_rst_segment(c).receiver = c.receiver
           /\ SameButOut(c.sender, send_rst_segment(c).sender)
           /\ SameRest(c, send_rst_segment(c))
<1> DEFINE s == c.sender  v == c.receiver  e == send_rst_segment(c)
           win == window_size(v) % (MaxWin + 1)
           u == send_empty_segment(s)  queue == u.segments_out
           h == [Stamped(c, Head(queue), win) EXCEPT !.rst = TRUE]
           out == Append(c.segments_out, h)  t == [s EXCEPT !.segments_out = Tail(queue)]
           w == s.stream.bytes_written  en == s.stream.end_input
<1>1. /\ Members(c) /\ Fine(s, v, p, total) /\ Queue(c.segments_out, s, v, p)
      /\ Ahead(s, v, c, d, p, total)
      /\ ReceiverFine(v, p, total)
  BY EndpointAhead, Zenon DEF Endpoint, Fine
<1>2. e = [c EXCEPT !.segments_out = out, !.sender = t]
  BY <1>1 DEF send_rst_segment, Members
<1>3. Ahead(u, v, c, d, p, total) /\ SameButOut(s, u) /\ queue # <<>>
  BY <1>1, AheadEmpty, Zenon
<1>4. Out(queue, s.abs_ackno, s.next_seqno, w, en, ISN[p])
  <2>1. SenderFine(u, p, total)
    BY <1>3, Zenon DEF Ahead, Fine
  <2>2. Out(queue, u.abs_ackno, u.next_seqno, u.stream.bytes_written, u.stream.end_input, ISN[p])
    BY <2>1, Zenon DEF SenderFine, Good, Core
  <2> QED BY <1>3, <2>2, Zenon DEF SameButOut
<1> HIDE DEF u
<1>5. queue \in Seq(Segs) /\ \A i \in 1 .. Len(queue) :
          \E a : InReach(queue[i], a, s.abs_ackno, s.next_seqno, w, en, ISN[p])
  BY <1>4, Zenon DEF Out
<1> HIDE DEF queue
<1>6. /\ Head(queue) \in Segs /\ Tail(queue) \in Seq(Segs) /\ Len(queue) \in Nat
      /\ Len(Tail(queue)) = Len(queue) - 1
      /\ \A i \in 1 .. Len(queue) - 1 : Tail(queue)[i] = queue[i + 1]
  BY <1>3, <1>5 DEF queue
<1>7. Out(Tail(queue), s.abs_ackno, s.next_seqno, w, en, ISN[p])
  <2>1. ASSUME NEW i \in 1 .. Len(Tail(queue))
        PROVE  \E a : InReach(Tail(queue)[i], a, s.abs_ackno, s.next_seqno, w, en, ISN[p])
    <3>1. i \in 1 .. Len(queue) - 1 /\ i + 1 \in 1 .. Len(queue)
      BY <1>6
    <3>2. Tail(queue)[i] = queue[i + 1]
      BY <1>6, <3>1
    <3> QED BY <1>5, <3>1, <3>2, Zenon
  <2> QED BY <1>6, <2>1, Zenon DEF Out
<1>8. Ahead(t, v, c, d, p, total) /\ SameButOut(s, t)
  <2>1. /\ ISN[p] \in SeqNo /\ Capacity \in Nat /\ Good(s, w, ISN[p], Capacity) /\ NotStalled(s, w)
        /\ s.window_size <= Capacity /\ s.abs_ackno <= Got(d.receiver) /\ s.next_seqno <= s.next_seqno
    BY <1>1, AheadSender, Zenon
  <2>2. Good(t, w, ISN[p], Capacity) /\ SameButOut(s, t)
    <3>1. t = [s EXCEPT !.segments_out = Tail(queue)]
      OBVIOUS
    <3> DEFINE q == Tail(queue)
    <3> HIDE DEF t, w, q, s
    <3>2. Out(q, s.abs_ackno, s.next_seqno, w, s.stream.end_input, ISN[p])
      BY <1>7 DEF q
    <3>3. t = [s EXCEPT !.segments_out = q]
      BY <3>1 DEF q
    <3> QED BY <2>1, <3>2, <3>3, OutReplaced
  <2> HIDE DEF t
  <2>3. NotStalled(t, w)
    BY <2>1, <2>2, Zenon DEF SameButOut, NotStalled
  <2>4. Onward(s, t, Got(d.receiver), p)
    BY <2>1, <2>2, <2>3, Zenon DEF Onward, SameButOut
  <2>5. Ahead(t, v, c, d, p, total)
    BY <1>1, <2>4, SenderMoves, Zenon
  <2> QED BY <2>2, <2>5
<1>9. h \in Wired /\ h.rst = TRUE
  <2>1. win \in Nat
    BY <1>1, WindowFits, Zenon
  <2> HIDE DEF win
  <2>2. Marked(Head(queue), h, win, v, p) /\ h.rst = TRUE
    BY <1>1, <1>6, <2>1, StampMarks, Zenon
  <2> QED BY <2>2, Zenon DEF Marked
<1> HIDE DEF h, t
<1>10. Valid(h, t, v, p)
  BY <1>9 DEF Valid
<1>11. /\ Members(e) /\ e.segments_out = out /\ e.sender = t /\ e.receiver = v /\ SameRest(c, e)
  <2> HIDE DEF out
  <2> QED BY <1>1, <1>2 DEF Members, SameRest
<1> HIDE DEF e
<1>12. Fine(t, v, p, total) /\ Heard(t, v, d.sender, d.receiver) /\ Later(s, v, t, v)
  BY <1>8, Zenon DEF Ahead
<1>13. Queue(out, t, v, p)
  <2> DEFINE old == c.segments_out
  <2>1. Queue(old, t, v, p)
    BY <1>1, <1>12, QueueLater, Zenon
  <2> HIDE DEF old
  <2>2. old \in Seq(Wired) /\ \A i \in 1 .. Len(old) : Valid(old[i], t, v, p)
    BY <2>1, Zenon DEF Queue
  <2>3. Append(old, h) \in Seq(Wired) /\ Len(Append(old, h)) = Len(old) + 1 /\ Len(old) \in Nat
    BY <1>9, <2>2
  <2>4. ASSUME NEW i \in 1 .. Len(Append(old, h)) PROVE Valid(Append(old, h)[i], t, v, p)
    <3>1. CASE i \in 1 .. Len(old)
      <4>1. Append(old, h)[i] = old[i]
        BY <2>2, <3>1
      <4> QED BY <2>2, <3>1, <4>1, Zenon
    <3>2. CASE i = Len(old) + 1
      <4>1. Append(old, h)[i] = h
        BY <2>2, <3>2
      <4> QED BY <1>10, <4>1, Zenon
    <3>3. i \in 1 .. Len(old) \/ i = Len(old) + 1
      BY <2>3
    <3> QED BY <3>1, <3>2, <3>3
  <2> QED BY <2>3, <2>4, Zenon DEF Queue, old
<1>14. Advance(c, e, d, p, total)
  BY <1>11, <1>12, <1>13, Zenon DEF Advance, Endpoint
<1> QED BY <1>8, <1>11, <1>14, Zenon DEF e

\* Both streams are broken and the connection is over.
ClosedBy(c, e) ==
    /\ e.sender.stream.error = TRUE /\ e.receiver.reassembler.output.error = TRUE
    /\ e.active = FALSE
    /\ e.linger_after_streams_finish = c.linger_after_streams_finish
    /\ SameButBytes(c.sender, e.sender)

\* TCPConnection::passive_close
LEMMA CloseAdvance ==
    ASSUME NEW total \in Lengths, NEW p \in Peer, NEW c, NEW d, Endpoint(c, d, p, total)
    PROVE  Advance(c, passive_close(c), d, p, total) /\ ClosedBy(c, passive_close(c))
<1> DEFINE s == c.sender  v == c.receiver  e == passive_close(c)
           t == Broken(s)  n == set_error(v.reassembler.output)  x == Reoutput(v, n)
<1>1. /\ Members(c) /\ Fine(s, v, p, total) /\ Ahead(s, v, c, d, p, total)
  BY EndpointAhead, Zenon DEF Endpoint
<1>2. /\ Ahead(t, v, c, d, p, total) /\ SameButBytes(s, t) /\ t.stream.error = TRUE
  BY <1>1, AheadBroken, Zenon
<1>3. /\ Ahead(t, x, c, d, p, total) /\ x.reassembler.output.error = TRUE
  BY <1>1, <1>2, AheadErrorIn, Zenon
<1>4. e = [c EXCEPT !.sender = t, !.receiver = x, !.active = FALSE]
  BY <1>1 DEF passive_close, Members, Broken, Restreamed, Reoutput
<1> HIDE DEF t, x
<1>5. /\ Members(e) /\ e.sender = t /\ e.receiver = x /\ e.segments_out = c.segments_out
      /\ e.active = FALSE /\ e.linger_after_streams_finish = c.linger_after_streams_finish
  BY <1>1, <1>4 DEF Members
<1> HIDE DEF e
<1>6. Advance(c, e, d, p, total)
  BY <1>3, <1>5, HalvesAdvance, Zenon
<1>7. ClosedBy(c, e)
  BY <1>2, <1>3, <1>5, Zenon DEF ClosedBy
<1> QED BY <1>6, <1>7 DEF e

-----------------------------------------------------------------------------

\* A connection that works, within a call.
Working(c) ==
    /\ c.active = TRUE /\ c.linger_after_streams_finish \in BOOLEAN
    /\ c.linger_after_streams_finish = FALSE => c.receiver.reassembler.output.end_input = TRUE
    /\ c.sender.stream.error = FALSE /\ c.receiver.reassembler.output.error = FALSE
    /\ c.sender.segments_out = <<>>

\* The same between two calls.
Alive(c) ==
    /\ Working(c)
    /\ c.receiver.syn = TRUE => c.sender.next_seqno > 0
    /\ c.sender.next_seqno = 0 => /\ c.sender.timer.running = FALSE
                                  /\ c.sender.timer.consecutive_retransmissions = 0

\* check_outbound_ended, of the sender.
Outbound(s) ==
    /\ s.stream.end_input = TRUE /\ s.stream.buffer_size = 0
    /\ s.next_seqno = s.stream.bytes_written + 2 /\ s.bytes_in_flight = 0

\* A connection that is over: broken, or done in both directions.
Over(c) ==
    /\ c.active = FALSE
    /\ c.sender.stream.error \in BOOLEAN
    /\ c.receiver.reassembler.output.error = c.sender.stream.error
    /\ c.sender.next_seqno > 0
    /\ \/ c.sender.stream.error = TRUE
       \/ c.receiver.reassembler.output.end_input = TRUE /\ Outbound(c.sender)

\* A connection between two calls: one that need not linger goes on only while
\* it has something to send.
Settled(c) ==
    \/ Alive(c) /\ (c.linger_after_streams_finish = FALSE => ~Outbound(c.sender))
    \/ Over(c)

\* The inbound stream is over when its end has been written: nothing can wait
\* behind it.
LEMMA InboundEnded ==
    ASSUME NEW total \in Lengths, NEW p \in Peer, NEW c, ReceiverFine(c.receiver, p, total)
    PROVE  /\ check_inbound_ended(c) = (c.receiver.reassembler.output.end_input = TRUE)
           /\ c.receiver.reassembler.output.end_input \in BOOLEAN
           /\ c.receiver.reassembler.output.end_input = TRUE =>
                  /\ c.receiver.syn = TRUE /\ c.receiver.reassembler.eof_appear_sign = TRUE
                  /\ c.receiver.reassembler.output.bytes_written = total[Other(p)]
<1> DEFINE r == c.receiver.reassembler  L == total[Other(p)]
<1>1. Sound(r, Capacity, L) /\ (r.eof_appear_sign = TRUE => c.receiver.syn = TRUE)
  BY Zenon DEF ReceiverFine, ReceiverSound
<1>2. L \in Nat /\ Capacity \in Nat
  BY TwoPeers, PairConstants
<1> HIDE DEF L, r
<1>3. /\ r.eof_appear_sign \in BOOLEAN /\ r.output.end_input \in BOOLEAN
      /\ (r.output.end_input <=> (r.eof_appear_sign /\ r.next_pos = L))
      /\ r.output.bytes_written = r.next_pos /\ r.next_pos \in 0 .. L /\ r.output.bytes_read \in Nat
      /\ Apart(r.unassemble_buffer, r.next_pos + 1, L, r.output.bytes_read + Capacity)
      /\ r.unassembled_bytes = Cardinality(Held(r.unassemble_buffer))
  BY <1>1, Zenon DEF Sound, Tidy, Ends, InOrder
<1>4. ASSUME r.output.end_input = TRUE PROVE r.unassembled_bytes = 0
  <2>1. r.next_pos = L
    BY <1>3, <1>4
  <2>2. r.next_pos + 1 \in Nat /\ r.output.bytes_read + Capacity \in Nat
    BY <1>2, <1>3
  <2> DEFINE lo == r.next_pos + 1  top == r.output.bytes_read + Capacity
  <2> HIDE DEF lo, top
  <2>3. lo \in Nat /\ top \in Nat /\ Apart(r.unassemble_buffer, lo, L, top)
    BY <1>3, <2>2 DEF lo, top
  <2>4. \A i \in Held(r.unassemble_buffer) : i \in Nat /\ lo <= i /\ i < L
    BY <1>2, <2>3, HeldBounded
  <2>5. Held(r.unassemble_buffer) = {}
    BY <1>2, <2>1, <2>4 DEF lo
  <2>6. Cardinality({}) = 0
    BY FS_EmptySet
  <2> QED BY <1>3, <2>5, <2>6
<1>5. check_inbound_ended(c) = (r.output.end_input = TRUE)
  BY <1>3, <1>4 DEF check_inbound_ended, stream_out, r
<1>6. r.output.end_input = TRUE =>
          /\ c.receiver.syn = TRUE /\ r.eof_appear_sign = TRUE /\ r.output.bytes_written = L
  BY <1>1, <1>3
<1> QED BY <1>3, <1>5, <1>6 DEF r, L

\* TCPConnection::test_end
LEMMA TestAdvance ==
    ASSUME NEW total \in Lengths, NEW p \in Peer, NEW c, NEW d, Endpoint(c, d, p, total), Alive(c)
    PROVE  Advance(c, test_end(c), d, p, total) /\ Settled(test_end(c))
<1> DEFINE e == test_end(c)  s == c.sender  v == c.receiver
           in == v.reassembler.output.end_input
           f == [c EXCEPT !.linger_after_streams_finish = FALSE]  g == [c EXCEPT !.active = FALSE]
<1>1. /\ Members(c) /\ ReceiverFine(v, p, total) /\ SenderFine(s, p, total)
      /\ Ahead(s, v, c, d, p, total)
  BY EndpointAhead, Zenon DEF Endpoint, Fine
<1>2. /\ check_inbound_ended(c) = (in = TRUE) /\ in \in BOOLEAN /\ (in = TRUE => v.syn = TRUE)
  BY <1>1, InboundEnded
<1>3. s.stream.end_input \in BOOLEAN
  BY <1>1, SenderNumbers
<1>4. check_outbound_ended(c) = Outbound(s)
  BY <1>3 DEF check_outbound_ended, eof, Outbound
<1>5. e \in {f, g, c}
  BY DEF test_end
<1>6. /\ Members(f) /\ f.sender = s /\ f.receiver = v /\ f.segments_out = c.segments_out
      /\ f.active = c.active /\ f.linger_after_streams_finish = FALSE
      /\ Members(g) /\ g.sender = s /\ g.receiver = v /\ g.segments_out = c.segments_out
      /\ g.active = FALSE
  BY <1>1 DEF Members
<1>7. Advance(c, e, d, p, total)
  <2>1. Members(e) /\ e.sender = s /\ e.receiver = v /\ e.segments_out = c.segments_out
    BY <1>1, <1>5, <1>6
  <2> HIDE DEF e
  <2> QED BY <1>1, <2>1, HalvesAdvance, Zenon
<1>8. CASE in = TRUE /\ ~eof(s.stream)
  <2>1. e = f
    BY <1>2, <1>8 DEF test_end
  <2>2. ~Outbound(s)
    BY <1>8 DEF eof, Outbound
  <2> HIDE DEF e, f
  <2>3. Alive(f)
    BY <1>6, <1>8 DEF Alive, Working
  <2>4. Settled(f)
    BY <1>6, <2>2, <2>3, Zenon DEF Settled
  <2> QED BY <1>7, <2>1, <2>4 DEF e
<1>9. CASE ~(in = TRUE /\ ~eof(s.stream)) /\ e = g /\ in = TRUE /\ Outbound(s)
  <2> HIDE DEF e, g
  <2>1. Over(g)
    BY <1>2, <1>6, <1>9, ZenonT(60) DEF Over, Alive, Working
  <2> QED BY <1>7, <1>9, <2>1 DEF e, Settled
<1>10. CASE e = c /\ (c.linger_after_streams_finish = FALSE => ~Outbound(s))
  <2> HIDE DEF e
  <2>1. Settled(c)
    BY <1>10, Zenon DEF Settled
  <2> QED BY <1>7, <1>10, <2>1 DEF e
<1>11. ASSUME ~(in = TRUE /\ ~eof(s.stream))
       PROVE  \/ e = g /\ in = TRUE /\ Outbound(s)
              \/ e = c /\ (c.linger_after_streams_finish = FALSE => ~Outbound(s))
  <2>1. c.linger_after_streams_finish \in BOOLEAN /\ (c.linger_after_streams_finish = FALSE => in = TRUE)
    BY Zenon DEF Alive, Working
  <2> HIDE DEF f, g, in, s
  <2>2. e = IF /\ in = TRUE /\ Outbound(s)
               /\ \/ ~c.linger_after_streams_finish
                  \/ c.time_since_last_segment_received >= LingerTime
            THEN g ELSE c
    BY <1>2, <1>4, <1>11 DEF test_end, g, s
  <2> HIDE DEF e
  <2> QED BY <2>1, <2>2
<1> QED BY <1>8, <1>9, <1>10, <1>11

\* next_seqno never goes back.
LEMMA AdvanceNumbers ==
    ASSUME NEW total \in Lengths, NEW p \in Peer, NEW c, NEW d, Endpoint(c, d, p, total), NEW e,
           Advance(c, e, d, p, total)
    PROVE  c.sender.next_seqno > 0 => e.sender.next_seqno > 0
<1>1. /\ SenderFine(c.sender, p, total) /\ SenderFine(e.sender, p, total)
      /\ c.sender.next_seqno <= e.sender.next_seqno
  BY Zenon DEF Advance, Endpoint, Fine, Later
<1>2. c.sender.next_seqno \in Nat /\ e.sender.next_seqno \in Nat
  BY <1>1, SenderNumbers
<1> QED BY <1>1, <1>2

\* After the first segment.
LEMMA WorkingAlive ==
    ASSUME NEW total \in Lengths, NEW p \in Peer, NEW c, NEW d, Endpoint(c, d, p, total),
           Working(c), c.sender.next_seqno > 0
    PROVE  Alive(c)
<1>1. c.sender.next_seqno \in Nat
  BY SenderNumbers DEF Endpoint, Fine
<1>2. c.sender.next_seqno # 0
  BY <1>1
<1> QED BY <1>2, Zenon DEF Alive

\* A method of the sender, followed by send_segments().
LEMMA SenderAdvance ==
    ASSUME NEW total \in Lengths, NEW p \in Peer, NEW c, NEW d, Endpoint(c, d, p, total),
           Working(c),
           NEW t, Ahead(t, c.receiver, c, d, p, total), t.stream.error = c.sender.stream.error,
           NEW e, Members(e), e.sender = t, e.receiver = c.receiver,
           e.segments_out = c.segments_out, SameRest(c, e)
    PROVE  /\ Advance(c, send_segments(e), d, p, total) /\ Working(send_segments(e))
           /\ SameButOut(t, send_segments(e).sender)
           /\ send_segments(e).receiver = c.receiver /\ SameRest(c, send_segments(e))
<1> DEFINE f == send_segments(e)
<1>1. Advance(c, e, d, p, total)
  BY HalvesAdvance, Zenon
<1>2. Endpoint(e, d, p, total)
  BY <1>1, Zenon DEF Advance
<1>3. /\ Advance(e, f, d, p, total) /\ f.receiver = c.receiver /\ SameButOut(t, f.sender)
      /\ f.sender.segments_out = <<>> /\ SameRest(e, f)
  BY <1>2, SendAdvance, Zenon
<1> HIDE DEF f
<1>4. Advance(c, f, d, p, total)
  BY <1>1, <1>3, AdvanceStill, Zenon
<1>5. SameRest(c, f)
  BY <1>3, Zenon DEF SameRest
<1>6. Working(f)
  BY <1>3, <1>5, Zenon DEF Working, SameRest, SameButOut
<1> QED BY <1>3, <1>4, <1>5, <1>6 DEF f

\* A segment is answered: the SYN leaves with the answer at the latest.
LEMMA AnswerAdvance ==
    ASSUME NEW total \in Lengths, NEW p \in Peer, NEW c, NEW d, Endpoint(c, d, p, total), Working(c)
    PROVE  /\ Advance(c, Answer(c), d, p, total) /\ Alive(Answer(c)) /\ Answer(c).sender.next_seqno > 0
<1> DEFINE s == c.sender  v == c.receiver  t == fill_window(s)  u == send_empty_segment(t)
           f == [c EXCEPT !.sender = t]  g == [c EXCEPT !.sender = u]
           e == IF t.segments_out # <<>> THEN f ELSE g
           r == e.sender
<1>1. /\ Members(c) /\ Ahead(s, v, c, d, p, total) /\ Fine(s, v, p, total)
  BY EndpointAhead, Zenon DEF Endpoint
<1>2. Ahead(t, v, c, d, p, total) /\ t.next_seqno > 0 /\ SameFlags(s, t)
  BY <1>1, AheadFill, Zenon
<1>3. Ahead(u, v, c, d, p, total) /\ SameButOut(t, u)
  BY <1>1, <1>2, AheadEmpty, Zenon
<1>4. /\ Members(f) /\ f.sender = t /\ f.receiver = v /\ f.segments_out = c.segments_out
      /\ SameRest(c, f)
  <2> HIDE DEF t
  <2> QED BY <1>1 DEF Members, SameRest
<1>5. /\ Members(g) /\ g.sender = u /\ g.receiver = v /\ g.segments_out = c.segments_out
      /\ SameRest(c, g)
  <2> HIDE DEF u
  <2> QED BY <1>1 DEF Members, SameRest
<1>6. Answer(c) = send_segments(e)
  <2>1. g = [f EXCEPT !.sender = send_empty_segment(f.sender)]
    <3> HIDE DEF t
    <3> QED BY <1>1, <1>4 DEF Members
  <2>2. CASE t.segments_out # <<>>
    <3> HIDE DEF g
    <3> QED BY <1>4, <2>2 DEF Answer
  <2>3. CASE ~(t.segments_out # <<>>)
    <3>1. e = g
      BY <2>3
    <3> HIDE DEF g, e
    <3> QED BY <1>4, <2>1, <2>3, <3>1 DEF Answer
  <2> QED BY <2>2, <2>3
<1> HIDE DEF t, u, f, g
<1>7. /\ Members(e) /\ e.receiver = v /\ e.segments_out = c.segments_out /\ SameRest(c, e)
      /\ Ahead(r, v, c, d, p, total) /\ r.stream.error = s.stream.error /\ r.next_seqno > 0
  <2>1. t.stream.error = s.stream.error
    BY <1>2, Zenon DEF SameFlags
  <2>2. u.stream.error = s.stream.error /\ u.next_seqno > 0
    BY <1>2, <1>3, <2>1, Zenon DEF SameButOut
  <2>3. CASE t.segments_out # <<>>
    <3>1. e = f
      BY <2>3
    <3> HIDE DEF e
    <3> QED BY <1>2, <1>4, <2>1, <3>1, Zenon
  <2>4. CASE ~(t.segments_out # <<>>)
    <3>1. e = g
      BY <2>4
    <3> HIDE DEF e
    <3> QED BY <1>3, <1>5, <2>2, <3>1, Zenon
  <2> QED BY <2>3, <2>4
<1> HIDE DEF e
<1> DEFINE k == send_segments(e)
<1>8. Advance(c, k, d, p, total) /\ Working(k) /\ SameButOut(r, k.sender)
  BY <1>7, SenderAdvance, Zenon
<1> HIDE DEF k
<1>9. k.sender.next_seqno > 0 /\ Endpoint(k, d, p, total)
  BY <1>7, <1>8, Zenon DEF SameButOut, Advance
<1>10. Alive(k)
  BY <1>8, <1>9, WorkingAlive, Zenon
<1> QED BY <1>6, <1>8, <1>9, <1>10 DEF k

\* The acknowledgment that a segment carries is heeded.
Acknowledged(c, seg) ==
    IF seg.ack THEN send_segments([c EXCEPT !.sender = ack_received(@, seg.ackno, seg.win)]) ELSE c

\* TCPConnection::segment_received, as far as the acknowledgment goes
LEMMA AckAdvance ==
    ASSUME NEW total \in Lengths, NEW p \in Peer, NEW c, NEW d, Endpoint(c, d, p, total),
           Working(c),
           ReceiverFine(d.receiver, Other(p), total),
           NEW seg, Valid(seg, d.sender, d.receiver, Other(p)), seg.rst = FALSE
    PROVE  Advance(c, Acknowledged(c, seg), d, p, total) /\ Working(Acknowledged(c, seg))
<1> DEFINE s == c.sender  v == c.receiver  t == ack_received(s, seg.ackno, seg.win)
           e == [c EXCEPT !.sender = t]
<1>1. /\ Members(c) /\ Ahead(s, v, c, d, p, total) /\ Fine(s, v, p, total) /\ Advance(c, c, d, p, total)
      /\ s.segments_out = <<>>
  BY EndpointAhead, Zenon DEF Endpoint, Working
<1>2. seg \in Wired /\ AcksFor(seg, d.receiver, Other(p)) /\ seg.win <= Capacity
  BY Zenon DEF Valid
<1>3. seg.ack \in BOOLEAN /\ seg.win \in Nat
  BY <1>2, WiredFields
<1>4. CASE seg.ack = FALSE
  BY <1>1, <1>4 DEF Acknowledged
<1>5. CASE seg.ack = TRUE
  <2>1. PICK b \in Nat : b <= Got(d.receiver) /\ seg.ackno = wrap(b, ISN[Other(Other(p))])
    BY <1>2, <1>5, Zenon DEF AcksFor
  <2>2. seg.ackno = wrap(b, ISN[p])
    BY <2>1, TwoPeers
  <2>3. Ahead(t, v, c, d, p, total) /\ SameFlags(s, t)
    <3> DEFINE win == seg.win  r == ack_received(s, wrap(b, ISN[p]), win)
    <3>1. win \in Nat /\ win <= Capacity
      BY <1>2, <1>3
    <3> HIDE DEF win
    <3>2. Ahead(r, v, c, d, p, total) /\ SameFlags(s, r)
      BY <1>1, <2>1, <3>1, AheadAck, Zenon
    <3> QED BY <2>2, <3>2 DEF win
  <2>4. Acknowledged(c, seg) = send_segments(e)
    BY <1>5 DEF Acknowledged
  <2> HIDE DEF t
  <2>5. /\ Members(e) /\ e.sender = t /\ e.receiver = v /\ e.segments_out = c.segments_out
        /\ SameRest(c, e) /\ t.stream.error = s.stream.error
    BY <1>1, <2>3 DEF Members, SameRest, SameFlags
  <2> HIDE DEF e
  <2>6. Advance(c, send_segments(e), d, p, total) /\ Working(send_segments(e))
    BY <2>3, <2>5, SenderAdvance, Zenon
  <2> QED BY <2>4, <2>6
<1> QED BY <1>3, <1>4, <1>5

\* TCPConnection::segment_received, as far as the inbound stream goes
LEMMA InboundAdvance ==
    ASSUME NEW total \in Lengths, NEW p \in Peer, NEW c, NEW d, Endpoint(c, d, p, total),
           Working(c),
           SenderFine(d.sender, Other(p), total),
           NEW seg, Valid(seg, d.sender, d.receiver, Other(p)), seg.rst = FALSE,
           NEW e, Members(e), e.sender = c.sender, e.segments_out = c.segments_out,
           e.receiver = receiver_segment_received(c.receiver, seg), SameRest(c, e)
    PROVE  Advance(c, e, d, p, total) /\ Working(e)
<1> DEFINE s == c.sender  v == c.receiver  x == receiver_segment_received(v, seg)
<1>1. /\ Ahead(s, v, c, d, p, total) /\ Fine(s, v, p, total)
  BY EndpointAhead, Zenon
<1>2. /\ Ahead(s, x, c, d, p, total) /\ Lasting(v, x)
  BY <1>1, AheadReceive, Zenon
<1> HIDE DEF x
<1>3. e.receiver = x
  BY DEF x
<1>4. Advance(c, e, d, p, total)
  BY <1>2, <1>3, HalvesAdvance, Zenon
<1>5. Working(e)
  BY <1>2, <1>3, Zenon DEF Working, SameRest, Lasting
<1> QED BY <1>4, <1>5

\* A segment of the other endpoint that does not reset the connection.
LEMMA ReceiveAdvance ==
    ASSUME NEW total \in Lengths, NEW p \in Peer, NEW c, NEW d, Endpoint(c, d, p, total),
           Working(c),
           SenderFine(d.sender, Other(p), total), ReceiverFine(d.receiver, Other(p), total),
           NEW seg, Valid(seg, d.sender, d.receiver, Other(p)), seg.rst = FALSE,
           c.sender.next_seqno > 0 \/ seg.syn = TRUE
    PROVE  Advance(c, segment_received(c, seg), d, p, total) /\ Settled(segment_received(c, seg))
<1> DEFINE c0 == [c EXCEPT !.time_since_last_segment_received = 0]
           c1 == [c0 EXCEPT !.receiver = receiver_segment_received(@, seg)]
           c2 == Acknowledged(c1, seg)
           c3 == IF length_in_sequence_space(seg) > 0 THEN Answer(c2) ELSE c2
           c4 == test_end(c3)
<1>1. segment_received(c, seg) = c4
  BY Zenon DEF segment_received, Acknowledged
<1>2. Members(c)
  BY Zenon DEF Endpoint
<1>3. /\ Members(c1) /\ c1.sender = c.sender /\ c1.segments_out = c.segments_out
      /\ c1.receiver = receiver_segment_received(c.receiver, seg) /\ SameRest(c, c1)
  <2> DEFINE x == receiver_segment_received(c.receiver, seg)
  <2>1. c1 = [c EXCEPT !.time_since_last_segment_received = 0, !.receiver = x]
    <3>1. c0.receiver = c.receiver
      BY <1>2 DEF Members
    <3> QED BY <3>1
  <2> HIDE DEF x, c1
  <2>2. /\ Members(c1) /\ c1.sender = c.sender /\ c1.segments_out = c.segments_out
        /\ c1.receiver = x /\ SameRest(c, c1)
    BY <1>2, <2>1 DEF Members, SameRest
  <2> QED BY <2>2 DEF x
<1> HIDE DEF c1
<1>4. Advance(c, c1, d, p, total) /\ Working(c1)
  BY <1>3, InboundAdvance, Zenon
<1>5. Endpoint(c1, d, p, total)
  BY <1>4, Zenon DEF Advance
<1>6. Advance(c1, c2, d, p, total) /\ Working(c2)
  BY <1>4, <1>5, AckAdvance, Zenon
<1> HIDE DEF c2
<1>7. Advance(c, c2, d, p, total) /\ Endpoint(c2, d, p, total)
  BY <1>4, <1>6, AdvanceStill, Zenon DEF Advance
<1>8. Advance(c, c3, d, p, total) /\ Alive(c3)
  <2>1. CASE length_in_sequence_space(seg) > 0
    <3>1. c3 = Answer(c2)
      BY <2>1
    <3> HIDE DEF c3
    <3>2. Advance(c2, c3, d, p, total) /\ Alive(c3)
      BY <1>6, <1>7, <3>1, AnswerAdvance, Zenon
    <3> QED BY <1>7, <3>2, AdvanceStill, Zenon
  <2>2. CASE ~(length_in_sequence_space(seg) > 0)
    <3>1. c3 = c2
      BY <2>2
    <3> HIDE DEF c3
    <3>2. seg \in Wired
      BY Zenon DEF Valid
    <3>3. ~(seg.syn = TRUE)
      BY <2>2, <3>2, WiredFields
    <3>4. c2.sender.next_seqno > 0
      BY <1>7, <3>3, AdvanceNumbers, Zenon
    <3> QED BY <1>6, <1>7, <3>1, <3>4, WorkingAlive, Zenon
  <2> QED BY <2>1, <2>2
<1> HIDE DEF c3
<1>9. Endpoint(c3, d, p, total)
  BY <1>8, Zenon DEF Advance
<1>10. Advance(c3, c4, d, p, total) /\ Settled(c4)
  BY <1>8, <1>9, TestAdvance, Zenon
<1> HIDE DEF c4
<1>11. Advance(c, c4, d, p, total)
  BY <1>8, <1>10, AdvanceStill, Zenon
<1> QED BY <1>1, <1>10, <1>11

\* A segment with RST.
LEMMA ResetAdvance ==
    ASSUME NEW total \in Lengths, NEW p \in Peer, NEW c, NEW d, Endpoint(c, d, p, total), NEW seg,
           seg.rst = TRUE,
           c.sender.next_seqno > 0
    PROVE  Advance(c, segment_received(c, seg), d, p, total) /\ Settled(segment_received(c, seg))
<1> DEFINE c0 == [c EXCEPT !.time_since_last_segment_received = 0]  e == passive_close(c0)
<1>1. segment_received(c, seg) = e
  BY DEF segment_received
<1>2. Members(c) /\ Ahead(c.sender, c.receiver, c, d, p, total)
  BY EndpointAhead, Zenon DEF Endpoint
<1>3. /\ Members(c0) /\ c0.sender = c.sender /\ c0.segments_out = c.segments_out
      /\ c0.receiver = c.receiver
  BY <1>2 DEF Members
<1> HIDE DEF c0
<1>4. Advance(c, c0, d, p, total)
  BY <1>2, <1>3, HalvesAdvance, Zenon
<1>5. Advance(c0, e, d, p, total) /\ ClosedBy(c0, e)
  BY <1>4, CloseAdvance, Zenon DEF Advance
<1> HIDE DEF e
<1>6. Advance(c, e, d, p, total)
  BY <1>4, <1>5, AdvanceStill, Zenon
<1>7. Over(e)
  <2>1. e.sender.next_seqno > 0
    BY <1>6, AdvanceNumbers, Zenon
  <2>2. TRUE \in BOOLEAN
    OBVIOUS
  <2> QED BY <1>5, <2>1, <2>2, Zenon DEF ClosedBy, Over
<1> QED BY <1>1, <1>6, <1>7, Zenon DEF Settled

\* TCPConnection::write
LEMMA WriteAdvance ==
    ASSUME NEW total \in Lengths, NEW p \in Peer, NEW c, NEW d, Endpoint(c, d, p, total),
           Settled(c), c.active = TRUE,
           c.sender.stream.end_input = FALSE, NEW len \in Nat,
           c.sender.stream.bytes_written + len <= total[p],
           NEW e, e = connection_write(c, Bytes(c.sender.stream.bytes_written, len))
    PROVE  Advance(c, e, d, p, total) /\ Settled(e)
<1> DEFINE s == c.sender  v == c.receiver  t == WriteAndFill(s, len)
           f == [c EXCEPT !.sender = t]  g == send_segments(f)
<1>1. /\ Members(c) /\ Ahead(s, v, c, d, p, total) /\ Fine(s, v, p, total) /\ Advance(c, c, d, p, total)
  BY EndpointAhead, Zenon DEF Endpoint
<1>2. Working(c)
  BY DEF Settled, Over, Alive
<1>3. Ahead(t, v, c, d, p, total) /\ t.next_seqno > 0 /\ SameFlags(s, t)
  <2>1. s.segments_out = <<>>
    BY <1>2, Zenon DEF Working
  <2> QED BY <1>1, <2>1, AheadWrite, Zenon
<1>4. e = c \/ e = g
  BY DEF connection_write, WriteAndFill, Given
<1> HIDE DEF t
<1>5. /\ Members(f) /\ f.sender = t /\ f.receiver = v /\ f.segments_out = c.segments_out
      /\ SameRest(c, f)
  BY <1>1 DEF Members, SameRest
<1> HIDE DEF f
<1>6. Advance(c, g, d, p, total) /\ Working(g) /\ SameButOut(t, g.sender)
  <2>1. t.stream.error = s.stream.error
    BY <1>3, Zenon DEF SameFlags
  <2> QED BY <1>2, <1>3, <1>5, <2>1, SenderAdvance, Zenon
<1> HIDE DEF g
<1>7. Settled(g)
  <2>1. g.sender.next_seqno > 0 /\ g.sender.stream.end_input = FALSE /\ Endpoint(g, d, p, total)
    BY <1>3, <1>6, Zenon DEF SameButOut, SameFlags, Advance
  <2>2. Alive(g)
    BY <1>6, <2>1, WorkingAlive, Zenon
  <2>3. ~Outbound(g.sender)
    BY <2>1 DEF Outbound
  <2> QED BY <2>2, <2>3, Zenon DEF Settled
<1> QED BY <1>1, <1>4, <1>6, <1>7, Zenon

\* TCPConnection::end_input_stream
LEMMA EndAdvance ==
    ASSUME NEW total \in Lengths, NEW p \in Peer, NEW c, NEW d, Endpoint(c, d, p, total),
           Settled(c), c.active = TRUE,
           c.sender.stream.end_input = FALSE, c.sender.stream.bytes_written = total[p],
           c.sender.next_seqno > 0, NEW e, e = end_input_stream(c)
    PROVE  Advance(c, e, d, p, total) /\ Settled(e)
<1> DEFINE s == c.sender  v == c.receiver  t == EndAndFill(s)  f == [c EXCEPT !.sender = t]
<1>1. /\ Members(c) /\ Ahead(s, v, c, d, p, total) /\ Fine(s, v, p, total)
  BY EndpointAhead, Zenon DEF Endpoint
<1>2. Working(c)
  BY DEF Settled, Over, Alive
<1>3. /\ Ahead(t, v, c, d, p, total) /\ t.next_seqno > 0 /\ t.stream.error = s.stream.error
      /\ (t.bytes_in_flight = 0 => t.next_seqno < t.stream.bytes_written + 2)
  <2>1. s.segments_out = <<>>
    BY <1>2, Zenon DEF Working
  <2> HIDE DEF s
  <2>2. /\ Fine(c.sender, c.receiver, p, total) /\ s.stream.end_input = FALSE
        /\ s.stream.bytes_written = total[p] /\ s.next_seqno > 0
    BY <1>1 DEF s
  <2> QED BY <1>1, <2>1, <2>2, AheadEnd
<1>4. e = send_segments(f)
  BY DEF end_input_stream, EndAndFill
<1> HIDE DEF t
<1>5. /\ Members(f) /\ f.sender = t /\ f.receiver = v /\ f.segments_out = c.segments_out
      /\ SameRest(c, f)
  BY <1>1 DEF Members, SameRest
<1> HIDE DEF f
<1>6. Advance(c, e, d, p, total) /\ Working(e) /\ SameButOut(t, e.sender)
  <2> DEFINE g == send_segments(f)
  <2>1. Advance(c, g, d, p, total) /\ Working(g) /\ SameButOut(t, g.sender)
    BY <1>2, <1>3, <1>5, SenderAdvance, Zenon
  <2> QED BY <1>4, <2>1
<1>7. Settled(e)
  <2>1. /\ e.sender.next_seqno = t.next_seqno /\ e.sender.stream = t.stream
        /\ e.sender.bytes_in_flight = t.bytes_in_flight /\ Endpoint(e, d, p, total)
    BY <1>6, Zenon DEF SameButOut, Advance
  <2>2. Alive(e)
    BY <1>3, <1>6, <2>1, WorkingAlive, Zenon
  <2>3. ~Outbound(e.sender)
    <3>1. t.next_seqno \in Nat /\ t.stream.bytes_written \in Nat
      <4>1. SenderFine(t, p, total)
        BY <1>3, Zenon DEF Ahead, Fine
      <4> QED BY <4>1, SenderNumbers
    <3>2. ~(t.next_seqno = t.stream.bytes_written + 2 /\ t.bytes_in_flight = 0)
      BY <1>3, <3>1
    <3> QED BY <2>1, <3>2, Zenon DEF Outbound
  <2> QED BY <2>2, <2>3, Zenon DEF Settled
<1> QED BY <1>6, <1>7

\* TCPConnection::connect
LEMMA ConnectAdvance ==
    ASSUME NEW total \in Lengths, NEW p \in Peer, NEW c, NEW d, Endpoint(c, d, p, total),
           Settled(c), c.sender.next_seqno = 0,
           NEW e, e = connect(c)
    PROVE  Advance(c, e, d, p, total) /\ Settled(e) /\ e.sender.next_seqno > 0
<1> DEFINE s == c.sender  v == c.receiver  t == fill_window(s)  f == [c EXCEPT !.sender = t]
           g == send_segments(f)
<1>1. /\ Members(c) /\ Ahead(s, v, c, d, p, total) /\ Fine(s, v, p, total)
  BY EndpointAhead, Zenon DEF Endpoint
<1>2. Working(c)
  <2>1. ~(c.sender.next_seqno > 0)
    OBVIOUS
  <2> QED BY <2>1 DEF Settled, Over, Alive
<1>3. Ahead(t, v, c, d, p, total) /\ t.next_seqno > 0 /\ SameFlags(s, t)
  BY <1>1, AheadFill, Zenon
<1>4. e = [g EXCEPT !.active = TRUE]
  BY DEF connect
<1> HIDE DEF t
<1>5. /\ Members(f) /\ f.sender = t /\ f.receiver = v /\ f.segments_out = c.segments_out
      /\ SameRest(c, f)
  BY <1>1 DEF Members, SameRest
<1> HIDE DEF f
<1>6. Advance(c, g, d, p, total) /\ Working(g) /\ SameButOut(t, g.sender)
  <2>1. t.stream.error = s.stream.error
    BY <1>3, Zenon DEF SameFlags
  <2> QED BY <1>2, <1>3, <1>5, <2>1, SenderAdvance, Zenon
<1> HIDE DEF g
<1>7. e = g
  <2>1. Members(g) /\ g.active = TRUE
    BY <1>6, Zenon DEF Advance, Endpoint, Working
  <2>2. g = [i \in DOMAIN g |-> g[i]]
    <3>1. Members(g)
      BY <2>1
    <3> QED BY <1>2, <1>4, <1>6 DEF g, send_segments
  <2> QED BY <1>4, <2>1, <2>2 DEF Members
<1>8. Settled(g) /\ g.sender.next_seqno > 0
  <2>1. s.stream.end_input = FALSE
    <3>1. SenderFine(s, p, total)
      BY <1>1, Zenon DEF Fine
    <3>2. s.stream.end_input \in BOOLEAN
      BY <3>1, SenderNumbers
    <3> QED BY <3>1, <3>2 DEF SenderFine
  <2>2. g.sender.next_seqno > 0 /\ g.sender.stream.end_input = FALSE /\ Endpoint(g, d, p, total)
    BY <1>3, <1>6, <2>1, Zenon DEF SameButOut, SameFlags, Advance
  <2>3. Alive(g)
    BY <1>6, <2>2, WorkingAlive, Zenon
  <2>4. ~Outbound(g.sender)
    BY <2>2 DEF Outbound
  <2> QED BY <2>2, <2>3, <2>4, Zenon DEF Settled
<1> QED BY <1>6, <1>7, <1>8

\* TCPConnection::tick
LEMMA TickAdvance ==
    ASSUME NEW total \in Lengths, NEW p \in Peer, NEW c, NEW d, Endpoint(c, d, p, total),
           Settled(c), c.active = TRUE,
           NEW ms \in Nat, NEW e, e = tick(c, ms)
    PROVE  Advance(c, e, d, p, total) /\ Settled(e)
<1> DEFINE s == c.sender  v == c.receiver  t == sender_tick(s, ms)
           now == LesserOf(c.time_since_last_segment_received + ms, LingerTime)
           f == [c EXCEPT !.time_since_last_segment_received = now, !.sender = t]
<1>1. /\ Members(c) /\ Ahead(s, v, c, d, p, total) /\ Fine(s, v, p, total)
  BY EndpointAhead, Zenon DEF Endpoint
<1>2. Alive(c) /\ Working(c)
  BY DEF Settled, Over, Alive
<1>3. Ahead(t, v, c, d, p, total) /\ SameButClock(s, t)
  <2>1. s.segments_out = <<>>
    BY <1>2 DEF Working
  <2> QED BY <1>1, <2>1, AheadTick, Zenon
<1>4. s.next_seqno = 0 => t = s /\ ~(t.timer.consecutive_retransmissions > MaxRetx)
  <2> SUFFICES ASSUME s.next_seqno = 0
               PROVE  t = s /\ ~(t.timer.consecutive_retransmissions > MaxRetx)
    OBVIOUS
  <2>1. s.timer.running = FALSE /\ s.timer.consecutive_retransmissions = 0
    BY <1>2, Zenon DEF Alive
  <2>2. t = s
    BY <2>1 DEF sender_tick
  <2> HIDE DEF t
  <2> QED BY <2>1, <2>2, ConnectionAssumption
<1>5. e = IF f.sender.timer.consecutive_retransmissions > MaxRetx
          THEN send_rst_segment(passive_close(f)) ELSE test_end(send_segments(f))
  BY DEF tick
<1> HIDE DEF t, now
<1>6. /\ Members(f) /\ f.sender = t /\ f.receiver = v /\ f.segments_out = c.segments_out
      /\ SameRest(c, f)
  BY <1>1 DEF Members, SameRest
<1> HIDE DEF f
<1>7. Advance(c, f, d, p, total)
  BY <1>3, <1>6, HalvesAdvance, Zenon
<1>8. s.next_seqno \in Nat
  BY <1>1, SenderNumbers DEF Fine
<1>9. CASE t.timer.consecutive_retransmissions > MaxRetx
  <2> DEFINE g == passive_close(f)  h == send_rst_segment(g)
  <2>1. Advance(f, g, d, p, total) /\ ClosedBy(f, g)
    BY <1>7, CloseAdvance, Zenon DEF Advance
  <2>2. e = h
    BY <1>5, <1>6, <1>9, Zenon
  <2> HIDE DEF g
  <2>3. Endpoint(g, d, p, total)
    BY <2>1, Zenon DEF Advance
  <2>4. /\ Advance(g, h, d, p, total) /\ h.receiver = g.receiver
        /\ SameButOut(g.sender, h.sender) /\ SameRest(g, h)
    BY <2>3, RstAdvance, Zenon
  <2> HIDE DEF h
  <2>5. Advance(c, g, d, p, total)
    BY <1>7, <2>1, AdvanceStill, Zenon
  <2>6. Advance(c, h, d, p, total)
    BY <2>4, <2>5, AdvanceStill, Zenon
  <2>7. h.sender.next_seqno > 0
    <3>1. s.next_seqno > 0
      BY <1>4, <1>8, <1>9
    <3> QED BY <2>6, <3>1, AdvanceNumbers, Zenon
  <2>8. TRUE \in BOOLEAN
    OBVIOUS
  <2>9. Over(h)
    BY <2>1, <2>4, <2>7, <2>8, Zenon DEF ClosedBy, Over, SameButOut, SameRest
  <2> QED BY <2>2, <2>6, <2>9, Zenon DEF Settled
<1>10. CASE ~(t.timer.consecutive_retransmissions > MaxRetx)
  <2> DEFINE g == send_segments(f)  h == test_end(g)
  <2>1. e = h
    BY <1>5, <1>6, <1>10, Zenon
  <2>2. /\ Advance(c, g, d, p, total) /\ Working(g) /\ SameButOut(t, g.sender) /\ g.receiver = v
    <3>1. t.stream.error = s.stream.error
      BY <1>3, Zenon DEF SameButClock
    <3> QED BY <1>2, <1>3, <1>6, <3>1, SenderAdvance, Zenon
  <2> HIDE DEF g
  <2>3. Endpoint(g, d, p, total) /\ g.sender.next_seqno = s.next_seqno
    BY <1>3, <2>2, Zenon DEF Advance, SameButOut, SameButClock
  <2>4. Alive(g)
    <3>1. CASE s.next_seqno > 0
      BY <2>2, <2>3, <3>1, WorkingAlive, Zenon
    <3>2. CASE s.next_seqno = 0
      <4>1. t = s
        BY <1>4, <3>2
      <4>2. g.sender.timer = s.timer
        BY <2>2, <4>1, Zenon DEF SameButOut
      <4> QED BY <1>2, <2>2, <2>3, <3>2, <4>2 DEF Alive
    <3> QED BY <1>8, <3>1, <3>2
  <2>5. Advance(g, h, d, p, total) /\ Settled(h)
    BY <2>3, <2>4, TestAdvance, Zenon
  <2> HIDE DEF h
  <2>6. Advance(c, h, d, p, total)
    BY <2>2, <2>5, AdvanceStill, Zenon
  <2> QED BY <2>1, <2>5, <2>6
<1> QED BY <1>9, <1>10

\* TCPSpongeSocket reads from the inbound stream, even of a connection that is over.
LEMMA ReadAdvance ==
    ASSUME NEW total \in Lengths, NEW p \in Peer, NEW c, NEW d, Endpoint(c, d, p, total),
           Settled(c), NEW n \in Nat,
           n <= c.receiver.reassembler.output.buffer_size, NEW e,
           e = [c EXCEPT !.receiver.reassembler.output = pop_output(@, n)]
    PROVE  Advance(c, e, d, p, total) /\ Settled(e) /\ e.segments_out = c.segments_out
<1> DEFINE s == c.sender  v == c.receiver  q == v.reassembler.output
           x == Reoutput(v, pop_output(q, n))
<1>1. /\ Members(c) /\ Ahead(s, v, c, d, p, total) /\ Fine(s, v, p, total)
  BY EndpointAhead, Zenon DEF Endpoint
<1>2. /\ Ahead(s, x, c, d, p, total) /\ x.reassembler.output.error = q.error
      /\ x.reassembler.output.end_input = q.end_input /\ x.syn = v.syn
  BY <1>1, AheadPop
<1>3. /\ Members(e) /\ e.sender = s /\ e.receiver = x /\ e.segments_out = c.segments_out
      /\ SameRest(c, e)
  BY <1>1 DEF Members, SameRest, Reoutput
<1> HIDE DEF x
<1>4. Advance(c, e, d, p, total)
  BY <1>2, <1>3, HalvesAdvance, Zenon
<1>5. Settled(e)
  BY <1>2, <1>3, Zenon DEF Settled, Alive, Working, Over, SameRest
<1> QED BY <1>3, <1>4, <1>5

-----------------------------------------------------------------------------

\* The indices that a receiver has are numbers.
LEMMA AcceptedNat ==
    ASSUME NEW total \in Lengths, NEW p \in Peer, NEW v, ReceiverFine(v, p, total)
    PROVE  Accepted(v.reassembler) \subseteq Nat
<1> DEFINE r == v.reassembler  buf == r.unassemble_buffer
<1>1. Sound(r, Capacity, total[Other(p)])
  BY ReceiverNumbers
<1>2. /\ r.next_pos \in 0 .. total[Other(p)] /\ total[Other(p)] \in Nat
      /\ Apart(buf, r.next_pos + 1, total[Other(p)], r.output.bytes_read + Capacity)
  BY <1>1, ReceiverNumbers, Zenon DEF Sound, Tidy
<1>3. DOMAIN buf \subseteq Nat /\ \A k \in DOMAIN buf : SegEnd(buf, k) \in Nat
  BY <1>2, Zenon DEF Apart
<1>4. ASSUME NEW i \in Held(buf) PROVE i \in Nat
  <2>1. PICK k \in DOMAIN buf : i \in k .. SegEnd(buf, k) - 1
    BY Zenon DEF Held
  <2> QED BY <1>3, <2>1
<1>5. 0 .. r.next_pos - 1 \subseteq Nat
  BY <1>2
<1> QED BY <1>4, <1>5, Zenon DEF Accepted

\* The connection c of p, between two calls, with d that of the other endpoint.
Paired(c, d, p, total) == Endpoint(c, d, p, total) /\ Settled(c)

\* A call makes e of c, and f is left when what it queued stays, or leaves.
LEMMA PairStep ==
    ASSUME NEW total \in Lengths, NEW p \in Peer, NEW c, NEW d, Paired(c, d, p, total), Paired(d,
           c, Other(p), total),
           NEW e, Advance(c, e, d, p, total), Settled(e),
           NEW f, Members(f), f.sender = e.sender, f.receiver = e.receiver,
           f.segments_out \in {<<>>, e.segments_out}, SameRest(e, f)
    PROVE  /\ Paired(f, d, p, total) /\ Paired(d, f, Other(p), total)
           /\ \A seg : Valid(seg, c.sender, c.receiver, p) => Valid(seg, f.sender, f.receiver, p)
           /\ \A seg \in Range(e.segments_out) : Valid(seg, f.sender, f.receiver, p)
<1>1. /\ Fine(c.sender, c.receiver, p, total) /\ Fine(f.sender, f.receiver, p, total)
      /\ Later(c.sender, c.receiver, f.sender, f.receiver)
      /\ Heard(f.sender, f.receiver, d.sender, d.receiver)
      /\ Queue(e.segments_out, f.sender, f.receiver, p)
  BY Zenon DEF Paired, Advance, Endpoint
<1>2. Paired(f, d, p, total)
  <2>1. Queue(<<>>, f.sender, f.receiver, p)
    BY DEF Queue
  <2>2. Settled(f)
    BY Zenon DEF Settled, Alive, Working, Over, SameRest
  <2>3. Queue(f.segments_out, f.sender, f.receiver, p)
    BY <1>1, <2>1, Zenon
  <2> QED BY <1>1, <2>2, <2>3, Zenon DEF Paired, Endpoint
<1>3. Paired(d, f, Other(p), total)
  <2>1. Fine(d.sender, d.receiver, Other(p), total) /\ Heard(d.sender, d.receiver, c.sender, c.receiver)
    BY Zenon DEF Paired, Endpoint
  <2>2. Other(p) \in Peer
    BY TwoPeers
  <2>3. d.sender.abs_ackno \in Nat
    BY <2>1, <2>2, SenderNumbers DEF Fine
  <2>4. Accepted(d.receiver.reassembler) \subseteq Nat
    BY <2>1, <2>2, AcceptedNat, Zenon DEF Fine
  <2>5. Heard(d.sender, d.receiver, f.sender, f.receiver)
    BY <1>1, <2>1, <2>3, <2>4, HeardLater
  <2> QED BY <2>5, Zenon DEF Paired, Endpoint
<1>4. ASSUME NEW seg, Valid(seg, c.sender, c.receiver, p)
      PROVE  Valid(seg, f.sender, f.receiver, p)
  BY <1>1, <1>4, ValidLater, Zenon
<1>5. ASSUME NEW seg \in Range(e.segments_out) PROVE Valid(seg, f.sender, f.receiver, p)
  <2>1. e.segments_out \in Seq(Wired)
    BY <1>1, Zenon DEF Queue
  <2>2. PICK i \in 1 .. Len(e.segments_out) : seg = e.segments_out[i]
    BY <2>1 DEF Range
  <2> QED BY <1>1, <2>2, Zenon DEF Queue
<1> QED BY <1>2, <1>3, <1>4, <1>5

\* What is under way from q, whose connection is d.
UnderWay(segs, d, q) == \A seg \in segs : Valid(seg, d.sender, d.receiver, q)

\* The two connections and the network, with streams of these lengths.
Base(total) ==
    /\ DOMAIN conn = Peer /\ DOMAIN net = Peer
    /\ \A p \in Peer : /\ Paired(conn[p], conn[Other(p)], p, total)
                       /\ UnderWay(net[p], conn[Other(p)], Other(p))

\* The inductive invariant.
Inv == Base(StreamLen)

\* A call of p, and what it does to the network.
LEMMA InvStep ==
    ASSUME NEW total \in Lengths, Base(total), NEW p \in Peer, NEW e, Advance(conn[p], e,
           conn[Other(p)], p, total), Settled(e),
           NEW f, Members(f), f.sender = e.sender, f.receiver = e.receiver,
           f.segments_out \in {<<>>, e.segments_out}, SameRest(e, f),
           conn' = [conn EXCEPT ![p] = f], DOMAIN net' = Peer, net'[p] \subseteq net[p],
           \A seg \in net'[Other(p)] : seg \in net[Other(p)] \/ seg \in Range(e.segments_out)
    PROVE  Base(total)'
<1> DEFINE q == Other(p)  c == conn[p]  d == conn[q]
<1>1. q \in Peer /\ q # p /\ Other(q) = p /\ \A x \in Peer : x = p \/ x = q
  BY TwoPeers
<1>2. /\ Paired(c, d, p, total) /\ Paired(d, c, q, total)
      /\ UnderWay(net[p], d, q) /\ UnderWay(net[q], c, p)
  BY <1>1, Zenon DEF Base
<1>3. DOMAIN conn' = Peer /\ conn'[p] = f /\ conn'[q] = d
  BY <1>1 DEF Base
<1>4. /\ Paired(f, d, p, total) /\ Paired(d, f, q, total)
      /\ \A seg : Valid(seg, c.sender, c.receiver, p) => Valid(seg, f.sender, f.receiver, p)
      /\ \A seg \in Range(e.segments_out) : Valid(seg, f.sender, f.receiver, p)
  BY <1>2, PairStep, Zenon
<1>5. UnderWay(net'[p], d, q)
  BY <1>2, Zenon DEF UnderWay
<1>6. UnderWay(net'[q], f, p)
  BY <1>2, <1>4, Zenon DEF UnderWay
<1> HIDE DEF q, c, d
<1>7. ASSUME NEW x \in Peer
      PROVE  Paired(conn'[x], conn'[Other(x)], x, total) /\ UnderWay(net'[x], conn'[Other(x)], Other(x))
  <2>1. CASE x = p
    BY <1>3, <1>4, <1>5, <2>1 DEF q
  <2>2. CASE x = q
    BY <1>1, <1>3, <1>4, <1>6, <2>2
  <2> QED BY <1>1, <2>1, <2>2
<1> QED BY <1>3, <1>7 DEF Base

\* What is queued goes to the network.
LEMMA TransmitStep ==
    ASSUME NEW total \in Lengths, Base(total), NEW p \in Peer, NEW e, Advance(conn[p], e,
           conn[Other(p)], p, total), Settled(e),
           NEW under_way, DOMAIN under_way = Peer, \A x \in Peer : under_way[x] \subseteq net[x],
           NEW fault, Transmit(p, e, under_way, fault)
    PROVE  Base(total)'
<1> DEFINE q == Other(p)  f == [e EXCEPT !.segments_out = <<>>]
           keep == IF e.active THEN under_way[p] ELSE {}
           base == [under_way EXCEPT ![p] = keep]
           sent == IF conn[q].active THEN Range(e.segments_out) ELSE {}
<1>1. q \in Peer /\ q # p
  BY TwoPeers
<1>2. PICK arriving \in SUBSET sent :
          /\ conn' = [conn EXCEPT ![p] = f]
          /\ net' = [base EXCEPT ![q] = base[q] \cup arriving]
  BY DEF Transmit
<1>3. sent \subseteq Range(e.segments_out)
  OBVIOUS
<1>4. keep \subseteq under_way[p]
  OBVIOUS
<1> HIDE DEF sent, keep
<1>5. /\ DOMAIN base = Peer /\ base[p] \subseteq net[p] /\ base[q] \subseteq net[q]
  BY <1>1, <1>4
<1> HIDE DEF base
<1>6. /\ DOMAIN net' = Peer /\ net'[p] = base[p] /\ net'[q] = base[q] \cup arriving
  BY <1>1, <1>2, <1>5
<1>7. /\ net'[p] \subseteq net[p]
      /\ \A seg \in net'[q] : seg \in net[q] \/ seg \in Range(e.segments_out)
  BY <1>2, <1>3, <1>5, <1>6
<1>8. Members(e)
  BY Zenon DEF Advance, Endpoint
<1>9. /\ Members(f) /\ f.sender = e.sender /\ f.receiver = e.receiver
      /\ f.segments_out \in {<<>>, e.segments_out} /\ SameRest(e, f)
  BY <1>8 DEF Members, SameRest
<1> HIDE DEF f, q
<1> QED BY <1>2, <1>6, <1>7, <1>9, InvStep, Zenon DEF q

\* The two connections at the start.
LEMMA InitInv == ASSUME NEW total \in Lengths, Init PROVE Base(total)
<1>1. ASSUME NEW p \in Peer
      PROVE  /\ Paired(conn[p], conn[Other(p)], p, total)
             /\ UnderWay(net[p], conn[Other(p)], Other(p))
  <2> DEFINE c == conn[p]  d == conn[Other(p)]  s == NewTCPSender(Capacity, ISN[p])
             v == NewTCPReceiver(Capacity)  r == NewStreamReassembler(Capacity)
             L == total[Other(p)]
  <2>1. /\ Capacity \in Nat /\ Capacity > 0 /\ ISN[p] \in SeqNo /\ total[p] \in Nat /\ L \in Nat
        /\ ISN[Other(p)] \in SeqNo /\ Other(p) \in Peer
    BY TwoPeers, PairConstants
  <2>2. c = NewTCPConnection(Capacity, Capacity, ISN[p]) /\ d.receiver = v
    BY <2>1 DEF Init, NewTCPConnection
  <2>3. /\ Members(c) /\ c.sender = s /\ c.receiver = v /\ c.segments_out = <<>>
        /\ c.active = TRUE /\ c.linger_after_streams_finish = TRUE
    BY <2>2 DEF NewTCPConnection, Members
  <2>4. /\ Good(s, 0, ISN[p], Capacity) /\ NotStalled(s, 0)
        /\ s.segments_out = <<>> /\ s.stream = NewByteStream(Capacity) /\ s.next_seqno = 0
        /\ s.abs_ackno = 0 /\ s.window_size = 1
    BY <2>1, NewSender, ZenonT(60)
  <2>5. s.timer.running = FALSE /\ s.timer.consecutive_retransmissions = 0
    BY DEF NewTCPSender, NewTimer
  <2>6. /\ s.stream.bytes_written = 0 /\ s.stream.end_input = FALSE /\ s.stream.error = FALSE
        /\ r.output.error = FALSE /\ r.output.end_input = FALSE /\ r.eof_appear_sign = FALSE
    BY <2>4 DEF NewByteStream, NewStreamReassembler
  <2>7. Sound(r, Capacity, L) /\ Accepted(r) = {}
    BY <2>1, NewSound, Zenon
  <2>8. /\ v.reassembler = r /\ v.syn = FALSE
        /\ DOMAIN v = {"reassembler", "capacity", "syn", "isn"}
    BY DEF NewTCPReceiver
  <2> HIDE DEF c, d, s, v, r
  <2>9. SenderFine(s, p, total)
    <3>1. s.window_size <= Capacity /\ s.stream.bytes_written <= total[p]
      BY <2>1, <2>4, <2>6
    <3> QED BY <2>4, <2>6, <3>1 DEF SenderFine
  <2>10. ReceiverFine(v, p, total)
    BY <2>6, <2>7, <2>8 DEF ReceiverFine, ReceiverSound, L
  <2>11. Got(v) = 0
    BY <2>8 DEF Got
  <2>12. Heard(s, v, d.sender, d.receiver)
    BY <2>2, <2>4, <2>6, <2>7, <2>8, <2>11 DEF Heard
  <2>13. Endpoint(c, d, p, total)
    <3>1. Queue(<<>>, s, v, p)
      BY DEF Queue
    <3> QED BY <2>3, <2>9, <2>10, <2>12, <3>1, Zenon DEF Endpoint, Fine
  <2>14. Settled(c)
    BY <2>3, <2>4, <2>5, <2>6, <2>8 DEF Settled, Alive, Working
  <2>15. UnderWay(net[p], d, Other(p))
    BY DEF Init, UnderWay
  <2> QED BY <2>3, <2>13, <2>14, <2>15, Zenon DEF c, d, Paired
<1> QED BY <1>1 DEF Init, Base

-----------------------------------------------------------------------------

\* The end of a stream that is over.
AtEnd(s) == s.stream.end_input = TRUE /\ s.stream.buffer_size = 0

\* The cases of a sender.
SenderCases(s) ==
    \/ s.stream.error = TRUE /\ sender_summary(s) = "ERROR"
    \/ /\ s.stream.error = FALSE
       /\ \/ s.next_seqno = 0 /\ sender_summary(s) = "CLOSED"
          \/ /\ s.next_seqno > 0 /\ s.bytes_in_flight = s.next_seqno
             /\ sender_summary(s) = "SYN_SENT"
          \/ /\ s.next_seqno > 0 /\ s.abs_ackno > 0
             /\ \/ ~AtEnd(s) \/ s.next_seqno < s.stream.bytes_written + 2
             /\ sender_summary(s) = "SYN_ACKED"
          \/ /\ s.next_seqno > 0 /\ s.abs_ackno > 0 /\ AtEnd(s)
             /\ s.next_seqno = s.stream.bytes_written + 2 /\ s.bytes_in_flight > 0
             /\ sender_summary(s) = "FIN_SENT"
          \/ /\ Outbound(s) /\ s.next_seqno > 0 /\ s.abs_ackno = s.next_seqno
             /\ sender_summary(s) = "FIN_ACKED"

\* state_summary of a sender, case by case.
LEMMA SenderState ==
    ASSUME NEW total \in Lengths, NEW p \in Peer, NEW s, SenderFine(s, p, total)
    PROVE  SenderCases(s)
<1> DEFINE n == s.next_seqno  w == s.stream.bytes_written  fl == s.bytes_in_flight
           er == s.stream.error  a == s.abs_ackno
<1>1. /\ n \in Nat /\ w \in Nat /\ fl \in Nat /\ er \in BOOLEAN /\ a \in Nat /\ n <= w + 2
      /\ s.stream.end_input \in BOOLEAN /\ s.stream.buffer_size \in Nat
      /\ (fl = 0 => a = n) /\ (a = 0 => fl = n)
  BY SenderNumbers, FlightCounts, Zenon
<1>2. eof(s.stream) = AtEnd(s)
  BY <1>1 DEF eof, AtEnd
<1> DEFINE y == sender_summary(s)
<1>3. y = IF er = TRUE THEN "ERROR" ELSE IF n = 0 THEN "CLOSED"
          ELSE IF n = fl THEN "SYN_SENT"
          ELSE IF ~AtEnd(s) \/ n < w + 2 THEN "SYN_ACKED"
          ELSE IF fl > 0 THEN "FIN_SENT" ELSE "FIN_ACKED"
  <2>1. CASE er = TRUE
    BY <2>1 DEF sender_summary
  <2>2. CASE er = FALSE
    <3>1. CASE n = 0
      BY <2>2, <3>1 DEF sender_summary
    <3>2. CASE n > 0 /\ n = fl
      BY <2>2, <3>2 DEF sender_summary
    <3>3. CASE n > 0 /\ n # fl
      BY <1>2, <2>2, <3>3 DEF sender_summary
    <3>4. n = 0 \/ (n > 0 /\ n = fl) \/ (n > 0 /\ n # fl)
      BY <1>1
    <3> QED BY <3>1, <3>2, <3>3, <3>4, Zenon
  <2> QED BY <1>1, <2>1, <2>2
<1> HIDE DEF y
<1>4. AtEnd(s) /\ n = w + 2 /\ fl = 0 => Outbound(s)
  BY DEF AtEnd, Outbound
<1> HIDE DEF n, w, fl, er, a
<1>5. \/ er = TRUE /\ y = "ERROR"
      \/ /\ er = FALSE
         /\ \/ n = 0 /\ y = "CLOSED"
            \/ n > 0 /\ fl = n /\ y = "SYN_SENT"
            \/ n > 0 /\ a > 0 /\ (~AtEnd(s) \/ n < w + 2) /\ y = "SYN_ACKED"
            \/ n > 0 /\ a > 0 /\ AtEnd(s) /\ n = w + 2 /\ fl > 0 /\ y = "FIN_SENT"
            \/ Outbound(s) /\ n > 0 /\ a = n /\ y = "FIN_ACKED"
  BY <1>1, <1>3, <1>4
<1> QED BY <1>5, Zenon DEF y, n, w, fl, er, a, SenderCases

\* The cases of a receiver.
ReceiverCases(v, o) ==
    \/ o.error = TRUE /\ receiver_summary(v) = "ERROR"
    \/ o.error = FALSE /\ v.syn = FALSE /\ receiver_summary(v) = "LISTEN"
    \/ /\ o.error = FALSE /\ v.syn = TRUE
       /\ \/ o.end_input = TRUE /\ receiver_summary(v) = "FIN_RECV"
          \/ o.end_input = FALSE /\ receiver_summary(v) = "SYN_RECV"

\* state_summary of a receiver, case by case.
LEMMA ReceiverState ==
    ASSUME NEW total \in Lengths, NEW p \in Peer, NEW v, ReceiverFine(v, p, total)
    PROVE  ReceiverCases(v, v.reassembler.output)
<1> DEFINE o == v.reassembler.output
<1>1. v.syn \in BOOLEAN /\ Sound(v.reassembler, Capacity, total[Other(p)])
  BY ReceiverNumbers, Zenon
<1>2. o.end_input \in BOOLEAN /\ o.error \in BOOLEAN
  BY <1>1 DEF Sound, Tidy, InOrder
<1>3. CASE o.error = TRUE
  BY <1>3 DEF receiver_summary, stream_out, ReceiverCases
<1>4. CASE o.error = FALSE /\ v.syn = FALSE
  BY <1>4 DEF receiver_summary, stream_out, has_ackno, ReceiverCases
<1>5. CASE o.error = FALSE /\ v.syn = TRUE
  BY <1>2, <1>5 DEF receiver_summary, stream_out, has_ackno, ReceiverCases
<1> QED BY <1>1, <1>2, <1>3, <1>4, <1>5

\* A connection whose SYN is not sent listens.
LEMMA ListenState ==
    ASSUME NEW total \in Lengths, NEW p \in Peer, NEW c, NEW d, Endpoint(c, d, p, total), Alive(c),
           c.sender.next_seqno = 0
    PROVE  state(c) = Official.LISTEN
<1>1. SenderFine(c.sender, p, total) /\ ReceiverFine(c.receiver, p, total)
  BY Zenon DEF Endpoint, Fine
<1>2. /\ c.active = TRUE /\ c.linger_after_streams_finish \in BOOLEAN
      /\ (c.linger_after_streams_finish = FALSE => c.receiver.reassembler.output.end_input = TRUE)
      /\ c.sender.stream.error = FALSE /\ c.receiver.reassembler.output.error = FALSE
      /\ (c.receiver.syn = TRUE => c.sender.next_seqno > 0)
  BY Zenon DEF Alive, Working
<1>3. c.receiver.syn \in BOOLEAN
  BY <1>1, ReceiverNumbers
<1>4. c.receiver.syn = FALSE
  BY <1>2, <1>3
<1>5. /\ c.receiver.reassembler.output.end_input \in BOOLEAN
      /\ (c.receiver.reassembler.output.end_input = TRUE => c.receiver.syn = TRUE)
  BY <1>1, InboundEnded
<1>6. c.linger_after_streams_finish = TRUE
  BY <1>2, <1>4, <1>5
<1>7. receiver_summary(c.receiver) = "LISTEN"
  <2>1. ReceiverCases(c.receiver, c.receiver.reassembler.output)
    BY <1>1, ReceiverState, Zenon
  <2> QED BY <1>2, <1>4, <2>1 DEF ReceiverCases
<1>8. sender_summary(c.sender) = "CLOSED"
  BY <1>2 DEF sender_summary
<1> QED BY <1>2, <1>6, <1>7, <1>8 DEF state, Official, Tuple

-----------------------------------------------------------------------------

\* What the invariant says about the two connections.
LEMMA InvParts ==
    ASSUME NEW total \in Lengths, Base(total), NEW p \in Peer
    PROVE  /\ Other(p) \in Peer
           /\ Endpoint(conn[p], conn[Other(p)], p, total) /\ Settled(conn[p])
           /\ Endpoint(conn[Other(p)], conn[p], Other(p), total) /\ Settled(conn[Other(p)])
           /\ SenderFine(conn[p].sender, p, total) /\ ReceiverFine(conn[p].receiver, p, total)
           /\ SenderFine(conn[Other(p)].sender, Other(p), total)
           /\ ReceiverFine(conn[Other(p)].receiver, Other(p), total)
           /\ conn[p].active \in BOOLEAN
<1>1. Other(p) \in Peer /\ Other(Other(p)) = p
  BY TwoPeers
<1>2. Paired(conn[p], conn[Other(p)], p, total) /\ Paired(conn[Other(p)], conn[p], Other(p), total)
  BY <1>1, Zenon DEF Base
<1>3. conn[p].active \in BOOLEAN
  BY <1>2 DEF Paired, Settled, Alive, Working, Over
<1> QED BY <1>1, <1>2, <1>3, Zenon DEF Paired, Endpoint, Fine

\* A connection that the event loop serves.
LEMMA ServedAlive ==
    ASSUME NEW total \in Lengths, Base(total), NEW p \in Peer, conn[p].active
    PROVE  conn[p].active = TRUE /\ Alive(conn[p]) /\ Working(conn[p])
<1>1. conn[p].active = TRUE
  BY InvParts
<1> QED BY <1>1, InvParts DEF Settled, Over, Alive

\* Connect
LEMMA ConnectInv ==
    ASSUME NEW total \in Lengths, Base(total), NEW p \in Peer, Connect(p) PROVE Base(total)'
<1> DEFINE e == connect(conn[p])
<1>1. Transmit(p, e, net, 0) /\ conn[p].sender.next_seqno = 0
  BY Zenon DEF Connect
<1>2. Advance(conn[p], e, conn[Other(p)], p, total) /\ Settled(e)
  BY <1>1, InvParts, ConnectAdvance
<1> HIDE DEF e
<1>3. DOMAIN net = Peer /\ \A x \in Peer : net[x] \subseteq net[x]
  BY DEF Base
<1> QED BY <1>1, <1>2, <1>3, TransmitStep, Zenon

\* Write
LEMMA WriteInv == ASSUME NEW total \in Lengths, Base(total), NEW p \in Peer, NEW len \in Nat,
           total[p] = StreamLen[p], Write(p, len)
    PROVE  Base(total)'
<1> DEFINE c == conn[p]  stream == c.sender.stream
           e == connection_write(c, Bytes(stream.bytes_written, len))
<1>1. /\ Transmit(p, e, net, 0) /\ c.active /\ ~stream.end_input
      /\ stream.bytes_written + len <= total[p]
  BY Zenon DEF Write
<1>2. stream.end_input = FALSE /\ len \in Nat
  <2>1. stream.end_input \in BOOLEAN
    BY InvParts, SenderNumbers
  <2> QED BY <1>1, <2>1, PairConstants
<1>3. Endpoint(c, conn[Other(p)], p, total) /\ Settled(c) /\ c.active = TRUE
  BY <1>1, InvParts, ServedAlive
<1>4. Advance(c, e, conn[Other(p)], p, total) /\ Settled(e)
  BY <1>1, <1>2, <1>3, WriteAdvance
<1> HIDE DEF e
<1>5. DOMAIN net = Peer /\ \A x \in Peer : net[x] \subseteq net[x]
  BY DEF Base
<1> QED BY <1>1, <1>4, <1>5, TransmitStep, Zenon

\* EndInput
LEMMA EndInputInv == ASSUME NEW total \in Lengths, Base(total), NEW p \in Peer,
           total[p] = StreamLen[p], EndInput(p)
    PROVE  Base(total)'
<1> DEFINE c == conn[p]  stream == c.sender.stream  e == end_input_stream(c)
<1>1. /\ Transmit(p, e, net, 0) /\ c.active /\ ~stream.end_input
      /\ stream.bytes_written = total[p] /\ Connected(p)
  BY Zenon DEF EndInput
<1>2. stream.end_input = FALSE /\ c.sender.next_seqno \in Nat
  <2>1. stream.end_input \in BOOLEAN /\ c.sender.next_seqno \in Nat
    BY InvParts, SenderNumbers
  <2> QED BY <1>1, <2>1
<1>3. Endpoint(c, conn[Other(p)], p, total) /\ Settled(c) /\ c.active = TRUE /\ Alive(c)
  BY <1>1, InvParts, ServedAlive
<1>4. c.sender.next_seqno > 0
  <2>1. state(c) # Official.LISTEN
    BY <1>1, Zenon DEF Connected
  <2>2. c.sender.next_seqno # 0
    BY <1>3, <2>1, ListenState, Zenon
  <2> QED BY <1>2, <2>2
<1>5. Advance(c, e, conn[Other(p)], p, total) /\ Settled(e)
  BY <1>1, <1>2, <1>3, <1>4, EndAdvance
<1> HIDE DEF e
<1>6. DOMAIN net = Peer /\ \A x \in Peer : net[x] \subseteq net[x]
  BY DEF Base
<1> QED BY <1>1, <1>5, <1>6, TransmitStep, Zenon

\* Tick
LEMMA TickInv == ASSUME NEW total \in Lengths, Base(total), NEW p \in Peer, Tick(p) PROVE Base(total)'
<1> DEFINE e == tick(conn[p], 1)  fault == IF \A q \in Peer : net[q] = {} THEN 0 ELSE 1
<1>1. Transmit(p, e, net, fault) /\ conn[p].active
  BY Zenon DEF Tick
<1>2. Endpoint(conn[p], conn[Other(p)], p, total) /\ Settled(conn[p]) /\ conn[p].active = TRUE
  BY <1>1, InvParts, ServedAlive
<1>3. Advance(conn[p], e, conn[Other(p)], p, total) /\ Settled(e)
  BY <1>2, TickAdvance
<1> HIDE DEF e, fault
<1>4. DOMAIN net = Peer /\ \A x \in Peer : net[x] \subseteq net[x]
  BY DEF Base
<1> QED BY <1>1, <1>3, <1>4, TransmitStep, Zenon

\* Read
LEMMA ReadInv ==
    ASSUME NEW total \in Lengths, Base(total), NEW p \in Peer, NEW n \in 1 .. Capacity, Read(p, n)
    PROVE  Base(total)'
<1> DEFINE c == conn[p]  e == [c EXCEPT !.receiver.reassembler.output = pop_output(@, n)]
<1>1. n <= c.receiver.reassembler.output.buffer_size /\ n \in Nat
  BY PairConstants DEF Read, stream_out
<1>2. conn' = [conn EXCEPT ![p] = e] /\ net' = net
  BY DEF Read
<1>3. Endpoint(c, conn[Other(p)], p, total) /\ Settled(c)
  BY Zenon DEF Base, Paired
<1>4. Advance(c, e, conn[Other(p)], p, total) /\ Settled(e) /\ e.segments_out = c.segments_out
  BY <1>1, <1>3, ReadAdvance
<1> HIDE DEF e
<1>5. Members(e) /\ e.segments_out \in {<<>>, e.segments_out} /\ SameRest(e, e)
  BY <1>3, <1>4 DEF Advance, Endpoint, SameRest
<1>6. /\ DOMAIN net' = Peer /\ net'[p] \subseteq net[p]
      /\ \A seg \in net'[Other(p)] : seg \in net[Other(p)] \/ seg \in Range(e.segments_out)
  BY <1>2 DEF Base
<1> QED BY <1>2, <1>4, <1>5, <1>6, InvStep, Zenon

\* What p makes of a segment: nothing when it listens and it is no SYN.
Taken(p, seg) ==
    IF Listening(p) /\ ~(seg.syn /\ ~seg.rst) THEN conn[p] ELSE segment_received(conn[p], seg)

\* A segment arrives.
LEMMA TakenAdvance ==
    ASSUME NEW total \in Lengths, Base(total), NEW p \in Peer, Running(p), conn[p].active,
           NEW seg \in net[p]
    PROVE  Advance(conn[p], Taken(p, seg), conn[Other(p)], p, total) /\ Settled(Taken(p, seg))
<1> DEFINE c == conn[p]  d == conn[Other(p)]
<1>1. Endpoint(c, d, p, total) /\ Settled(c) /\ Alive(c) /\ Working(c)
  BY InvParts, ServedAlive
<1>2. SenderFine(d.sender, Other(p), total) /\ ReceiverFine(d.receiver, Other(p), total)
  BY InvParts
<1>3. Valid(seg, d.sender, d.receiver, Other(p))
  BY Zenon DEF Base, UnderWay
<1>4. seg.syn \in BOOLEAN /\ seg.rst \in BOOLEAN
  <2>1. seg \in Wired
    BY <1>3, Zenon DEF Valid
  <2> QED BY <2>1, WiredFields
<1>5. CASE Listening(p) /\ ~(seg.syn /\ ~seg.rst)
  <2>1. Taken(p, seg) = c
    BY <1>5, Zenon DEF Taken
  <2> QED BY <1>1, <2>1, EndpointAhead
<1>6. CASE ~(Listening(p) /\ ~(seg.syn /\ ~seg.rst))
  <2>1. Taken(p, seg) = segment_received(c, seg)
    BY <1>6, Zenon DEF Taken
  <2>2. c.sender.next_seqno > 0 \/ (seg.syn = TRUE /\ seg.rst = FALSE)
    <3>1. CASE p \in opener
      BY <3>1 DEF Running
    <3>2. CASE p \notin opener /\ c.receiver.syn = TRUE
      BY <1>1, <3>2, Zenon DEF Alive
    <3>3. CASE p \notin opener /\ c.receiver.syn = FALSE
      BY <1>4, <1>6, <3>3 DEF Listening
    <3>4. c.receiver.syn \in BOOLEAN
      BY InvParts, ReceiverNumbers
    <3> QED BY <3>1, <3>2, <3>3, <3>4
  <2>3. CASE seg.rst = FALSE
    <3>1. c.sender.next_seqno > 0 \/ seg.syn = TRUE
      BY <2>2
    <3> QED BY <1>1, <1>2, <1>3, <2>1, <2>3, <3>1, ReceiveAdvance
  <2>4. CASE seg.rst = TRUE
    <3>1. c.sender.next_seqno > 0
      BY <2>2, <2>4
    <3> QED BY <1>1, <2>1, <2>4, <3>1, ResetAdvance
  <2> QED BY <1>4, <2>3, <2>4
<1> QED BY <1>5, <1>6

\* Receive
LEMMA ReceiveInv ==
    ASSUME NEW total \in Lengths, Base(total), NEW p \in Peer, NEW seg \in net[p],
           NEW again \in BOOLEAN, Receive(p, seg, again)
    PROVE  Base(total)'
<1> DEFINE e == Taken(p, seg)  rest == [net EXCEPT ![p] = @ \ {seg}]
<1>1. Running(p) /\ conn[p].active /\ (Transmit(p, e, net, 1) \/ Transmit(p, e, rest, 0))
  BY DEF Receive, Taken
<1>2. Advance(conn[p], e, conn[Other(p)], p, total) /\ Settled(e)
  BY <1>1, TakenAdvance, Zenon
<1>3. DOMAIN net = Peer /\ \A x \in Peer : net[x] \subseteq net[x]
  BY DEF Base
<1>4. DOMAIN rest = Peer /\ \A x \in Peer : rest[x] \subseteq net[x]
  BY <1>3
<1> HIDE DEF e, rest
<1>5. CASE Transmit(p, e, net, 1)
  BY <1>2, <1>3, <1>5, TransmitStep, Zenon
<1>6. CASE Transmit(p, e, rest, 0)
  BY <1>2, <1>4, <1>6, TransmitStep, Zenon
<1> QED BY <1>1, <1>5, <1>6

\* The inductive invariant holds in every reachable state: at the start, and each
\* action of the event loop of either endpoint keeps it.
THEOREM PairInvariant == Spec => []Inv
<1>1. Init => Inv
  BY PairConstants, InitInv DEF Inv
<1>2. Inv /\ [Next]_vars => Inv'
  <2> SUFFICES ASSUME Base(StreamLen), StreamLen \in Lengths, [Next]_vars PROVE Base(StreamLen)'
    BY PairConstants DEF Inv
  <2>1. CASE UNCHANGED vars
    BY <2>1 DEF vars, Base
  <2>2. CASE Next
    <3>1. PICK p \in Peer : \/ Connect(p)
                            \/ \E seg \in net[p], again \in BOOLEAN : Receive(p, seg, again)
                            \/ \E len \in 1 .. Capacity : Write(p, len)
                            \/ EndInput(p)
                            \/ \E n \in 1 .. Capacity : Read(p, n)
                            \/ Tick(p)
      BY <2>2, Zenon DEF Next
    <3>2. CASE Connect(p)
      BY <3>2, ConnectInv, Zenon
    <3>3. CASE \E seg \in net[p], again \in BOOLEAN : Receive(p, seg, again)
      BY <3>3, ReceiveInv, Zenon
    <3>4. CASE \E len \in 1 .. Capacity : Write(p, len)
      <4>1. PICK len \in 1 .. Capacity : Write(p, len)
        BY <3>4
      <4>2. len \in Nat
        BY PairConstants
      <4> QED BY <4>1, <4>2, WriteInv, Zenon
    <3>5. CASE EndInput(p)
      BY <3>5, EndInputInv, Zenon
    <3>6. CASE \E n \in 1 .. Capacity : Read(p, n)
      BY <3>6, ReadInv, Zenon
    <3>7. CASE Tick(p)
      BY <3>7, TickInv, Zenon
    <3> QED BY <3>1, <3>2, <3>3, <3>4, <3>5, <3>6, <3>7
  <2> QED BY <2>1, <2>2
<1> QED BY <1>1, <1>2, PTL DEF Spec

-----------------------------------------------------------------------------

\* What the receiver of p has, the sender of the other endpoint has sent.
LEMMA ReceivedWasSent ==
    ASSUME NEW total \in Lengths, Base(total), NEW p \in Peer
    PROVE  LET out == conn[p].receiver.reassembler.output  s == conn[Other(p)].sender
           IN  /\ out.bytes_written \in Nat /\ s.stream.bytes_read \in Nat
               /\ out.bytes_written <= s.stream.bytes_read
               /\ Got(conn[p].receiver) <= s.next_seqno
               /\ out.end_input \in BOOLEAN
               /\ out.end_input = TRUE => /\ s.stream.end_input = TRUE
                                          /\ s.next_seqno = s.stream.bytes_written + 2
                                          /\ s.stream.bytes_written = total[Other(p)]
                                          /\ out.bytes_written = total[Other(p)]
                                          /\ conn[p].receiver.syn = TRUE
<1> DEFINE q == Other(p)  v == conn[p].receiver  r == v.reassembler  out == r.output
           s == conn[q].sender  n == s.next_seqno  w == out.bytes_written
           rd == s.stream.bytes_read  L == total[q]
<1>1. /\ ReceiverFine(v, p, total) /\ SenderFine(s, q, total) /\ q \in Peer
      /\ Heard(conn[p].sender, v, s, conn[q].receiver)
  BY InvParts, Zenon DEF Endpoint
<1>2. /\ n \in Nat /\ rd \in Nat /\ s.stream.bytes_written \in Nat
      /\ (n > 0 => n > rd) /\ s.stream.end_input \in BOOLEAN
  BY <1>1, SenderNumbers
<1>3. /\ v.syn \in BOOLEAN /\ (v.syn = FALSE => Got(v) = 0) /\ Sound(r, Capacity, L) /\ L \in Nat
  BY <1>1, ReceiverNumbers
<1>4. w \in Nat /\ w = r.next_pos /\ r.next_pos \in 0 .. L
  BY <1>3 DEF Sound, Tidy
<1>5. w <= rd
  <2>1. CASE w = 0
    BY <1>2, <2>1
  <2>2. CASE w > 0
    <3>1. w - 1 \in Accepted(r)
      BY <1>4, <2>2 DEF Accepted
    <3>2. w - 1 < rd
      BY <1>1, <3>1, Zenon DEF Heard
    <3> QED BY <1>2, <1>4, <3>2
  <2> QED BY <1>4, <2>1, <2>2
<1>6. /\ out.end_input \in BOOLEAN
      /\ (out.end_input = TRUE => v.syn = TRUE /\ r.eof_appear_sign = TRUE /\ w = L)
  BY <1>1, InboundEnded
<1>7. out.end_input = TRUE => /\ s.stream.end_input = TRUE /\ n = s.stream.bytes_written + 2
                              /\ s.stream.bytes_written = L
  BY <1>1, <1>6, Zenon DEF Heard, SenderFine
<1>8. v.syn = TRUE => n > 0
  BY <1>1, Zenon DEF Heard
<1>9. Got(v) <= n
  <2>1. CASE v.syn = FALSE
    BY <1>2, <1>3, <2>1
  <2>2. CASE v.syn = TRUE
    <3>1. Got(v) = 1 + w + (IF out.end_input THEN 1 ELSE 0)
      BY <2>2 DEF Got, FirstMissing
    <3> HIDE DEF n, w, rd, L, out
    <3>2. CASE out.end_input = TRUE
      BY <1>2, <1>4, <1>6, <1>7, <3>1, <3>2
    <3>3. CASE out.end_input = FALSE
      BY <1>2, <1>4, <1>5, <1>8, <2>2, <3>1, <3>3
    <3> QED BY <1>6, <3>2, <3>3
  <2> QED BY <1>3, <2>1, <2>2
<1> QED BY <1>2, <1>4, <1>5, <1>6, <1>7, <1>9

\* Reached is the acknowledgment number of the receiver.
LEMMA ReachedGot ==
    ASSUME NEW total \in Lengths, Base(total), NEW p \in Peer
    PROVE  Reached(conn[p]) = Got(conn[p].receiver)
<1> DEFINE v == conn[p].receiver  w == v.reassembler.output.bytes_written
           z == IF v.reassembler.output.end_input THEN 1 ELSE 0
<1>1. w \in Nat /\ z \in Nat
  BY ReceivedWasSent
<1>2. Reached(conn[p]) = IF v.syn THEN w + 1 + z ELSE 0
  BY Zenon DEF Reached, stream_out
<1>3. Got(v) = IF v.syn THEN 1 + w + z ELSE 0
  BY Zenon DEF Got, FirstMissing
<1> HIDE DEF w, z
<1>4. w + 1 + z = 1 + w + z
  BY <1>1
<1> QED BY <1>2, <1>3, <1>4 DEF v

\* What the sender of p believes acknowledged, the other endpoint has received; if
\* it is all there is, so is the end of the stream.
LEMMA AckedWasReceived ==
    ASSUME NEW total \in Lengths, Base(total), NEW p \in Peer
    PROVE  LET s == conn[p].sender  v == conn[Other(p)].receiver
           IN  /\ s.abs_ackno <= Got(v) /\ Got(v) <= s.next_seqno
               /\ Got(v) <= total[p] + 2
               /\ s.abs_ackno > 0 => v.syn = TRUE
               /\ s.abs_ackno = total[p] + 2 =>
                      Got(v) = total[p] + 2 /\ v.reassembler.output.end_input = TRUE
<1> DEFINE q == Other(p)  s == conn[p].sender  v == conn[q].receiver  L == total[p]
           a == s.abs_ackno  w == v.reassembler.output.bytes_written
<1>1. q \in Peer /\ Other(q) = p
  BY TwoPeers
<1>2. /\ ReceiverFine(v, q, total) /\ SenderFine(s, p, total)
      /\ Heard(s, conn[p].receiver, conn[q].sender, v)
  BY InvParts, Zenon DEF Endpoint
<1>3. /\ v.syn \in BOOLEAN /\ Got(v) \in Nat /\ Got(v) <= L + 2 /\ (v.syn = FALSE => Got(v) = 0)
      /\ Sound(v.reassembler, Capacity, L) /\ L \in Nat
  BY <1>1, <1>2, ReceiverNumbers
<1>4. a \in Nat
  BY <1>2, SenderNumbers
<1>5. a <= Got(v)
  BY <1>2, Zenon DEF Heard
<1>6. Got(v) <= s.next_seqno /\ v.reassembler.output.end_input \in BOOLEAN
  BY <1>1, ReceivedWasSent
<1>7. w \in Nat /\ w <= L
  BY <1>3 DEF Sound, Tidy
<1>8. a > 0 => v.syn = TRUE
  BY <1>3, <1>4, <1>5
<1>9. ASSUME a = L + 2 PROVE Got(v) = L + 2 /\ v.reassembler.output.end_input = TRUE
  <2>1. Got(v) = L + 2 /\ v.syn = TRUE
    BY <1>3, <1>4, <1>5, <1>8, <1>9
  <2>2. Got(v) = 1 + w + (IF v.reassembler.output.end_input THEN 1 ELSE 0)
    BY <2>1 DEF Got, FirstMissing
  <2>3. ASSUME v.reassembler.output.end_input = FALSE PROVE FALSE
    <3>1. Got(v) = 1 + w + 0
      BY <2>2, <2>3
    <3> HIDE DEF w, L
    <3> QED BY <1>3, <1>7, <2>1, <3>1
  <2> QED BY <1>6, <2>1, <2>3
<1> QED BY <1>3, <1>5, <1>6, <1>8, <1>9

\* What an application can read are the bytes that the other one wrote, in order
\* and each once, and the end of the stream comes only where the other put it:
\* for all streams, and whatever the network loses, repeats or delays.
THEOREM StreamsStayIntact == Spec => []StreamsIntact
<1>1. Inv => StreamsIntact
  <2> SUFFICES ASSUME Base(StreamLen), StreamLen \in Lengths, NEW p \in Peer
               PROVE  LET out == stream_out(conn[p].receiver)
                      IN  /\ out.buffer = Bytes(out.bytes_read, out.bytes_written - out.bytes_read)
                          /\ out.bytes_written <= conn[Other(p)].sender.stream.bytes_read
                          /\ out.end_input => /\ conn[Other(p)].sender.stream.end_input
                                              /\ out.bytes_written = StreamLen[Other(p)]
    BY PairConstants, Zenon DEF Inv, StreamsIntact
  <2> DEFINE out == conn[p].receiver.reassembler.output
             a == out.bytes_read  b == out.bytes_written  k == out.buffer_size
  <2>1. out = stream_out(conn[p].receiver)
    BY Zenon DEF stream_out
  <2>2. /\ b <= conn[Other(p)].sender.stream.bytes_read /\ out.end_input \in BOOLEAN
        /\ (out.end_input = TRUE => /\ conn[Other(p)].sender.stream.end_input = TRUE
                                    /\ b = StreamLen[Other(p)])
    BY ReceivedWasSent
  <2>3. a \in Nat /\ k \in Nat /\ b = a + k /\ out.buffer = Bytes(a, k)
    <3>1. Sound(conn[p].receiver.reassembler, Capacity, StreamLen[Other(p)])
      BY InvParts, ReceiverNumbers
    <3>2. InOrder(out, Capacity)
      BY <3>1, Zenon DEF Sound, Tidy
    <3>3. a \in Nat /\ k \in 0 .. Capacity /\ b = a + k /\ out.buffer = Bytes(a, k)
      BY <3>2, Zenon DEF InOrder
    <3> HIDE DEF out, a, b, k
    <3> QED BY <3>3, PairConstants
  <2> HIDE DEF out, a, b, k
  <2>4. k = b - a
    BY <2>3
  <2>5. out.buffer = Bytes(out.bytes_read, out.bytes_written - out.bytes_read)
    BY <2>3, <2>4 DEF a, b
  <2> QED BY <2>1, <2>2, <2>5 DEF b
<1> QED BY <1>1, PairInvariant, PTL

\* An acknowledgment number never tells a sender more than has been received, and
\* nothing is received that was not sent: no old segment and no wrapped number is
\* misread.
THEOREM AcksStayTruthful == Spec => []AcksAreTruthful
<1>1. Inv => AcksAreTruthful
  <2> SUFFICES ASSUME Base(StreamLen), StreamLen \in Lengths, NEW p \in Peer
               PROVE  /\ conn[p].sender.abs_ackno <= Reached(conn[Other(p)])
                      /\ Reached(conn[Other(p)]) <= conn[p].sender.next_seqno
    BY PairConstants, Zenon DEF Inv, AcksAreTruthful
  <2>1. Reached(conn[Other(p)]) = Got(conn[Other(p)].receiver)
    BY TwoPeers, ReachedGot
  <2> QED BY <2>1, AckedWasReceived
<1> QED BY <1>1, PairInvariant, PTL

\* An endpoint that ends without an error has delivered its whole stream and has
\* received the other's.
THEOREM CleanEndsAreComplete == Spec => []CleanEndIsComplete
<1>1. Inv => CleanEndIsComplete
  <2> SUFFICES ASSUME Base(StreamLen), StreamLen \in Lengths, NEW p \in Peer, CleanEnd(conn[p])
               PROVE  /\ Reached(conn[Other(p)]) = StreamLen[p] + 2
                      /\ stream_out(conn[p].receiver).end_input
                      /\ stream_out(conn[p].receiver).bytes_written = StreamLen[Other(p)]
    BY PairConstants, Zenon DEF Inv, CleanEndIsComplete
  <2> DEFINE s == conn[p].sender
  <2>1. Reached(conn[Other(p)]) = Got(conn[Other(p)].receiver)
    BY TwoPeers, ReachedGot
  <2>2. conn[p].receiver.reassembler.output.end_input = TRUE /\ Outbound(s)
    <3>1. conn[p].active # TRUE /\ s.stream.error # TRUE
      BY DEF CleanEnd
    <3>2. Over(conn[p])
      BY <3>1, InvParts DEF Settled, Alive, Working
    <3> QED BY <3>1, <3>2 DEF Over
  <2>3. s.abs_ackno = StreamLen[p] + 2
    <3>1. SenderFine(s, p, StreamLen)
      BY InvParts
    <3>2. s.bytes_in_flight = 0 => s.abs_ackno = s.next_seqno
      BY <3>1, FlightCounts
    <3> QED BY <2>2, <3>1, <3>2, Zenon DEF SenderFine, Outbound
  <2>4. Got(conn[Other(p)].receiver) = StreamLen[p] + 2
    BY <2>3, AckedWasReceived
  <2>5. conn[p].receiver.reassembler.output.bytes_written = StreamLen[Other(p)]
    BY <2>2, ReceivedWasSent
  <2> QED BY <2>1, <2>2, <2>4, <2>5 DEF stream_out
<1> QED BY <1>1, PairInvariant, PTL

\* A sender that has nothing outstanding has had everything acknowledged.
LEMMA QuietSender ==
    ASSUME NEW total \in Lengths, Base(total), NEW p \in Peer, conn[p].sender.stream.end_input,
           ~conn[p].sender.timer.running
    PROVE  Outbound(conn[p].sender) /\ conn[p].sender.abs_ackno = total[p] + 2
<1> DEFINE s == conn[p].sender  w == s.stream.bytes_written  n == s.next_seqno
<1>1. /\ SenderFine(s, p, total) /\ Good(s, w, ISN[p], Capacity) /\ NotStalled(s, w)
  BY InvParts, Zenon DEF SenderFine
<1>2. /\ n \in Nat /\ w \in Nat /\ s.stream.buffer_size \in Nat /\ n <= w + 2
      /\ s.stream.end_input \in BOOLEAN
  BY <1>1, SenderNumbers
<1>3. s.stream.end_input = TRUE
  BY <1>2
<1>4. w = total[p] /\ n > 0
  BY <1>1, <1>3, Zenon DEF SenderFine
<1>5. s.segments_track = <<>>
  <2>1. TimerOK(s.timer, s.segments_track)
    BY <1>1, Zenon DEF Good, Core
  <2> QED BY <2>1 DEF TimerOK
<1>6. s.abs_ackno = n /\ s.bytes_in_flight = 0
  BY <1>1, <1>5, FlightCounts
<1>7. ~(s.stream.buffer_size > 0) /\ ~(n < w + 2)
  BY <1>1, <1>3, <1>4, <1>5 DEF NotStalled
<1>8. s.stream.buffer_size = 0 /\ n = w + 2
  BY <1>2, <1>7
<1> QED BY <1>3, <1>4, <1>6, <1>8 DEF Outbound

\* Nobody waits for an event that cannot come: once both applications have closed,
\* an endpoint pair without a running timer and without segments under way is
\* finished in both directions.
THEOREM QuietIsFinished == Spec => []QuietMeansFinished
<1>1. Inv => QuietMeansFinished
  <2> SUFFICES ASSUME Base(StreamLen), StreamLen \in Lengths,
                      \A p \in Peer : /\ conn[p].sender.stream.end_input
                                      /\ ~conn[p].sender.timer.running,
                      NEW p \in Peer
               PROVE  check_inbound_ended(conn[p]) /\ check_outbound_ended(conn[p])
    BY PairConstants, Zenon DEF Inv, QuietMeansFinished
  <2> DEFINE q == Other(p)
  <2>1. q \in Peer /\ Other(q) = p
    BY TwoPeers
  <2>2. Outbound(conn[p].sender) /\ conn[q].sender.abs_ackno = StreamLen[q] + 2
    BY <2>1, QuietSender
  <2>3. conn[p].receiver.reassembler.output.end_input = TRUE
    BY <2>1, <2>2, AckedWasReceived
  <2>4. check_inbound_ended(conn[p])
    BY <2>3, InvParts, InboundEnded
  <2>5. check_outbound_ended(conn[p])
    BY <2>2 DEF Outbound, check_outbound_ended, eof
  <2> QED BY <2>4, <2>5
<1> QED BY <1>1, PairInvariant, PTL

-----------------------------------------------------------------------------

\* The tuples that have a name.
LEMMA NamedStates ==
    /\ Tuple("CLOSED",    "LISTEN",   TRUE,  TRUE) \in Range(Official)
    /\ Tuple("SYN_SENT",  "SYN_RECV", TRUE,  TRUE) \in Range(Official)
    /\ Tuple("SYN_SENT",  "LISTEN",   TRUE,  TRUE) \in Range(Official)
    /\ Tuple("SYN_ACKED", "SYN_RECV", TRUE,  TRUE) \in Range(Official)
    /\ Tuple("SYN_ACKED", "FIN_RECV", TRUE,  FALSE) \in Range(Official)
    /\ Tuple("FIN_SENT",  "FIN_RECV", TRUE,  FALSE) \in Range(Official)
    /\ Tuple("FIN_SENT",  "FIN_RECV", TRUE,  TRUE) \in Range(Official)
    /\ Tuple("FIN_SENT",  "SYN_RECV", TRUE,  TRUE) \in Range(Official)
    /\ Tuple("FIN_ACKED", "SYN_RECV", TRUE,  TRUE) \in Range(Official)
    /\ Tuple("FIN_ACKED", "FIN_RECV", TRUE,  TRUE) \in Range(Official)
    /\ Tuple("ERROR",     "ERROR",    FALSE, FALSE) \in Range(Official)
    /\ Tuple("FIN_ACKED", "FIN_RECV", FALSE, FALSE) \in Range(Official)
<1>1. DOMAIN Official = {"LISTEN", "SYN_RCVD", "SYN_SENT", "ESTABLISHED", "CLOSE_WAIT", "LAST_ACK",
                         "CLOSING", "FIN_WAIT_1", "FIN_WAIT_2", "TIME_WAIT", "RESET", "CLOSED"}
  BY DEF Official
<1>2. \A x \in DOMAIN Official : Official[x] \in Range(Official)
  BY Zenon DEF Range
<1>3. /\ Official["LISTEN"]      = Tuple("CLOSED",    "LISTEN",   TRUE,  TRUE)
      /\ Official["SYN_RCVD"]    = Tuple("SYN_SENT",  "SYN_RECV", TRUE,  TRUE)
      /\ Official["SYN_SENT"]    = Tuple("SYN_SENT",  "LISTEN",   TRUE,  TRUE)
      /\ Official["ESTABLISHED"] = Tuple("SYN_ACKED", "SYN_RECV", TRUE,  TRUE)
      /\ Official["CLOSE_WAIT"]  = Tuple("SYN_ACKED", "FIN_RECV", TRUE,  FALSE)
      /\ Official["LAST_ACK"]    = Tuple("FIN_SENT",  "FIN_RECV", TRUE,  FALSE)
      /\ Official["CLOSING"]     = Tuple("FIN_SENT",  "FIN_RECV", TRUE,  TRUE)
      /\ Official["FIN_WAIT_1"]  = Tuple("FIN_SENT",  "SYN_RECV", TRUE,  TRUE)
      /\ Official["FIN_WAIT_2"]  = Tuple("FIN_ACKED", "SYN_RECV", TRUE,  TRUE)
      /\ Official["TIME_WAIT"]   = Tuple("FIN_ACKED", "FIN_RECV", TRUE,  TRUE)
      /\ Official["RESET"]       = Tuple("ERROR",     "ERROR",    FALSE, FALSE)
      /\ Official["CLOSED"]      = Tuple("FIN_ACKED", "FIN_RECV", FALSE, FALSE)
  BY DEF Official
<1> QED BY <1>1, <1>2, <1>3

\* The tuple of a connection that is alive, and of one that is over.
LEMMA StateCases ==
    ASSUME NEW total \in Lengths, NEW p \in Peer, NEW c, NEW d, Endpoint(c, d, p, total), Settled(c)
    PROVE  LET x == sender_summary(c.sender)  y == receiver_summary(c.receiver)
               l == c.linger_after_streams_finish
           IN  \/ /\ state(c) = Tuple(x, y, TRUE, l) /\ l \in BOOLEAN
                  /\ \/ x = "CLOSED" /\ y = "LISTEN" /\ l = TRUE
                     \/ /\ x \in {"SYN_SENT", "SYN_ACKED", "FIN_SENT", "FIN_ACKED"}
                        /\ y \in {"LISTEN", "SYN_RECV"} /\ l = TRUE
                     \/ x \in {"SYN_SENT", "SYN_ACKED", "FIN_SENT"} /\ y = "FIN_RECV"
                     \/ x = "FIN_ACKED" /\ y = "FIN_RECV" /\ l = TRUE
               \/ /\ state(c) = Tuple(x, y, FALSE, FALSE)
                  /\ \/ x = "ERROR" /\ y = "ERROR"
                     \/ x = "FIN_ACKED" /\ y = "FIN_RECV"
<1> DEFINE s == c.sender  v == c.receiver  o == v.reassembler.output
           x == sender_summary(s)  y == receiver_summary(v)  l == c.linger_after_streams_finish
<1>1. SenderFine(s, p, total) /\ ReceiverFine(v, p, total)
  BY Zenon DEF Endpoint, Fine
<1>2. SenderCases(s) /\ ReceiverCases(v, o)
  BY <1>1, SenderState, ReceiverState, Zenon
<1>3. o.end_input \in BOOLEAN /\ (o.end_input = TRUE => v.syn = TRUE)
  BY <1>1, InboundEnded
<1>4. CASE Alive(c) /\ (l = FALSE => ~Outbound(s))
  <2>1. /\ c.active = TRUE /\ l \in BOOLEAN /\ (l = FALSE => o.end_input = TRUE)
        /\ s.stream.error = FALSE /\ o.error = FALSE
    BY <1>4, Zenon DEF Alive, Working
  <2>2. state(c) = Tuple(x, y, TRUE, l)
    BY <2>1 DEF state, Tuple
  <2>3. \/ s.next_seqno = 0 /\ x = "CLOSED"
        \/ x \in {"SYN_SENT", "SYN_ACKED", "FIN_SENT"}
        \/ Outbound(s) /\ x = "FIN_ACKED"
    BY <1>2, <2>1 DEF SenderCases
  <2>4. \/ v.syn = FALSE /\ y = "LISTEN"
        \/ o.end_input = TRUE /\ y = "FIN_RECV"
        \/ o.end_input = FALSE /\ y = "SYN_RECV"
    BY <1>2, <2>1 DEF ReceiverCases
  <2>5. y \in {"LISTEN", "SYN_RECV"} => l = TRUE
    BY <1>3, <2>1, <2>4
  <2>6. s.next_seqno = 0 => y = "LISTEN"
    <3>1. ASSUME s.next_seqno = 0 PROVE y = "LISTEN"
      <4>1. ~(s.next_seqno > 0)
        BY <3>1
      <4>2. v.syn # TRUE
        BY <1>4, <4>1 DEF Alive
      <4> QED BY <1>2, <2>1, <4>2 DEF ReceiverCases
    <3> QED BY <3>1
  <2> HIDE DEF x, y, l, o
  <2>7. \/ x = "CLOSED" /\ y = "LISTEN" /\ l = TRUE
        \/ /\ x \in {"SYN_SENT", "SYN_ACKED", "FIN_SENT", "FIN_ACKED"}
           /\ y \in {"LISTEN", "SYN_RECV"} /\ l = TRUE
        \/ x \in {"SYN_SENT", "SYN_ACKED", "FIN_SENT"} /\ y = "FIN_RECV"
        \/ x = "FIN_ACKED" /\ y = "FIN_RECV" /\ l = TRUE
    BY <1>4, <2>1, <2>3, <2>4, <2>5, <2>6
  <2> QED BY <2>1, <2>2, <2>7 DEF x, y, l
<1>5. CASE Over(c)
  <2>1. c.active = FALSE /\ o.error = s.stream.error
    BY <1>5, Zenon DEF Over
  <2>2. state(c) = Tuple(x, y, FALSE, FALSE)
    BY <2>1 DEF state, Tuple
  <2>3. CASE s.stream.error = TRUE
    <3>1. x = "ERROR" /\ y = "ERROR"
      BY <1>2, <2>1, <2>3 DEF SenderCases, ReceiverCases
    <3> QED BY <2>2, <3>1
  <2>4. CASE s.stream.error = FALSE
    <3>1. o.end_input = TRUE /\ Outbound(s)
      BY <1>5, <2>4 DEF Over
    <3>2. y = "FIN_RECV"
      BY <1>2, <1>3, <2>1, <2>4, <3>1 DEF ReceiverCases
    <3>3. s.bytes_in_flight = 0 /\ AtEnd(s) /\ s.next_seqno = s.stream.bytes_written + 2
      BY <3>1 DEF Outbound, AtEnd
    <3>4. s.next_seqno \in Nat /\ s.stream.bytes_written \in Nat
      BY <1>1, SenderNumbers
    <3>5. /\ ~(s.next_seqno = 0) /\ ~(s.bytes_in_flight = s.next_seqno) /\ ~(s.bytes_in_flight > 0)
          /\ ~(~AtEnd(s) \/ s.next_seqno < s.stream.bytes_written + 2)
      BY <3>3, <3>4
    <3>6. s.stream.error # TRUE
      BY <2>4
    <3>7. x = "FIN_ACKED"
      BY <1>2, <3>5, <3>6, Zenon DEF SenderCases
    <3> QED BY <2>2, <3>2, <3>7
  <2> QED BY <1>5, <2>3, <2>4 DEF Over
<1> QED BY <1>4, <1>5 DEF Settled

\* Every state has a name or is one of the few between them.
LEMMA StateKnown ==
    ASSUME NEW total \in Lengths, NEW p \in Peer, NEW c, NEW d, Endpoint(c, d, p, total), Settled(c)
    PROVE  state(c) \in Range(Official) \cup Between
<1> DEFINE x == sender_summary(c.sender)  y == receiver_summary(c.receiver)
           l == c.linger_after_streams_finish
<1>1. \/ /\ state(c) = Tuple(x, y, TRUE, l) /\ l \in BOOLEAN
         /\ \/ x = "CLOSED" /\ y = "LISTEN" /\ l = TRUE
            \/ /\ x \in {"SYN_SENT", "SYN_ACKED", "FIN_SENT", "FIN_ACKED"}
               /\ y \in {"LISTEN", "SYN_RECV"} /\ l = TRUE
            \/ x \in {"SYN_SENT", "SYN_ACKED", "FIN_SENT"} /\ y = "FIN_RECV"
            \/ x = "FIN_ACKED" /\ y = "FIN_RECV" /\ l = TRUE
      \/ /\ state(c) = Tuple(x, y, FALSE, FALSE)
         /\ \/ x = "ERROR" /\ y = "ERROR"
            \/ x = "FIN_ACKED" /\ y = "FIN_RECV"
  BY StateCases
<1>2. /\ Tuple("SYN_ACKED", "LISTEN",   TRUE, TRUE) \in Between
      /\ Tuple("FIN_SENT",  "LISTEN",   TRUE, TRUE) \in Between
      /\ Tuple("FIN_ACKED", "LISTEN",   TRUE, TRUE) \in Between
      /\ Tuple("SYN_SENT",  "FIN_RECV", TRUE, FALSE) \in Between
      /\ Tuple("SYN_SENT",  "FIN_RECV", TRUE, TRUE) \in Between
      /\ Tuple("SYN_ACKED", "FIN_RECV", TRUE, TRUE) \in Between
  BY Zenon DEF Between
<1> HIDE DEF x, y, l
<1> QED BY <1>1, <1>2, NamedStates

\* Two endpoints of which neither was reset.
LEMMA StatesFit ==
    ASSUME NEW total \in Lengths, Base(total), NEW p \in Peer, state(conn[p]) # Official.RESET,
           state(conn[Other(p)]) # Official.RESET
    PROVE  /\ sender_summary(conn[p].sender) \in {"SYN_ACKED", "FIN_SENT"} =>
                  receiver_summary(conn[Other(p)].receiver) # "LISTEN"
           /\ sender_summary(conn[p].sender) = "FIN_ACKED" =>
                  receiver_summary(conn[Other(p)].receiver) = "FIN_RECV"
           /\ receiver_summary(conn[p].receiver) = "FIN_RECV" =>
                  sender_summary(conn[Other(p)].sender) \in {"SYN_SENT", "FIN_SENT", "FIN_ACKED"}
<1> DEFINE q == Other(p)  s == conn[p].sender  v == conn[q].receiver
           u == conn[q].sender  z == conn[p].receiver
<1>1. /\ q \in Peer /\ SenderFine(s, p, total) /\ ReceiverFine(v, q, total)
      /\ SenderFine(u, q, total) /\ ReceiverFine(z, p, total)
      /\ Endpoint(conn[p], conn[q], p, total) /\ Settled(conn[p])
      /\ Endpoint(conn[q], conn[p], q, total) /\ Settled(conn[q])
  BY InvParts, Zenon
<1>2. Official.RESET = Tuple("ERROR", "ERROR", FALSE, FALSE)
  BY DEF Official
<1>3. receiver_summary(v) # "ERROR" /\ sender_summary(u) # "ERROR"
  BY <1>1, <1>2, StateCases
<1>4. SenderCases(s) /\ ReceiverCases(v, v.reassembler.output)
  BY <1>1, SenderState, ReceiverState, Zenon
<1>5. SenderCases(u) /\ ReceiverCases(z, z.reassembler.output)
  BY <1>1, SenderState, ReceiverState, Zenon
<1>6. /\ (s.abs_ackno > 0 => v.syn = TRUE)
      /\ (s.abs_ackno = total[p] + 2 => v.reassembler.output.end_input = TRUE)
  BY AckedWasReceived
<1>7. z.reassembler.output.end_input = TRUE => /\ u.stream.end_input = TRUE
                                               /\ u.next_seqno = u.stream.bytes_written + 2
  BY ReceivedWasSent
<1>8. ASSUME sender_summary(s) \in {"SYN_ACKED", "FIN_SENT"} PROVE receiver_summary(v) # "LISTEN"
  <2>1. s.abs_ackno > 0
    BY <1>4, <1>8 DEF SenderCases
  <2> QED BY <1>4, <1>6, <2>1 DEF ReceiverCases
<1>9. ASSUME sender_summary(s) = "FIN_ACKED" PROVE receiver_summary(v) = "FIN_RECV"
  <2>1. Outbound(s) /\ s.abs_ackno = s.next_seqno
    BY <1>4, <1>9 DEF SenderCases
  <2>2. s.abs_ackno = total[p] + 2
    BY <1>1, <2>1, Zenon DEF Outbound, SenderFine
  <2>3. v.reassembler.output.end_input = TRUE
    BY <1>6, <2>2
  <2>4. v.syn = TRUE
    BY <1>1, <2>3, InboundEnded
  <2> QED BY <1>3, <1>4, <2>3, <2>4 DEF ReceiverCases
<1>10. ASSUME receiver_summary(z) = "FIN_RECV"
       PROVE  sender_summary(u) \in {"SYN_SENT", "FIN_SENT", "FIN_ACKED"}
  <2>1. z.reassembler.output.end_input = TRUE
    BY <1>5, <1>10 DEF ReceiverCases
  <2>2. /\ u.next_seqno \in Nat /\ u.stream.bytes_written \in Nat
        /\ (u.next_seqno = u.stream.bytes_written + 2 => u.stream.buffer_size = 0)
    BY <1>1, SenderNumbers
  <2>3. AtEnd(u) /\ u.next_seqno = u.stream.bytes_written + 2
    BY <1>7, <2>1, <2>2 DEF AtEnd
  <2>4. ~(u.next_seqno = 0) /\ ~(~AtEnd(u) \/ u.next_seqno < u.stream.bytes_written + 2)
    BY <2>2, <2>3
  <2>5. \/ sender_summary(u) = "SYN_SENT" \/ sender_summary(u) = "FIN_SENT"
        \/ sender_summary(u) = "FIN_ACKED"
    BY <1>3, <1>5, <2>4, Zenon DEF SenderCases
  <2> QED BY <2>5
<1> QED BY <1>8, <1>9, <1>10

\* The states of the two endpoints fit together and to RFC 793.
THEOREM StatesStayInStep == Spec => []StatesAgree
<1>1. Inv => StatesAgree
  <2> SUFFICES ASSUME Base(StreamLen), StreamLen \in Lengths, NEW p \in Peer
               PROVE  LET mine   == state(conn[p])
                          theirs == state(conn[Other(p)])
                      IN  /\ mine \in Range(Official) \cup Between
                          /\ Official.RESET \notin {mine, theirs} =>
                                 /\ mine.sender \in {"SYN_ACKED", "FIN_SENT"} =>
                                        theirs.receiver # "LISTEN"
                                 /\ mine.sender = "FIN_ACKED" => theirs.receiver = "FIN_RECV"
                                 /\ mine.receiver = "FIN_RECV" =>
                                        theirs.sender \in {"SYN_SENT", "FIN_SENT", "FIN_ACKED"}
    BY PairConstants, Zenon DEF Inv, StatesAgree
  <2> DEFINE mine == state(conn[p])  theirs == state(conn[Other(p)])
  <2>1. mine \in Range(Official) \cup Between
    BY InvParts, StateKnown, Zenon
  <2>2. /\ mine.sender = sender_summary(conn[p].sender)
        /\ mine.receiver = receiver_summary(conn[p].receiver)
        /\ theirs.sender = sender_summary(conn[Other(p)].sender)
        /\ theirs.receiver = receiver_summary(conn[Other(p)].receiver)
    BY DEF state
  <2> HIDE DEF mine, theirs
  <2>3. ASSUME Official.RESET \notin {mine, theirs}
        PROVE  /\ mine.sender \in {"SYN_ACKED", "FIN_SENT"} => theirs.receiver # "LISTEN"
               /\ mine.sender = "FIN_ACKED" => theirs.receiver = "FIN_RECV"
               /\ mine.receiver = "FIN_RECV" => theirs.sender \in {"SYN_SENT", "FIN_SENT", "FIN_ACKED"}
    <3>1. state(conn[p]) # Official.RESET /\ state(conn[Other(p)]) # Official.RESET
      BY <2>3 DEF mine, theirs
    <3> QED BY <2>2, <3>1, StatesFit
  <2> QED BY <2>1, <2>3 DEF mine, theirs
<1> QED BY <1>1, PairInvariant, PTL

-----------------------------------------------------------------------------

-----------------------------------------------------------------------------

\* A sender with all its members, whose stream was given w bytes, and its end or not.
Fed(s, w, e) ==
    /\ DOMAIN s = {"isn", "segments_out", "segments_track", "timer", "stream", "next_seqno",
                   "abs_ackno", "window_size", "bytes_in_flight"}
    /\ DOMAIN s.stream = {"capacity", "bytes_written", "bytes_read", "buffer",
                          "buffer_size", "end_input", "error"}
    /\ s.stream.bytes_written = w /\ s.stream.end_input = e

\* No method of the sender writes to its stream or ends it.
LEMMA SenderFed ==
    ASSUME NEW s, NEW w, NEW e, Fed(s, w, e)
    PROVE  /\ Fed(fill_window(s), w, e)
           /\ \A ack, win : Fed(ack_received(s, ack, win), w, e)
           /\ \A ms : Fed(sender_tick(s, ms), w, e)
           /\ Fed(send_empty_segment(s), w, e)
           /\ \A out : Fed([s EXCEPT !.segments_out = out], w, e)
           /\ Fed([s EXCEPT !.stream = set_error(@)], w, e)
<1>1. ASSUME NEW r, Fed(r, w, e), NEW segs, NEW space PROVE Fed(SendSegments(r, segs, space), w, e)
  BY <1>1 DEF Fed, SendSegments
<1>2. ASSUME NEW r, Fed(r, w, e), NEW n PROVE Fed([r EXCEPT !.stream = pop_output(@, n)], w, e)
  BY <1>2 DEF Fed, pop_output
<1>3. ASSUME NEW r, Fed(r, w, e) PROVE Fed(FillLoop(r), w, e)
  <2> DEFINE n   == LesserOf(Room(r), r.stream.buffer_size)
             fin == FinNow(r, n)
             u   == SendSegments(r, CutIntoSegments(r, n, fin), n + (IF fin THEN 1 ELSE 0))
  <2>1. Fed(u, w, e)
    BY <1>1, <1>3, Zenon
  <2>2. FillLoop(r) = r \/ FillLoop(r) = [u EXCEPT !.stream = pop_output(@, n)]
    BY Zenon DEF FillLoop
  <2> HIDE DEF u, n
  <2>3. Fed([u EXCEPT !.stream = pop_output(@, n)], w, e)
    BY <1>2, <2>1, Zenon
  <2> QED BY <1>3, <2>2, <2>3, Zenon
<1>4. ASSUME NEW r, Fed(r, w, e) PROVE Fed(fill_window(r), w, e)
  <2>1. Fed(SendSyn(r), w, e)
    BY <1>1, <1>4, Zenon DEF SendSyn
  <2>2. fill_window(r) = r \/ fill_window(r) = FillLoop(r) \/ fill_window(r) = FillLoop(SendSyn(r))
    BY Zenon DEF fill_window
  <2> QED BY <1>3, <1>4, <2>1, <2>2, Zenon
<1>5. ASSUME NEW ack, NEW win PROVE Fed(ack_received(s, ack, win), w, e)
  <2> DEFINE abs == unwrap(ack, s.isn, s.abs_ackno)
             s1  == [s EXCEPT !.window_size = win]
             s2  == [s1 EXCEPT !.abs_ackno = abs]
  <2>1. Fed(s1, w, e) /\ Fed(s2, w, e)
    <3> HIDE DEF abs
    <3> QED BY DEF Fed
  <2> HIDE DEF s2
  <2>2. Fed(DropAcked(s2), w, e)
    BY <2>1 DEF DropAcked, Fed
  <2>3. \/ ack_received(s, ack, win) = s \/ ack_received(s, ack, win) = s1
        \/ ack_received(s, ack, win) = fill_window(DropAcked(s2))
    BY Zenon DEF ack_received, s2
  <2> QED BY <1>4, <2>1, <2>2, <2>3, Zenon
<1>6. ASSUME NEW ms PROVE Fed(sender_tick(s, ms), w, e)
  BY DEF sender_tick, Fed
<1>7. /\ Fed(send_empty_segment(s), w, e) /\ Fed([s EXCEPT !.stream = set_error(@)], w, e)
      /\ \A out : Fed([s EXCEPT !.segments_out = out], w, e)
  BY DEF send_empty_segment, set_error, Fed
<1> QED BY <1>4, <1>5, <1>6, <1>7, Zenon

\* A connection with all its members, whose outgoing stream was given w bytes, and
\* its end or not, and whose inbound stream has been read up to k.
Keeping(c, w, e, k) ==
    /\ Members(c) /\ Fed(c.sender, w, e)
    /\ DOMAIN c.receiver = {"reassembler", "capacity", "syn", "isn"}
    /\ \E err : Flagged(c.receiver.reassembler, err, k)

\* A method that changes one half of the connection.
LEMMA KeepingHalf ==
    ASSUME NEW c, NEW w, NEW e, NEW k, Keeping(c, w, e, k)
    PROVE  /\ \A t : Fed(t, w, e) => Keeping([c EXCEPT !.sender = t], w, e, k)
           /\ \A out, t : Fed(t, w, e) =>
                  Keeping([c EXCEPT !.segments_out = out, !.sender = t], w, e, k)
           /\ \A now, t : Fed(t, w, e) =>
                  Keeping([c EXCEPT !.time_since_last_segment_received = now, !.sender = t], w, e, k)
           /\ \A now : Keeping([c EXCEPT !.time_since_last_segment_received = now], w, e, k)
           /\ \A flag : /\ Keeping([c EXCEPT !.active = flag], w, e, k)
                        /\ Keeping([c EXCEPT !.linger_after_streams_finish = flag], w, e, k)
<1>1. /\ Members(c) /\ Fed(c.sender, w, e)
      /\ DOMAIN c.receiver = {"reassembler", "capacity", "syn", "isn"}
      /\ \E err : Flagged(c.receiver.reassembler, err, k)
  BY Zenon DEF Keeping
<1>2. ASSUME NEW d, Members(d), d.receiver = c.receiver, Fed(d.sender, w, e)
      PROVE  Keeping(d, w, e, k)
  BY <1>1, <1>2, Zenon DEF Keeping
<1>3. ASSUME NEW t, Fed(t, w, e) PROVE Keeping([c EXCEPT !.sender = t], w, e, k)
  <2> DEFINE d == [c EXCEPT !.sender = t]
  <2>1. Members(d) /\ d.receiver = c.receiver /\ d.sender = t
    BY <1>1 DEF Members
  <2> HIDE DEF d
  <2>2. Keeping(d, w, e, k)
    BY <1>2, <1>3, <2>1, Zenon
  <2> QED BY <2>2 DEF d
<1>4. ASSUME NEW out, NEW t, Fed(t, w, e)
      PROVE  Keeping([c EXCEPT !.segments_out = out, !.sender = t], w, e, k)
  <2> DEFINE d == [c EXCEPT !.segments_out = out, !.sender = t]
  <2>1. Members(d) /\ d.receiver = c.receiver /\ d.sender = t
    BY <1>1 DEF Members
  <2> HIDE DEF d
  <2>2. Keeping(d, w, e, k)
    BY <1>2, <1>4, <2>1, Zenon
  <2> QED BY <2>2 DEF d
<1>5. ASSUME NEW now, NEW t, Fed(t, w, e)
      PROVE  Keeping([c EXCEPT !.time_since_last_segment_received = now, !.sender = t], w, e, k)
  <2> DEFINE d == [c EXCEPT !.time_since_last_segment_received = now, !.sender = t]
  <2>1. Members(d) /\ d.receiver = c.receiver /\ d.sender = t
    BY <1>1 DEF Members
  <2> HIDE DEF d
  <2>2. Keeping(d, w, e, k)
    BY <1>2, <1>5, <2>1, Zenon
  <2> QED BY <2>2 DEF d
<1>6. ASSUME NEW x PROVE /\ Keeping([c EXCEPT !.time_since_last_segment_received = x], w, e, k)
                         /\ Keeping([c EXCEPT !.active = x], w, e, k)
                         /\ Keeping([c EXCEPT !.linger_after_streams_finish = x], w, e, k)
  <2> DEFINE d1 == [c EXCEPT !.time_since_last_segment_received = x]
             d2 == [c EXCEPT !.active = x]  d3 == [c EXCEPT !.linger_after_streams_finish = x]
  <2>1. /\ Members(d1) /\ d1.receiver = c.receiver /\ d1.sender = c.sender
        /\ Members(d2) /\ d2.receiver = c.receiver /\ d2.sender = c.sender
        /\ Members(d3) /\ d3.receiver = c.receiver /\ d3.sender = c.sender
    BY <1>1 DEF Members
  <2> HIDE DEF d1, d2, d3
  <2>2. Keeping(d1, w, e, k) /\ Keeping(d2, w, e, k) /\ Keeping(d3, w, e, k)
    BY <1>1, <1>2, <2>1, Zenon
  <2> QED BY <2>2 DEF d1, d2, d3
<1> QED BY <1>3, <1>4, <1>5, <1>6, Zenon

\* What the private methods of the connection leave alone.
LEMMA KeepingPrivate ==
    ASSUME NEW c, NEW w, NEW e, NEW k, Keeping(c, w, e, k)
    PROVE  /\ Keeping(send_segments(c), w, e, k) /\ Keeping(send_rst_segment(c), w, e, k)
           /\ Keeping(passive_close(c), w, e, k) /\ Keeping(test_end(c), w, e, k)
           /\ Keeping(Answer(c), w, e, k)
<1>1. /\ Members(c) /\ Fed(c.sender, w, e)
      /\ DOMAIN c.receiver = {"reassembler", "capacity", "syn", "isn"}
      /\ \E err : Flagged(c.receiver.reassembler, err, k)
  BY Zenon DEF Keeping
<1>2. ASSUME NEW d, Keeping(d, w, e, k) PROVE Keeping(send_segments(d), w, e, k)
  <2> DEFINE win == LesserOf(window_size(d.receiver), MaxWin)
             out == d.segments_out \o [i \in 1 .. Len(d.sender.segments_out) |->
                                      Stamped(d, d.sender.segments_out[i], win)]
             t   == [d.sender EXCEPT !.segments_out = <<>>]
  <2>1. Members(d) /\ Fed(d.sender, w, e)
    BY <1>2, Zenon DEF Keeping
  <2>2. send_segments(d) = [d EXCEPT !.segments_out = out, !.sender = t]
    BY <2>1 DEF send_segments, Members
  <2>3. Fed(t, w, e)
    BY <2>1, SenderFed, Zenon
  <2> HIDE DEF out, t
  <2>4. Keeping([d EXCEPT !.segments_out = out, !.sender = t], w, e, k)
    BY <1>2, <2>3, KeepingHalf
  <2> QED BY <2>2, <2>4
<1>3. Keeping(send_rst_segment(c), w, e, k)
  <2> DEFINE queue == send_empty_segment(c.sender).segments_out
             win   == window_size(c.receiver) % (MaxWin + 1)
             out   == Append(c.segments_out, [Stamped(c, Head(queue), win) EXCEPT !.rst = TRUE])
             t     == [c.sender EXCEPT !.segments_out = Tail(queue)]
  <2>1. send_rst_segment(c) = [c EXCEPT !.segments_out = out, !.sender = t]
    <3> HIDE DEF queue, win
    <3> QED BY <1>1 DEF send_rst_segment, Members, queue, win
  <2>2. Fed(t, w, e)
    BY <1>1, SenderFed, Zenon
  <2> HIDE DEF out, t
  <2>3. Keeping([c EXCEPT !.segments_out = out, !.sender = t], w, e, k)
    BY <2>2, KeepingHalf
  <2> QED BY <2>1, <2>3
<1>4. Keeping(passive_close(c), w, e, k)
  <2> DEFINE t == [c.sender EXCEPT !.stream = set_error(@)]
             x == [c.receiver EXCEPT !.reassembler.output = set_error(@)]
             d == [c EXCEPT !.sender = t, !.receiver = x, !.active = FALSE]
  <2>1. passive_close(c) = d
    BY <1>1 DEF passive_close, Members
  <2>2. Fed(t, w, e)
    BY <1>1, SenderFed, Zenon
  <2>3. /\ DOMAIN x = {"reassembler", "capacity", "syn", "isn"}
        /\ Flagged(x.reassembler, TRUE, k)
    BY <1>1 DEF Flagged, set_error
  <2> HIDE DEF x, t
  <2>4. Members(d) /\ d.receiver = x /\ d.sender = t
    BY <1>1 DEF Members
  <2> HIDE DEF d
  <2> QED BY <2>1, <2>2, <2>3, <2>4, Zenon DEF Keeping
<1>5. Keeping(test_end(c), w, e, k)
  <2>1. \/ test_end(c) = c \/ test_end(c) = [c EXCEPT !.active = FALSE]
        \/ test_end(c) = [c EXCEPT !.linger_after_streams_finish = FALSE]
    BY Zenon DEF test_end
  <2>2. /\ Keeping([c EXCEPT !.active = FALSE], w, e, k)
        /\ Keeping([c EXCEPT !.linger_after_streams_finish = FALSE], w, e, k)
    BY KeepingHalf
  <2> QED BY <2>1, <2>2, Zenon
<1>6. Keeping(Answer(c), w, e, k)
  <2> DEFINE f == [c EXCEPT !.sender = fill_window(@)]
             g == [f EXCEPT !.sender = send_empty_segment(@)]
  <2>1. Keeping(f, w, e, k)
    BY <1>1, SenderFed, KeepingHalf, Zenon
  <2>2. Answer(c) = send_segments(f) \/ Answer(c) = send_segments(g)
    BY Zenon DEF Answer
  <2> HIDE DEF f
  <2>3. Keeping(g, w, e, k)
    BY <2>1, SenderFed, KeepingHalf, Zenon DEF Keeping
  <2> HIDE DEF g
  <2> QED BY <1>2, <2>1, <2>2, <2>3, Zenon
<1> QED BY <1>2, <1>3, <1>4, <1>5, <1>6

\* No method but write() and end_input_stream() writes to the outgoing stream or
\* ends it, and none reads from the inbound one.
LEMMA KeepingPublic ==
    ASSUME NEW c, NEW w, NEW e, NEW k, Keeping(c, w, e, k)
    PROVE  /\ \A seg : Keeping(segment_received(c, seg), w, e, k)
           /\ \A ms : Keeping(tick(c, ms), w, e, k)
           /\ Keeping(connect(c), w, e, k) /\ Keeping(DestroyTCPConnection(c), w, e, k)
<1>1. ASSUME NEW seg PROVE Keeping(segment_received(c, seg), w, e, k)
  <2> DEFINE c0 == [c EXCEPT !.time_since_last_segment_received = 0]
             c1 == [c0 EXCEPT !.receiver = receiver_segment_received(@, seg)]
             b  == [c1 EXCEPT !.sender = ack_received(@, seg.ackno, seg.win)]
             c2 == IF seg.ack THEN send_segments(b) ELSE c1
             c3 == IF length_in_sequence_space(seg) > 0 THEN Answer(c2) ELSE c2
  <2>1. Keeping(c0, w, e, k)
    BY KeepingHalf, Zenon
  <2>2. segment_received(c, seg) = passive_close(c0) \/ segment_received(c, seg) = test_end(c3)
    BY Zenon DEF segment_received
  <2> HIDE DEF c0
  <2>3. Keeping(c1, w, e, k)
    <3> DEFINE v == c0.receiver  x == receiver_segment_received(v, seg)
               v1 == IF v.syn THEN v ELSE [v EXCEPT !.syn = TRUE, !.isn = seg.seqno]
               ix == StreamIndex(unwrap(seg.seqno, v1.isn, CheckPoint(v1)), seg.syn)
    <3>1. /\ Members(c0) /\ Fed(c0.sender, w, e)
          /\ DOMAIN v = {"reassembler", "capacity", "syn", "isn"}
      BY <2>1, Zenon DEF Keeping
    <3>2. PICK err : Flagged(v.reassembler, err, k)
      BY <2>1, Zenon DEF Keeping
    <3>3. x = v \/ x = [v1 EXCEPT !.reassembler = push_substring(@, seg.payload, ix, seg.fin)]
      BY Zenon DEF receiver_segment_received
    <3>4. /\ DOMAIN v1 = {"reassembler", "capacity", "syn", "isn"} /\ v1.reassembler = v.reassembler
      BY <3>1
    <3> HIDE DEF x, v1, ix
    <3>5. Flagged(push_substring(v.reassembler, seg.payload, ix, seg.fin), err, k)
      BY <3>2, PushKeeps, Zenon
    <3>6. DOMAIN x = {"reassembler", "capacity", "syn", "isn"} /\ Flagged(x.reassembler, err, k)
      <4> DEFINE r == push_substring(v.reassembler, seg.payload, ix, seg.fin)
      <4>1. x = v \/ x = [v1 EXCEPT !.reassembler = r]
        BY <3>3, <3>4, Zenon
      <4> HIDE DEF r, v
      <4>2. CASE x = v
        BY <3>1, <3>2, <4>2
      <4>3. CASE x = [v1 EXCEPT !.reassembler = r]
        <5>1. DOMAIN x = {"reassembler", "capacity", "syn", "isn"} /\ x.reassembler = r
          BY <3>4, <4>3
        <5> QED BY <3>5, <5>1 DEF r
      <4> QED BY <4>1, <4>2, <4>3
    <3>7. c1 = [c0 EXCEPT !.receiver = x]
      BY DEF x
    <3>8. Members(c1) /\ c1.receiver = x /\ c1.sender = c0.sender
      BY <3>1, <3>7 DEF Members
    <3> HIDE DEF c1
    <3> QED BY <3>1, <3>6, <3>8, Zenon DEF Keeping
  <2> HIDE DEF c1
  <2>4. Keeping(b, w, e, k)
    <3> DEFINE t == ack_received(c1.sender, seg.ackno, seg.win)
    <3>1. Fed(t, w, e)
      BY <2>3, SenderFed DEF Keeping
    <3> HIDE DEF t
    <3>2. Keeping([c1 EXCEPT !.sender = t], w, e, k)
      BY <2>3, <3>1, KeepingHalf
    <3> QED BY <3>2 DEF t
  <2> HIDE DEF b
  <2>5. Keeping(c2, w, e, k)
    BY <2>3, <2>4, KeepingPrivate, Zenon
  <2> HIDE DEF c2
  <2>6. Keeping(c3, w, e, k)
    BY <2>5, KeepingPrivate, Zenon
  <2> HIDE DEF c3
  <2> QED BY <2>1, <2>2, <2>6, KeepingPrivate, Zenon
<1>2. ASSUME NEW ms PROVE Keeping(tick(c, ms), w, e, k)
  <2> DEFINE now == LesserOf(c.time_since_last_segment_received + ms, LingerTime)
             t   == sender_tick(c.sender, ms)
             c1  == [c EXCEPT !.time_since_last_segment_received = now, !.sender = t]
  <2>1. Fed(t, w, e)
    BY SenderFed, Zenon DEF Keeping
  <2>2. \/ tick(c, ms) = send_rst_segment(passive_close(c1))
        \/ tick(c, ms) = test_end(send_segments(c1))
    BY Zenon DEF tick
  <2> HIDE DEF t, now
  <2>3. Keeping(c1, w, e, k)
    BY <2>1, KeepingHalf, Zenon
  <2> HIDE DEF c1
  <2>4. Keeping(passive_close(c1), w, e, k) /\ Keeping(send_segments(c1), w, e, k)
    BY <2>3, KeepingPrivate, Zenon
  <2>5. Keeping(send_rst_segment(passive_close(c1)), w, e, k) /\ Keeping(test_end(send_segments(c1)), w, e, k)
    BY <2>4, KeepingPrivate, Zenon
  <2> QED BY <2>2, <2>5, Zenon
<1>3. Keeping(connect(c), w, e, k)
  <2> DEFINE f == [c EXCEPT !.sender = fill_window(@)]  g == send_segments(f)
  <2>1. connect(c) = c \/ connect(c) = [g EXCEPT !.active = TRUE]
    BY Zenon DEF connect
  <2>2. Keeping(f, w, e, k)
    BY SenderFed, KeepingHalf, ZenonT(60) DEF Keeping
  <2> HIDE DEF f
  <2>3. Keeping(g, w, e, k)
    BY <2>2, KeepingPrivate, Zenon
  <2> HIDE DEF g
  <2>4. Keeping([g EXCEPT !.active = TRUE], w, e, k)
    BY <2>3, KeepingHalf
  <2> QED BY <2>1, <2>4, Zenon
<1>4. Keeping(DestroyTCPConnection(c), w, e, k)
  <2>1. Keeping(passive_close(c), w, e, k)
    BY KeepingPrivate, Zenon
  <2>2. Keeping(send_rst_segment(passive_close(c)), w, e, k)
    BY <2>1, KeepingPrivate, Zenon
  <2> QED BY <2>2, Zenon DEF DestroyTCPConnection
<1> QED BY <1>1, <1>2, <1>3, <1>4, Zenon

\* fill_window neither ends the outbound stream nor takes its end back.
LEMMA FillOutbound ==
    ASSUME NEW total \in Lengths, NEW p \in Peer, NEW o, Fine(o.sender, o.receiver, p, total),
           NEW d, NEW s, NEW v, Ahead(s, v, o, d, p, total)
    PROVE  Outbound(fill_window(s)) <=> Outbound(s)
<1> DEFINE t == fill_window(s)  w == s.stream.bytes_written
<1>1. /\ ISN[p] \in SeqNo /\ Capacity \in Nat /\ Good(s, w, ISN[p], Capacity)
      /\ s.next_seqno = s.next_seqno
  BY AheadSender, Zenon
<1>2. Stepped(s, t, w, ISN[p], Capacity) /\ Filled(s, t)
  BY <1>1, FillStep, Zenon
<1>3. SenderFine(s, p, total) /\ SenderFine(t, p, total)
  BY AheadFill, Zenon DEF Ahead, Fine
<1> HIDE DEF t
<1>4. /\ t.abs_ackno = s.abs_ackno /\ s.next_seqno <= t.next_seqno
      /\ t.stream.end_input = s.stream.end_input /\ t.stream.bytes_written = w
  BY <1>2, Zenon DEF Stepped, Filled, SameFlags, Good, Sending
<1>5. /\ s.next_seqno \in Nat /\ s.abs_ackno \in Nat /\ s.abs_ackno <= s.next_seqno /\ w \in Nat
      /\ s.next_seqno <= w + 2 /\ (s.next_seqno = w + 2 => s.stream.buffer_size = 0)
  BY <1>3, SenderNumbers
<1>6. /\ t.next_seqno \in Nat /\ t.next_seqno <= w + 2
      /\ (t.next_seqno = w + 2 => t.stream.buffer_size = 0)
  <2>1. /\ t.next_seqno \in Nat /\ t.next_seqno <= t.stream.bytes_written + 2
        /\ (t.next_seqno = t.stream.bytes_written + 2 => t.stream.buffer_size = 0)
    BY <1>3, SenderNumbers, Zenon
  <2> QED BY <1>4, <2>1
<1>7. /\ (s.bytes_in_flight = 0 => s.abs_ackno = s.next_seqno)
      /\ (s.abs_ackno = s.next_seqno => s.bytes_in_flight = 0)
      /\ (t.bytes_in_flight = 0 => t.abs_ackno = t.next_seqno)
      /\ (t.abs_ackno = t.next_seqno => t.bytes_in_flight = 0)
  BY <1>3, FlightCounts, Zenon
<1> HIDE DEF w
<1>8. ASSUME Outbound(s) PROVE Outbound(t)
  <2>1. s.stream.end_input = TRUE /\ s.next_seqno = w + 2 /\ s.bytes_in_flight = 0
    BY <1>8, Zenon DEF Outbound, w
  <2>2. t.next_seqno = w + 2 /\ t.abs_ackno = w + 2
    BY <1>4, <1>5, <1>6, <1>7, <2>1
  <2> QED BY <1>4, <1>6, <1>7, <2>1, <2>2 DEF Outbound
<1>9. ASSUME Outbound(t) PROVE Outbound(s)
  <2>1. t.stream.end_input = TRUE /\ t.next_seqno = w + 2 /\ t.bytes_in_flight = 0
    BY <1>4, <1>9, Zenon DEF Outbound
  <2>2. s.next_seqno = w + 2 /\ s.abs_ackno = w + 2
    BY <1>4, <1>5, <1>6, <1>7, <2>1
  <2> QED BY <1>4, <1>5, <1>7, <2>1, <2>2 DEF Outbound, w
<1> QED BY <1>8, <1>9 DEF t

\* A sender that has changed hands its segments to the connection.
LEMMA SendHalf ==
    ASSUME NEW total \in Lengths, NEW p \in Peer, NEW c, NEW d, Endpoint(c, d, p, total),
           NEW t, Ahead(t, c.receiver, c, d, p, total)
    PROVE  LET e == send_segments([c EXCEPT !.sender = t])
           IN  /\ Advance(c, e, d, p, total) /\ e.receiver = c.receiver
               /\ SameButOut(t, e.sender) /\ e.sender.segments_out = <<>> /\ SameRest(c, e)
<1> DEFINE f == [c EXCEPT !.sender = t]  e == send_segments(f)
<1>1. Members(c)
  BY Zenon DEF Endpoint
<1>2. /\ Members(f) /\ f.sender = t /\ f.receiver = c.receiver /\ f.segments_out = c.segments_out
      /\ SameRest(c, f)
  BY <1>1 DEF Members, SameRest
<1> HIDE DEF f
<1>3. Advance(c, f, d, p, total)
  BY <1>2, HalvesAdvance, Zenon
<1>4. /\ Advance(f, e, d, p, total) /\ e.receiver = f.receiver /\ SameButOut(f.sender, e.sender)
      /\ e.sender.segments_out = <<>> /\ SameRest(f, e)
  <2>1. Endpoint(f, d, p, total)
    BY <1>3, Zenon DEF Advance
  <2> QED BY <2>1, SendAdvance, Zenon
<1> HIDE DEF e
<1>5. Advance(c, e, d, p, total)
  BY <1>3, <1>4, AdvanceStill, Zenon
<1>6. e.receiver = c.receiver /\ SameButOut(t, e.sender) /\ SameRest(c, e)
  <2>1. SameButOut(t, e.sender)
    BY <1>2, <1>4
  <2>2. SameRest(c, e)
    BY <1>2, <1>4, Zenon DEF SameRest
  <2> QED BY <1>2, <1>4, <2>1, <2>2, Zenon
<1> QED BY <1>4, <1>5, <1>6 DEF e, f

\* A connection that is over stays over, whatever its sender still takes in.
LEMMA SendOver ==
    ASSUME NEW total \in Lengths, NEW p \in Peer, NEW c, NEW d, Endpoint(c, d, p, total), Over(c),
           NEW t, Ahead(t, c.receiver, c, d, p, total), t.next_seqno > 0,
           t.stream.error = c.sender.stream.error,
           c.sender.stream.error = FALSE => Outbound(t)
    PROVE  Settled(send_segments([c EXCEPT !.sender = t]))
<1> DEFINE e == send_segments([c EXCEPT !.sender = t])
<1>1. /\ e.receiver = c.receiver /\ SameButOut(t, e.sender) /\ SameRest(c, e)
  BY SendHalf
<1> HIDE DEF e
<1>2. /\ e.active = FALSE /\ e.sender.stream = t.stream /\ e.sender.next_seqno = t.next_seqno
      /\ e.sender.bytes_in_flight = t.bytes_in_flight
  BY <1>1, Zenon DEF SameButOut, SameRest, Over
<1>3. Outbound(t) => Outbound(e.sender)
  BY <1>2, Zenon DEF Outbound
<1>4. /\ c.sender.stream.error \in BOOLEAN
      /\ c.receiver.reassembler.output.error = c.sender.stream.error
      /\ \/ c.sender.stream.error = TRUE
         \/ c.receiver.reassembler.output.end_input = TRUE /\ Outbound(c.sender)
  BY Zenon DEF Over
<1>5. c.sender.stream.error = TRUE \/ c.sender.stream.error = FALSE
  BY <1>4
<1>6. Over(e)
  BY <1>1, <1>2, <1>3, <1>4, <1>5, Zenon DEF Over
<1> QED BY <1>6 DEF e, Settled

\* Two senders with the same members.
LEMMA AheadSame ==
    ASSUME NEW total \in Lengths, NEW p \in Peer, NEW o, NEW d, NEW s, NEW v,
           Ahead(s, v, o, d, p, total),
           NEW u, Shape(u, ISN[p]), SameButBytes(s, u), u.stream = s.stream
    PROVE  Ahead(u, v, o, d, p, total) /\ (Outbound(u) <=> Outbound(s))
<1>1. /\ Core(s, s.stream.bytes_written, ISN[p]) /\ NotStalled(s, s.stream.bytes_written)
      /\ Sending(s.stream, s.next_seqno, s.stream.bytes_written, Capacity)
      /\ s.window_size <= Capacity /\ s.stream.bytes_written <= total[p]
      /\ s.stream.end_input = TRUE => s.stream.bytes_written = total[p] /\ s.next_seqno > 0
      /\ ReceiverFine(v, p, total) /\ Later(o.sender, o.receiver, s, v)
      /\ Heard(s, v, d.sender, d.receiver)
  BY Zenon DEF Ahead, Fine, SenderFine, Good
<1>2. Core(u, s.stream.bytes_written, ISN[p]) /\ NotStalled(u, s.stream.bytes_written)
  BY <1>1, Zenon DEF Core, NotStalled, SameButBytes
<1>3. SenderFine(u, p, total)
  BY <1>1, <1>2, Zenon DEF SenderFine, Good, SameButBytes
<1>4. Later(o.sender, o.receiver, u, v) /\ Heard(u, v, d.sender, d.receiver)
  BY <1>1, Zenon DEF Later, Heard, SameButBytes
<1>5. Outbound(u) <=> Outbound(s)
  BY Zenon DEF Outbound, SameButBytes
<1> QED BY <1>1, <1>3, <1>4, <1>5, Zenon DEF Ahead, Fine

\* end_input_stream once more: rule 2 has already ended the stream when it is
\* cancelled at the end of its input.
LEMMA EndAgain ==
    ASSUME NEW total \in Lengths, NEW p \in Peer, NEW c, NEW d, Endpoint(c, d, p, total), Settled(c),
           c.sender.stream.end_input = TRUE, NEW e, e = end_input_stream(c)
    PROVE  Advance(c, e, d, p, total) /\ Settled(e) /\ e.receiver = c.receiver
<1> DEFINE s == c.sender  v == c.receiver  u == [s EXCEPT !.stream = end_input(@)]
           t == fill_window(u)  g == [c EXCEPT !.sender = t]
<1>1. /\ Members(c) /\ Ahead(s, v, c, d, p, total) /\ Fine(s, v, p, total)
  BY EndpointAhead, Zenon DEF Endpoint
<1>2. Ahead(u, v, c, d, p, total) /\ (Outbound(u) <=> Outbound(s)) /\ u.stream = s.stream
  <2>1. Shape(s, ISN[p]) /\ InOrder(s.stream, Capacity)
    BY <1>1, Zenon DEF Fine, SenderFine, Good, Core, Sending
  <2>2. end_input(s.stream) = s.stream
    <3> DEFINE q == s.stream
    <3>1. q = [capacity |-> q.capacity, bytes_written |-> q.bytes_written,
               bytes_read |-> q.bytes_read, buffer |-> q.buffer,
               buffer_size |-> q.buffer_size, end_input |-> q.end_input, error |-> q.error]
      BY <2>1, Zenon DEF InOrder
    <3>2. q.end_input = TRUE
      OBVIOUS
    <3> HIDE DEF q
    <3>3. [q EXCEPT !.end_input = TRUE] = q
      BY <3>1, <3>2
    <3> QED BY <3>3 DEF end_input, q
  <2>3. Shape(u, ISN[p]) /\ SameButBytes(s, u) /\ u.stream = end_input(s.stream)
    <3> HIDE DEF s
    <3> QED BY <2>1 DEF Shape, SameButBytes
  <2> HIDE DEF u, s
  <2>4. u.stream = s.stream
    BY <2>2, <2>3
  <2>5. Ahead(u, v, c, d, p, total) /\ (Outbound(u) <=> Outbound(s))
    BY <1>1, <2>3, <2>4, AheadSame
  <2> QED BY <2>4, <2>5
<1>3. e = send_segments(g)
  BY DEF end_input_stream
<1> HIDE DEF u
<1>4. /\ Ahead(t, v, c, d, p, total) /\ t.next_seqno > 0 /\ t.stream.error = s.stream.error
      /\ (Outbound(t) <=> Outbound(s))
  <2>1. /\ Ahead(t, v, c, d, p, total) /\ t.next_seqno > 0 /\ SameFlags(u, t)
        /\ (Outbound(t) <=> Outbound(u))
    BY <1>1, <1>2, AheadFill, FillOutbound, Zenon
  <2> QED BY <1>2, <2>1, Zenon DEF SameFlags
<1> HIDE DEF t
<1>5. /\ Advance(c, send_segments(g), d, p, total) /\ send_segments(g).receiver = v
      /\ SameButOut(t, send_segments(g).sender) /\ SameRest(c, send_segments(g))
      /\ send_segments(g).sender.segments_out = <<>>
  BY <1>4, SendHalf
<1>6. CASE Over(c)
  <2>1. s.stream.error = FALSE => Outbound(t)
    BY <1>4, <1>6, Zenon DEF Over
  <2>2. Settled(send_segments(g))
    BY <1>4, <1>6, <2>1, SendOver
  <2> QED BY <1>3, <1>5, <2>2
<1>7. CASE Alive(c) /\ (c.linger_after_streams_finish = FALSE => ~Outbound(c.sender))
  <2> DEFINE h == send_segments(g)
  <2> HIDE DEF h
  <2>1. h.sender.stream = t.stream /\ h.sender.next_seqno = t.next_seqno
        /\ h.sender.bytes_in_flight = t.bytes_in_flight /\ Endpoint(h, d, p, total)
    BY <1>5, Zenon DEF SameButOut, Advance, h
  <2>2. Working(h)
    BY <1>4, <1>5, <1>7, <2>1, Zenon DEF Alive, Working, SameRest, h
  <2>3. Alive(h)
    BY <1>4, <2>1, <2>2, WorkingAlive, Zenon
  <2>4. Outbound(h.sender) => Outbound(s)
    BY <1>4, <2>1, Zenon DEF Outbound
  <2>5. Settled(h)
    BY <1>5, <1>7, <2>3, <2>4, Zenon DEF Settled, SameRest, h
  <2> QED BY <1>3, <1>5, <2>5 DEF h
<1> QED BY <1>6, <1>7, Zenon DEF Settled

\* What rule 2 finds when it writes len bytes, or ends the stream.
MayWrite(c, len, most) ==
    /\ c.sender.stream.end_input = FALSE /\ c.sender.segments_out = <<>>
    /\ len <= remaining_capacity(c.sender.stream) /\ c.sender.stream.bytes_written + len <= most
MayEnd(c, most) ==
    /\ c.sender.stream.end_input = FALSE /\ c.sender.segments_out = <<>>
    /\ c.sender.stream.bytes_written = most /\ c.sender.next_seqno > 0

\* What it makes of the connection.
Extends(c, e, len, ends) ==
    /\ e.receiver = c.receiver /\ e.sender.stream.end_input = ends
    /\ e.sender.stream.bytes_written = c.sender.stream.bytes_written + len

\* TCPConnection::write, while the connection works or after it broke within the
\* same round of the event loop.
LEMMA WriteAny ==
    ASSUME NEW total \in Lengths, NEW p \in Peer, NEW c, NEW d, Endpoint(c, d, p, total), Settled(c),
           NEW len \in Nat, MayWrite(c, len, total[p]),
           NEW e, e = connection_write(c, Bytes(c.sender.stream.bytes_written, len))
    PROVE  Advance(c, e, d, p, total) /\ Settled(e) /\ Extends(c, e, len, FALSE)
<1> /\ c.sender.stream.end_input = FALSE /\ c.sender.segments_out = <<>>
    /\ len <= remaining_capacity(c.sender.stream)
    /\ c.sender.stream.bytes_written + len <= total[p]
  BY DEF MayWrite
<1> DEFINE s == c.sender  v == c.receiver  w == s.stream.bytes_written  q == Bytes(w, len)
           u == Given(s, q)  t == WriteAndFill(s, len)  g == [c EXCEPT !.sender = t]
<1>1. /\ Members(c) /\ Ahead(s, v, c, d, p, total) /\ Fine(s, v, p, total)
      /\ Advance(c, c, d, p, total)
  BY EndpointAhead, Zenon DEF Endpoint
<1>2. Ahead(t, v, c, d, p, total) /\ t.next_seqno > 0 /\ SameFlags(s, t)
  BY <1>1, AheadWrite, Zenon
<1>3. /\ ISN[p] \in SeqNo /\ Capacity \in Nat /\ Good(s, w, ISN[p], Capacity)
      /\ InOrder(s.stream, Capacity) /\ w \in Nat
  BY <1>1, AheadSender, Zenon DEF Good, Sending
<1>4. t.stream.bytes_written = w + len
  <2> DEFINE n == write_count(s.stream, q)
  <2>1. n = len
    <3>1. Len(q) = len
      <4>1. w \in Int
        BY <1>3
      <4> QED BY <4>1, BytesProperties, Zenon
    <3>2. remaining_capacity(s.stream) \in Int
      <4>1. s.stream.capacity = Capacity /\ s.stream.buffer_size \in 0 .. Capacity
        BY <1>3, Zenon DEF InOrder
      <4> QED BY <1>3, <4>1 DEF remaining_capacity
    <3> HIDE DEF q
    <3> QED BY <3>1, <3>2 DEF write_count, LesserOf
  <2>2. TookData(s, u, q, w, ISN[p], Capacity)
    <3> HIDE DEF w
    <3>1. Open(s, w, ISN[p], Capacity)
      BY <1>3, Zenon DEF Open
    <3> QED BY <1>3, <3>1, WriteStep, Zenon
  <2>3. Good(u, w + n, ISN[p], Capacity) /\ u.next_seqno = u.next_seqno
    BY <2>2, Zenon DEF TookData
  <2> HIDE DEF n
  <2>4. Stepped(u, fill_window(u), w + n, ISN[p], Capacity)
    BY <1>3, <2>3, FillStep, Zenon
  <2>5. fill_window(u).stream.bytes_written = w + n
    BY <2>4, Zenon DEF Stepped, Good, Sending
  <2>6. t = fill_window(u)
    BY Zenon DEF WriteAndFill
  <2> HIDE DEF u, t
  <2> QED BY <2>1, <2>5, <2>6
<1>5. CASE len = 0
  <2>1. q = <<>>
    BY <1>3, <1>5 DEF Bytes
  <2>2. e = c
    BY <2>1 DEF connection_write
  <2>3. w = w + len
    BY <1>3, <1>5
  <2> QED BY <1>1, <2>2, <2>3, Zenon DEF Extends
<1>6. CASE len # 0
  <2>1. q # <<>>
    <3>1. Len(q) = len
      <4>1. w \in Int
        BY <1>3
      <4> QED BY <4>1, BytesProperties, Zenon
    <3> HIDE DEF q
    <3> QED BY <1>6, <3>1
  <2>2. e = send_segments(g)
    BY <2>1 DEF connection_write, WriteAndFill, Given
  <2> HIDE DEF t
  <2>3. /\ Advance(c, send_segments(g), d, p, total) /\ send_segments(g).receiver = v
        /\ SameButOut(t, send_segments(g).sender)
        /\ send_segments(g).sender.segments_out = <<>>
    BY <1>2, SendHalf
  <2>4. Settled(e)
    <3>1. CASE Over(c)
      <4>1. ~Outbound(s)
        BY Zenon DEF Outbound
      <4>2. c.sender.stream.error = FALSE => Outbound(t)
        BY <3>1, <4>1, Zenon DEF Over
      <4>3. t.stream.error = c.sender.stream.error
        BY <1>2, Zenon DEF SameFlags
      <4>4. Settled(send_segments(g))
        BY <1>2, <3>1, <4>2, <4>3, SendOver
      <4> QED BY <2>2, <4>4
    <3>2. CASE Alive(c)
      <4>1. c.active = TRUE
        BY <3>2, Zenon DEF Alive, Working
      <4> HIDE DEF Settled
      <4> QED BY <4>1, WriteAdvance
    <3> QED BY <3>1, <3>2, Zenon DEF Settled
  <2>5. e.sender.stream = t.stream
    BY <2>2, <2>3, Zenon DEF SameButOut
  <2>6. e.sender.stream.end_input = FALSE /\ e.receiver = c.receiver
    BY <1>2, <2>2, <2>3, <2>5, Zenon DEF SameFlags
  <2> QED BY <1>4, <2>2, <2>3, <2>4, <2>5, <2>6, Zenon DEF Extends
<1> QED BY <1>5, <1>6

\* TCPConnection::end_input_stream, in the same circumstances.
LEMMA EndAny ==
    ASSUME NEW total \in Lengths, NEW p \in Peer, NEW c, NEW d, Endpoint(c, d, p, total), Settled(c),
           MayEnd(c, total[p]), NEW e, e = end_input_stream(c)
    PROVE  Advance(c, e, d, p, total) /\ Settled(e) /\ Extends(c, e, 0, TRUE)
<1> /\ c.sender.stream.end_input = FALSE /\ c.sender.segments_out = <<>>
    /\ c.sender.stream.bytes_written = total[p] /\ c.sender.next_seqno > 0
  BY DEF MayEnd
<1> DEFINE s == c.sender  v == c.receiver  w == s.stream.bytes_written
           u == [s EXCEPT !.stream = end_input(@)]
           t == EndAndFill(s)  g == [c EXCEPT !.sender = t]
<1>1. /\ Members(c) /\ Ahead(s, v, c, d, p, total) /\ Fine(s, v, p, total)
  BY EndpointAhead, Zenon DEF Endpoint
<1>2. Ahead(t, v, c, d, p, total) /\ t.next_seqno > 0 /\ t.stream.error = s.stream.error
  <2> HIDE DEF s
  <2>1. /\ Fine(c.sender, c.receiver, p, total) /\ s.stream.end_input = FALSE
        /\ s.stream.bytes_written = total[p] /\ s.next_seqno > 0 /\ s.segments_out = <<>>
    BY <1>1 DEF s
  <2> QED BY <1>1, <2>1, AheadEnd
<1>3. /\ ISN[p] \in SeqNo /\ Capacity \in Nat /\ Good(s, w, ISN[p], Capacity)
      /\ InOrder(s.stream, Capacity) /\ w \in Nat
  BY <1>1, AheadSender, Zenon DEF Good, Sending
<1>4. t.stream.bytes_written = w /\ t.stream.end_input = TRUE
  <2>1. /\ Good(u, w, ISN[p], Capacity) /\ u.next_seqno = u.next_seqno
        /\ u.stream = end_input(s.stream)
    <3> HIDE DEF w
    <3> QED BY <1>3, EndStep
  <2>2. end_input(s.stream).end_input = TRUE
    <3> DEFINE q == s.stream
    <3>1. InOrder(q, Capacity)
      BY <1>3
    <3> HIDE DEF q
    <3>2. end_input(q).end_input = TRUE
      BY <3>1 DEF end_input, InOrder
    <3> QED BY <3>2 DEF q
  <2> HIDE DEF u
  <2>3. Stepped(u, fill_window(u), w, ISN[p], Capacity) /\ Filled(u, fill_window(u))
    BY <1>3, <2>1, FillStep, Zenon
  <2>4. fill_window(u).stream.bytes_written = w /\ fill_window(u).stream.end_input = TRUE
    BY <2>1, <2>2, <2>3, Zenon DEF Stepped, Good, Sending, Filled, SameFlags
  <2>5. t = fill_window(u)
    BY Zenon DEF EndAndFill, u
  <2> HIDE DEF t
  <2> QED BY <2>4, <2>5
<1>5. e = send_segments(g)
  BY DEF end_input_stream, EndAndFill
<1> HIDE DEF t
<1>6. /\ Advance(c, send_segments(g), d, p, total) /\ send_segments(g).receiver = v
      /\ SameButOut(t, send_segments(g).sender)
  BY <1>2, SendHalf
<1>7. Settled(e)
  <2>1. CASE Over(c)
    <3>1. ~Outbound(s)
      BY Zenon DEF Outbound
    <3>2. c.sender.stream.error = FALSE => Outbound(t)
      BY <2>1, <3>1, Zenon DEF Over
    <3>3. Settled(send_segments(g))
      BY <1>2, <2>1, <3>2, SendOver
    <3> QED BY <1>5, <3>3
  <2>2. CASE Alive(c)
    <3>1. c.active = TRUE
      BY <2>2, Zenon DEF Alive, Working
    <3> QED BY <3>1, EndAdvance
  <2> QED BY <2>1, <2>2, Zenon DEF Settled
<1>8. e.sender.stream = t.stream
  BY <1>5, <1>6, Zenon DEF SameButOut
<1>9. w = w + 0
  BY <1>3
<1> QED BY <1>4, <1>5, <1>6, <1>7, <1>8, <1>9, Zenon DEF Extends

\* passive_close and a RST: what the destructor and an abort do.
LEMMA CloseRst ==
    ASSUME NEW total \in Lengths, NEW p \in Peer, NEW c, NEW d, Endpoint(c, d, p, total),
           c.sender.next_seqno > 0, NEW e, e = send_rst_segment(passive_close(c))
    PROVE  /\ Advance(c, e, d, p, total) /\ Settled(e) /\ e.active = FALSE
           /\ e.receiver.reassembler.output.error = TRUE /\ e.sender.stream.error = TRUE
<1> DEFINE g == passive_close(c)  h == send_rst_segment(g)
<1>1. Advance(c, g, d, p, total) /\ ClosedBy(c, g)
  BY CloseAdvance, Zenon
<1> HIDE DEF g
<1>2. Endpoint(g, d, p, total)
  BY <1>1, Zenon DEF Advance
<1>3. /\ Advance(g, h, d, p, total) /\ h.receiver = g.receiver /\ SameButOut(g.sender, h.sender)
      /\ SameRest(g, h)
  BY <1>2, RstAdvance, Zenon
<1>4. e = h
  BY DEF g
<1> HIDE DEF h
<1>5. Advance(c, h, d, p, total)
  BY <1>1, <1>3, AdvanceStill, Zenon
<1>6. /\ h.active = FALSE /\ h.receiver.reassembler.output.error = TRUE
      /\ h.sender.stream.error = TRUE /\ h.sender.next_seqno > 0
  BY <1>1, <1>3, Zenon DEF ClosedBy, SameButOut, SameButBytes, SameRest
<1>7. Over(h)
  BY <1>6, Zenon DEF Over
<1> QED BY <1>4, <1>5, <1>6, <1>7 DEF Settled

\* The destructor of the connection.
LEMMA DestroyAdvance ==
    ASSUME NEW total \in Lengths, NEW p \in Peer, NEW c, NEW d, Endpoint(c, d, p, total), Settled(c),
           c.sender.next_seqno > 0, NEW e, e = DestroyTCPConnection(c)
    PROVE  /\ Advance(c, e, d, p, total) /\ Settled(e)
           /\ c.active = FALSE => e = c
           /\ c.active = TRUE => e.receiver.reassembler.output.error = TRUE
<1>1. c.active = TRUE \/ c.active = FALSE
  BY Zenon DEF Settled, Alive, Working, Over
<1>2. CASE c.active = TRUE
  <2>1. e = send_rst_segment(passive_close(c))
    BY <1>2 DEF DestroyTCPConnection
  <2> QED BY <1>2, <2>1, CloseRst
<1>3. CASE c.active = FALSE
  <2>1. e = c
    BY <1>3 DEF DestroyTCPConnection
  <2> QED BY <1>3, <2>1, EndpointAhead
<1> QED BY <1>1, <1>2, <1>3

\* segment_received leaves nothing behind in the queue of the sender.
LEMMA ReceiveEmpties ==
    ASSUME NEW c, Members(c), NEW w, NEW en, NEW k, Keeping(c, w, en, k),
           c.sender.segments_out = <<>>, NEW seg
    PROVE  segment_received(c, seg).sender.segments_out = <<>>
<1> DEFINE c0 == [c EXCEPT !.time_since_last_segment_received = 0]
           c1 == [c0 EXCEPT !.receiver = receiver_segment_received(@, seg)]
           b  == [c1 EXCEPT !.sender = ack_received(@, seg.ackno, seg.win)]
           c2 == IF seg.ack THEN send_segments(b) ELSE c1
           c3 == IF length_in_sequence_space(seg) > 0 THEN Answer(c2) ELSE c2
           Empty(x) == Members(x) /\ Fed(x.sender, w, en) /\ x.sender.segments_out = <<>>
           Whole(x) == Members(x) /\ Fed(x.sender, w, en)
<1>1. Empty(c0)
  BY DEF Members, Keeping
<1>2. ASSUME NEW x, Whole(x) PROVE Empty(send_segments(x))
  <2> DEFINE t == [x.sender EXCEPT !.segments_out = <<>>]
             out == x.segments_out \o [i \in 1 .. Len(x.sender.segments_out) |->
                                      Stamped(x, x.sender.segments_out[i],
                                              LesserOf(window_size(x.receiver), MaxWin))]
  <2>1. send_segments(x) = [x EXCEPT !.segments_out = out, !.sender = t]
    BY <1>2 DEF send_segments, Members
  <2>2. Fed(t, w, en)
    BY <1>2, SenderFed, Zenon
  <2>3. t.segments_out = <<>>
    BY <1>2 DEF Fed
  <2> HIDE DEF t, out
  <2>4. Members(send_segments(x)) /\ send_segments(x).sender = t
    BY <1>2, <2>1 DEF Members
  <2> QED BY <2>2, <2>3, <2>4
<1>3. ASSUME NEW x, Whole(x) PROVE Empty(Answer(x))
  <2> DEFINE f == [x EXCEPT !.sender = fill_window(@)]
             g == [f EXCEPT !.sender = send_empty_segment(@)]
  <2>1. Answer(x) = send_segments(f) \/ Answer(x) = send_segments(g)
    BY Zenon DEF Answer
  <2>2. Whole(f)
    <3> DEFINE t == fill_window(x.sender)
    <3>1. Fed(t, w, en)
      BY <1>3, SenderFed, Zenon
    <3> HIDE DEF t
    <3>2. Members([x EXCEPT !.sender = t]) /\ [x EXCEPT !.sender = t].sender = t
      BY <1>3 DEF Members
    <3> QED BY <3>1, <3>2 DEF t
  <2> HIDE DEF f
  <2>3. Whole(g)
    <3> DEFINE t == send_empty_segment(f.sender)
    <3>1. Fed(t, w, en)
      BY <2>2, SenderFed, Zenon
    <3> HIDE DEF t
    <3>2. Members([f EXCEPT !.sender = t]) /\ [f EXCEPT !.sender = t].sender = t
      BY <2>2 DEF Members
    <3> QED BY <3>1, <3>2 DEF t
  <2> HIDE DEF g, Whole, Empty
  <2> QED BY <1>2, <2>1, <2>2, <2>3, Zenon
<1>4. ASSUME NEW x, Empty(x) PROVE test_end(x).sender = x.sender
  <2>1. \/ test_end(x) = x \/ test_end(x) = [x EXCEPT !.active = FALSE]
        \/ test_end(x) = [x EXCEPT !.linger_after_streams_finish = FALSE]
    BY Zenon DEF test_end
  <2> QED BY <1>4, <2>1 DEF Members
<1>5. segment_received(c, seg) = passive_close(c0) \/ segment_received(c, seg) = test_end(c3)
  BY Zenon DEF segment_received
<1>6. passive_close(c0).sender.segments_out = <<>>
  <2> HIDE DEF c0
  <2> QED BY <1>1 DEF passive_close, Members, Fed
<1> HIDE DEF c0
<1>7. Empty(c1)
  <2> DEFINE v == receiver_segment_received(c0.receiver, seg)
  <2> HIDE DEF v
  <2>1. c1 = [c0 EXCEPT !.receiver = v]
    BY DEF v
  <2>2. Members(c1) /\ c1.sender = c0.sender
    BY <1>1, <2>1 DEF Members
  <2> QED BY <1>1, <2>2
<1> HIDE DEF c1
<1>8. Whole(b)
  <2> DEFINE t == ack_received(c1.sender, seg.ackno, seg.win)
  <2>1. Fed(t, w, en)
    BY <1>7, SenderFed, Zenon
  <2> HIDE DEF t
  <2>2. Members([c1 EXCEPT !.sender = t]) /\ [c1 EXCEPT !.sender = t].sender = t
    BY <1>7 DEF Members
  <2> QED BY <2>1, <2>2 DEF t
<1> HIDE DEF b
<1>9. Empty(c2)
  <2>1. Empty(send_segments(b))
    BY <1>2, <1>8, Zenon
  <2> QED BY <1>7, <2>1, Zenon
<1> HIDE DEF c2
<1>10. Empty(c3)
  <2>1. Empty(Answer(c2))
    BY <1>3, <1>9, Zenon
  <2> QED BY <1>9, <2>1, Zenon
<1> HIDE DEF c3
<1>11. test_end(c3).sender.segments_out = <<>>
  <2>1. test_end(c3).sender = c3.sender
    BY <1>4, <1>10, Zenon
  <2> QED BY <1>10, <2>1, Zenon
<1> QED BY <1>5, <1>6, <1>11

\* What Keeping says of an endpoint.
LEMMA EndpointKeeping ==
    ASSUME NEW total \in Lengths, NEW p \in Peer, NEW c, NEW d, Endpoint(c, d, p, total)
    PROVE  Keeping(c, c.sender.stream.bytes_written, c.sender.stream.end_input,
                   c.receiver.reassembler.output.bytes_read)
<1> DEFINE s == c.sender  r == c.receiver.reassembler
<1>1. /\ Members(c) /\ SenderFine(s, p, total) /\ ReceiverFine(c.receiver, p, total)
  BY Zenon DEF Endpoint, Fine
<1>2. Shape(s, ISN[p]) /\ InOrder(s.stream, Capacity)
  BY <1>1, Zenon DEF SenderFine, Good, Core, Sending
<1>3. DOMAIN s.stream = {"capacity", "bytes_written", "bytes_read", "buffer",
                          "buffer_size", "end_input", "error"}
  <2> DEFINE q == s.stream
  <2>1. q = [capacity |-> q.capacity, bytes_written |-> q.bytes_written,
             bytes_read |-> q.bytes_read, buffer |-> q.buffer,
             buffer_size |-> q.buffer_size, end_input |-> q.end_input, error |-> q.error]
    BY <1>2, Zenon DEF InOrder
  <2> HIDE DEF q
  <2>2. DOMAIN q = {"capacity", "bytes_written", "bytes_read", "buffer",
                          "buffer_size", "end_input", "error"}
    BY <2>1
  <2> QED BY <2>2 DEF q
<1>4. Fed(s, s.stream.bytes_written, s.stream.end_input)
  BY <1>2, <1>3, Zenon DEF Fed, Shape
<1>5. /\ DOMAIN c.receiver = {"reassembler", "capacity", "syn", "isn"}
      /\ Sound(r, Capacity, total[Other(p)])
  BY <1>1, Zenon DEF ReceiverFine, ReceiverSound
<1>6. /\ DOMAIN r = {"output", "capacity", "unassemble_buffer", "next_pos",
                   "unassembled_bytes", "eof_index", "eof_appear_sign"}
      /\ InOrder(r.output, Capacity)
  BY <1>5, Zenon DEF Sound, Tidy
<1>7. DOMAIN r.output = {"capacity", "bytes_written", "bytes_read", "buffer",
                          "buffer_size", "end_input", "error"}
  <2> DEFINE q == r.output
  <2>1. q = [capacity |-> q.capacity, bytes_written |-> q.bytes_written,
             bytes_read |-> q.bytes_read, buffer |-> q.buffer,
             buffer_size |-> q.buffer_size, end_input |-> q.end_input, error |-> q.error]
    BY <1>6, Zenon DEF InOrder
  <2> HIDE DEF q
  <2>2. DOMAIN q = {"capacity", "bytes_written", "bytes_read", "buffer",
                          "buffer_size", "end_input", "error"}
    BY <2>1
  <2> QED BY <2>2 DEF q
<1>8. Flagged(r, r.output.error, r.output.bytes_read)
  BY <1>6, <1>7, Zenon DEF Flagged
<1> QED BY <1>1, <1>4, <1>5, <1>8, Zenon DEF Keeping

\* The numbers of the inbound stream.
LEMMA InboundNumbers ==
    ASSUME NEW total \in Lengths, NEW p \in Peer, NEW v, ReceiverFine(v, p, total)
    PROVE  LET in == v.reassembler.output
           IN  /\ in.bytes_read \in Nat /\ in.buffer_size \in Nat /\ in.bytes_written \in Nat
               /\ in.bytes_written = in.bytes_read + in.buffer_size
               /\ in.bytes_written <= total[Other(p)] /\ total[Other(p)] \in Nat
               /\ in.buffer = Bytes(in.bytes_read, in.buffer_size)
               /\ in.end_input \in BOOLEAN /\ in.error \in BOOLEAN
               /\ InOrder(in, Capacity)
<1> DEFINE L == total[Other(p)]  r == v.reassembler  in == r.output
<1>1. L \in Nat /\ Capacity \in Nat
  BY TwoPeers, PairConstants
<1>2. Sound(r, Capacity, L)
  BY Zenon DEF ReceiverFine, ReceiverSound
<1>3. InOrder(in, Capacity)
  BY <1>2, Zenon DEF Sound, Tidy
<1> HIDE DEF L, r
<1>4. /\ in.bytes_read \in Nat /\ in.buffer_size \in 0 .. Capacity /\ in.bytes_written \in 0 .. L
      /\ in.bytes_written = in.bytes_read + in.buffer_size
      /\ in.buffer = Bytes(in.bytes_read, in.buffer_size) /\ in.end_input \in BOOLEAN
  <2>1. in.bytes_read \in Nat /\ in.buffer_size \in 0 .. Capacity /\ in.bytes_written \in 0 .. L
    BY <1>1, <1>2, SoundCounts, Zenon
  <2>2. in.bytes_written = in.bytes_read + in.buffer_size
    BY <1>3, Zenon DEF InOrder
  <2>3. in.buffer = Bytes(in.bytes_read, in.buffer_size)
    BY <1>3, Zenon DEF InOrder
  <2>4. in.end_input \in BOOLEAN
    BY <1>3, Zenon DEF InOrder
  <2> QED BY <2>1, <2>2, <2>3, <2>4
<1>5. in.error \in BOOLEAN
  BY <1>3, Zenon DEF InOrder
<1>6. in.buffer_size \in Nat /\ in.bytes_written \in Nat /\ in.bytes_written <= L
  BY <1>1, <1>4
<1> QED BY <1>1, <1>3, <1>4, <1>5, <1>6 DEF L, r

\* An inbound stream at its end, from which nobody reads, stays there.
LEMMA EofStays ==
    ASSUME NEW total \in Lengths, NEW p \in Peer, NEW c, NEW d, Endpoint(c, d, p, total),
           NEW e, Advance(c, e, d, p, total),
           e.receiver.reassembler.output.bytes_read = c.receiver.reassembler.output.bytes_read,
           eof(c.receiver.reassembler.output)
    PROVE  eof(e.receiver.reassembler.output)
<1> DEFINE v == c.receiver  x == e.receiver  in == v.reassembler.output  o == x.reassembler.output
           L == total[Other(p)]
<1>1. /\ ReceiverFine(v, p, total) /\ ReceiverFine(x, p, total) /\ Got(v) <= Got(x)
  BY Zenon DEF Advance, Endpoint, Fine, Later
<1>2. /\ in.end_input \in BOOLEAN /\ o.end_input \in BOOLEAN
      /\ in.bytes_read \in Nat /\ in.buffer_size \in Nat /\ in.bytes_written = in.bytes_read + in.buffer_size
      /\ o.bytes_read \in Nat /\ o.buffer_size \in Nat /\ o.bytes_written = o.bytes_read + o.buffer_size
      /\ o.bytes_written <= L /\ L \in Nat /\ o.bytes_written \in Nat
  BY <1>1, InboundNumbers, Zenon
<1>3. in.end_input = TRUE /\ in.buffer_size = 0
  BY <1>2, Zenon DEF eof
<1>4. v.syn = TRUE /\ in.bytes_written = L
  BY <1>1, <1>3, InboundEnded, Zenon
<1>5. Got(v) = L + 2
  <2>1. Got(v) = FirstMissing(in)
    BY <1>4, Zenon DEF Got
  <2>2. FirstMissing(in) = 1 + L + 1
    BY <1>3, <1>4 DEF FirstMissing
  <2> HIDE DEF L
  <2> QED BY <1>2, <2>1, <2>2
<1>6. x.syn = TRUE
  <2>1. x.syn \in BOOLEAN /\ (x.syn = FALSE => Got(x) = 0) /\ Got(x) \in Nat
    BY <1>1, ReceiverNumbers, Zenon
  <2> HIDE DEF L
  <2> QED BY <1>1, <1>2, <1>5, <2>1
<1>7. Got(x) = FirstMissing(o)
  BY <1>6, Zenon DEF Got
<1>8. o.end_input = TRUE /\ o.bytes_written = L
  <2>1. L + 2 <= 1 + o.bytes_written + (IF o.end_input THEN 1 ELSE 0)
    BY <1>1, <1>5, <1>7 DEF FirstMissing
  <2> HIDE DEF L, o
  <2>2. CASE o.end_input = TRUE
    BY <1>2, <2>1, <2>2
  <2>3. CASE o.end_input = FALSE
    BY <1>2, <2>1, <2>3
  <2> QED BY <1>2, <2>2, <2>3
<1>9. o.buffer_size = 0
  BY <1>2, <1>3, <1>4, <1>8
<1> QED BY <1>8, <1>9 DEF eof

\* A reassembler that does not know the end fits every longer and every shorter
\* stream that has the bytes it accepted.
LEMMA SoundShorter ==
    ASSUME NEW cap \in Nat, NEW L \in Nat, NEW r, Sound(r, cap, L), r.eof_appear_sign = FALSE,
           NEW n \in Nat, \A i \in Accepted(r) : i < n
    PROVE  Sound(r, cap, n)
<1> DEFINE buf == r.unassemble_buffer
<1>1. /\ Tidy(r, r.next_pos + 1, cap, L) /\ Ends(r, L)
  BY Zenon DEF Sound
<1>2. /\ r.next_pos \in 0 .. L /\ r.output.bytes_written = r.next_pos
      /\ Apart(buf, r.next_pos + 1, L, r.output.bytes_read + cap)
  BY <1>1, Zenon DEF Tidy
<1>3. r.next_pos \in 0 .. n
  <2>1. r.next_pos \in Nat
    BY <1>2
  <2>2. r.next_pos > 0 => r.next_pos - 1 \in Accepted(r)
    BY <2>1 DEF Accepted
  <2> QED BY <2>1, <2>2
<1>4. ASSUME NEW k \in DOMAIN buf PROVE SegEnd(buf, k) <= n
  <2>1. SegEnd(buf, k) \in Nat /\ k \in Nat /\ k < SegEnd(buf, k)
    BY <1>2, <1>4 DEF Apart
  <2>2. SegEnd(buf, k) - 1 \in Held(buf)
    <3>1. SegEnd(buf, k) - 1 \in k .. SegEnd(buf, k) - 1
      BY <2>1
    <3> QED BY <1>4, <3>1, Zenon DEF Held
  <2>3. SegEnd(buf, k) - 1 < n
    BY <2>2 DEF Accepted
  <2> QED BY <2>1, <2>3
<1>5. Apart(buf, r.next_pos + 1, n, r.output.bytes_read + cap)
  BY <1>2, <1>4, Zenon DEF Apart
<1>6. Tidy(r, r.next_pos + 1, cap, n)
  BY <1>1, <1>3, <1>5, Zenon DEF Tidy
<1>7. Ends(r, n)
  <2>1. r.eof_index \in 0 .. n
    BY <1>1 DEF Ends
  <2> QED BY <1>1, <2>1, Zenon DEF Ends
<1> QED BY <1>6, <1>7, Zenon DEF Sound

\* The application of p closes early: its stream is as long as what it has written.
LEMMA ShorterBase ==
    ASSUME NEW total \in Lengths, Base(total), NEW p \in Peer,
           conn[p].sender.stream.end_input = FALSE,
           NEW new, new = [total EXCEPT ![p] = conn[p].sender.stream.bytes_written]
    PROVE  new \in Lengths /\ Base(new)
<1> DEFINE q == Other(p)  c == conn[p]  d == conn[q]  w == c.sender.stream.bytes_written
<1>1. q \in Peer /\ q # p /\ Other(q) = p /\ \A x \in Peer : x = p \/ x = q
  BY TwoPeers
<1>2. /\ Endpoint(c, d, p, total) /\ Settled(c) /\ Endpoint(d, c, q, total) /\ Settled(d)
      /\ SenderFine(c.sender, p, total) /\ ReceiverFine(c.receiver, p, total)
      /\ SenderFine(d.sender, q, total) /\ ReceiverFine(d.receiver, q, total)
  BY InvParts, Zenon
<1>3. /\ w \in Nat /\ w <= total[p] /\ c.sender.stream.bytes_read \in Nat
      /\ c.sender.stream.bytes_read <= w
  <2>1. /\ w \in Nat /\ c.sender.stream.bytes_read \in Nat /\ c.sender.stream.buffer_size \in Nat
        /\ w = c.sender.stream.bytes_read + c.sender.stream.buffer_size
    BY <1>2, SenderNumbers, Zenon
  <2>2. w <= total[p]
    BY <1>2, Zenon DEF SenderFine
  <2> HIDE DEF w
  <2> QED BY <2>1, <2>2
<1>4. new \in Lengths /\ new[p] = w /\ new[q] = total[q]
  <2>1. total \in [Peer -> Nat] /\ \A x \in Peer : total[x] + 2 < HalfRange /\ total[x] + 2 < SizeSpace
    BY DEF Lengths
  <2>2. HalfRange \in Nat /\ SizeSpace \in Nat
    BY HalfRangeAssumption, SizeSpaceAssumption
  <2> HIDE DEF w
  <2>3. new = [total EXCEPT ![p] = w]
    BY DEF w
  <2>4. w + 2 < HalfRange /\ w + 2 < SizeSpace
    BY <1>3, <2>1, <2>2
  <2> QED BY <1>1, <1>3, <2>1, <2>3, <2>4 DEF Lengths
<1> HIDE DEF q
<1>5. SenderFine(c.sender, p, new) /\ SenderFine(d.sender, q, new)
  <2>1. w <= w
    BY <1>3
  <2>2. ~(c.sender.stream.end_input = TRUE)
    OBVIOUS
  <2> QED BY <1>2, <1>4, <2>1, <2>2, Zenon DEF SenderFine
<1>6. ReceiverFine(c.receiver, p, new)
  BY <1>2, <1>4, Zenon DEF ReceiverFine, q
<1>7. ReceiverFine(d.receiver, q, new)
  <2> DEFINE r == d.receiver.reassembler
  <2>1. /\ ReceiverSound(d.receiver, Capacity, total[p], ISN[p]) /\ Sound(r, Capacity, total[p])
    BY <1>1, <1>2, Zenon DEF ReceiverFine, ReceiverSound
  <2>2. /\ \A i \in Accepted(r) : i < c.sender.stream.bytes_read
        /\ r.eof_appear_sign # TRUE
    <3>1. /\ \A i \in Accepted(r) : i < c.sender.stream.bytes_read
          /\ (r.eof_appear_sign = TRUE => c.sender.stream.end_input = TRUE)
      BY <1>2, Zenon DEF Endpoint, Heard
    <3>2. c.sender.stream.end_input # TRUE
      OBVIOUS
    <3> QED BY <3>1, <3>2, Zenon
  <2>3. r.eof_appear_sign = FALSE
    <3>1. r.eof_appear_sign \in BOOLEAN
      BY <2>1, Zenon DEF Sound, Ends
    <3> QED BY <2>2, <3>1
  <2>4. \A i \in Accepted(r) : i < w
    <3>1. Accepted(r) \subseteq Nat
      BY <1>1, <1>2, AcceptedNat, Zenon
    <3> HIDE DEF w, r
    <3> QED BY <1>3, <2>2, <3>1
  <2>5. Sound(r, Capacity, w)
    <3>1. Capacity \in Nat /\ total[p] \in Nat
      BY PairConstants
    <3> HIDE DEF w, r
    <3> QED BY <1>3, <2>1, <2>3, <2>4, <3>1, SoundShorter, Zenon
  <2> QED BY <1>1, <1>2, <1>4, <2>1, <2>5, Zenon DEF ReceiverFine, ReceiverSound
<1>8. Paired(c, d, p, new) /\ Paired(d, c, q, new)
  BY <1>2, <1>5, <1>6, <1>7, Zenon DEF Paired, Endpoint, Fine
<1>9. ASSUME NEW x \in Peer
      PROVE  Paired(conn[x], conn[Other(x)], x, new) /\ UnderWay(net[x], conn[Other(x)], Other(x))
  <2>1. UnderWay(net[x], conn[Other(x)], Other(x))
    BY Zenon DEF Base
  <2>2. CASE x = p
    BY <1>8, <2>1, <2>2 DEF q
  <2>3. CASE x = q
    BY <1>1, <1>8, <2>1, <2>3
  <2> QED BY <1>1, <2>2, <2>3
<1> QED BY <1>4, <1>9 DEF Base

-----------------------------------------------------------------------------
\* The socket

\* The members of the socket: k is sock.
SockTyped(k) ==
    /\ DOMAIN k = {"owner", "up", "up_shut", "down", "down_shut", "kind", "wrote", "got", "saw_eof",
                   "pc", "rules", "revents", "timeout", "eof", "abort", "inbound_shutdown",
                   "outbound_shutdown"}
    /\ k.up \in Seq(Int) /\ k.down \in Seq(Int) /\ k.got \in Seq(Int) /\ k.wrote \in Nat
    /\ k.kind \in LocalSockets /\ Len(k.down) <= k.kind.cap
    /\ k.rules \subseteq 1 .. 4 /\ 1 \in k.rules /\ 4 \in k.rules
    /\ k.revents.ready \subseteq 1 .. 4 /\ k.revents.hup \subseteq {3}
    /\ k.up_shut \in BOOLEAN /\ k.down_shut \in BOOLEAN /\ k.saw_eof \in BOOLEAN
    /\ k.eof \in BOOLEAN /\ k.abort \in BOOLEAN /\ k.inbound_shutdown \in BOOLEAN
    /\ k.outbound_shutdown \in BOOLEAN

\* From the owner to the connection, whose sender is s: what the owner wrote is in
\* the stream or in the local socket, and the stream ends only behind all of it.
Upward(k, s) ==
    LET w == s.stream.bytes_written
    IN  /\ k.up = Bytes(w, Len(k.up)) /\ k.wrote = w + Len(k.up) /\ k.wrote <= StreamLen[Me]
        /\ k.eof = TRUE => s.stream.end_input = TRUE
        /\ s.stream.end_input = TRUE =>
               k.outbound_shutdown = TRUE /\ k.up = <<>> /\ k.up_shut = TRUE

\* From the connection, whose inbound stream is in, to the owner.
Downward(k, in) ==
    /\ k.got \o k.down = Bytes(0, in.bytes_read)
    /\ k.pc # "done" /\ k.down_shut = TRUE => k.inbound_shutdown = TRUE
    /\ k.inbound_shutdown = TRUE => NoMoreInbound(in)
    /\ 3 \notin k.rules => k.inbound_shutdown = TRUE
    /\ k.saw_eof = TRUE =>
           k.down_shut = TRUE /\ (in.error = TRUE \/ (eof(in) /\ k.down = <<>>))

\* What poll has reported is still true of the rules that are to be served.
Rounds(k, c) ==
    k.pc = "serve" =>
        /\ k.revents.ready \cup k.revents.hup # {}
        /\ 1 \in k.revents.ready => c.active = TRUE
        /\ 2 \in k.revents.ready => /\ k.outbound_shutdown = FALSE
                                    /\ k.up # <<>> \/ k.up_shut = TRUE
                                    /\ remaining_capacity(c.sender.stream) > 0
                                    /\ c.sender.segments_out = <<>>
        /\ 3 \in k.revents.hup => k.down_shut = TRUE

\* The owner's thread and the other one.
Threads(k, s) ==
    /\ k.owner = "new" => s.next_seqno = 0 /\ k.pc = "wait"
    /\ k.owner # "new" => s.next_seqno > 0
    /\ k.owner \in {"new", "connecting", "using"} => k.abort = FALSE

\* How the thread may have ended.
Exits(k, c) ==
    LET in == c.receiver.reassembler.output
    IN  /\ k.pc = "done" /\ k.abort = FALSE =>
               c.active = FALSE /\ c.segments_out = <<>> /\ NoMoreInbound(in)
        /\ k.pc = "terminated" => in.error = TRUE /\ k.inbound_shutdown = TRUE

Fit(k, c) ==
    /\ Upward(k, c.sender) /\ Downward(k, c.receiver.reassembler.output)
    /\ Rounds(k, c) /\ Threads(k, c.sender) /\ Exits(k, c)

\* The two connections and the network, when the owner's stream has the length
\* total[Me]: what it was to write, or what it had written when it closed early.
Balanced(total) ==
    /\ Base(total) /\ total[Them] = StreamLen[Them]
    /\ conn[Me].sender.stream.end_input = FALSE => total[Me] = StreamLen[Me]

\* The inductive invariant of the socket.
SocketInv ==
    /\ opener = {Me} /\ SockTyped(sock) /\ Fit(sock, conn[Me])
    /\ \E total \in Lengths : Balanced(total)

-----------------------------------------------------------------------------

\* The constants of the socket.
LEMMA SocketConstants ==
    /\ Me \in Peer /\ Them \in Peer /\ Them # Me /\ Other(Me) = Them /\ Other(Them) = Me
    /\ \A x \in Peer : x = Me \/ x = Them
    /\ StreamLen[Me] \in Nat /\ StreamLen[Them] \in Nat
    /\ \A kind \in LocalSockets : kind.cap \in Nat
<1>1. Me \in Peer /\ \A kind \in LocalSockets : kind.cap \in Nat
  BY SocketAssumption
<1>2. Other(Me) = Them
  BY DEF Them
<1>3. Them \in Peer /\ Them # Me /\ Other(Them) = Me /\ \A x \in Peer : x = Me \/ x = Them
  BY <1>1, <1>2, TwoPeers
<1> QED BY <1>1, <1>2, <1>3, PairAssumption

\* What a call leaves alone, or only moves on.
Kept(c, e) ==
    LET in == c.receiver.reassembler.output  out == e.receiver.reassembler.output
    IN  /\ e.sender.stream.bytes_written = c.sender.stream.bytes_written
        /\ e.sender.stream.end_input = c.sender.stream.end_input
        /\ out.bytes_read = in.bytes_read
        /\ in.error = TRUE => out.error = TRUE
        /\ eof(in) => eof(out)
        /\ NoMoreInbound(in) => NoMoreInbound(out)
        /\ c.sender.next_seqno > 0 => e.sender.next_seqno > 0

\* Whatever only moves the connection on, and writes, ends and reads nothing, keeps it.
LEMMA KeptBy ==
    ASSUME NEW total \in Lengths, NEW c, NEW d, Endpoint(c, d, Me, total),
           NEW e, Advance(c, e, d, Me, total),
           Keeping(e, c.sender.stream.bytes_written, c.sender.stream.end_input,
                   c.receiver.reassembler.output.bytes_read),
           c.receiver.reassembler.output.error = TRUE => e.receiver.reassembler.output.error = TRUE
    PROVE  Kept(c, e)
<1> DEFINE in == c.receiver.reassembler.output  out == e.receiver.reassembler.output
<1>1. /\ e.sender.stream.bytes_written = c.sender.stream.bytes_written
      /\ e.sender.stream.end_input = c.sender.stream.end_input /\ out.bytes_read = in.bytes_read
  BY Zenon DEF Keeping, Fed, Flagged
<1>2. eof(in) => eof(out)
  BY <1>1, EofStays, SocketConstants, Zenon
<1>3. NoMoreInbound(in) => NoMoreInbound(out)
  <2>1. in.error \in BOOLEAN
    BY InboundNumbers, SocketConstants, Zenon DEF Endpoint, Fine
  <2> QED BY <1>2, <2>1 DEF NoMoreInbound
<1>4. c.sender.next_seqno > 0 => e.sender.next_seqno > 0
  BY AdvanceNumbers, SocketConstants, Zenon
<1> QED BY <1>1, <1>2, <1>3, <1>4, Zenon DEF Kept

\* The owner's bytes still fit then.
LEMMA KeptFits ==
    ASSUME NEW k, NEW c, NEW e, Kept(c, e), Upward(k, c.sender),
           Downward(k, c.receiver.reassembler.output)
    PROVE  Upward(k, e.sender) /\ Downward(k, e.receiver.reassembler.output)
<1>1. Upward(k, e.sender)
  BY Zenon DEF Kept, Upward
<1>2. Downward(k, e.receiver.reassembler.output)
  BY Zenon DEF Kept, Downward
<1> QED BY <1>1, <1>2

\* A step of the thread or the owner that makes f of the connection: e, but for
\* what rule 4 has sent.
LEMMA MeStep ==
    ASSUME opener' = {Me}, SockTyped(sock'),
           NEW total \in Lengths, Base(total), total[Them] = StreamLen[Them],
           NEW e, Advance(conn[Me], e, conn[Them], Me, total), Settled(e),
           e.sender.stream.end_input = FALSE => total[Me] = StreamLen[Me],
           NEW f, Members(f), f.sender = e.sender, f.receiver = e.receiver,
           f.segments_out \in {<<>>, e.segments_out}, SameRest(e, f),
           Becomes(f), Fit(sock', f),
           DOMAIN net' = Peer, net'[Me] \subseteq net[Me],
           \A seg \in net'[Them] : seg \in net[Them] \/ seg \in Range(e.segments_out)
    PROVE  SocketInv'
<1>1. conn' = [conn EXCEPT ![Me] = f]
  BY DEF Becomes
<1>2. Base(total)'
  BY <1>1, SocketConstants, InvStep
<1>3. conn'[Me] = f
  BY <1>1, SocketConstants DEF Base
<1>4. Balanced(total)'
  BY <1>2, <1>3 DEF Balanced
<1> QED BY <1>3, <1>4 DEF SocketInv

\* The same when nothing is sent.
LEMMA MeMoves ==
    ASSUME opener' = {Me}, SockTyped(sock'),
           NEW total \in Lengths, Base(total), total[Them] = StreamLen[Them],
           NEW e, Advance(conn[Me], e, conn[Them], Me, total), Settled(e),
           e.sender.stream.end_input = FALSE => total[Me] = StreamLen[Me],
           Becomes(e), Fit(sock', e),
           DOMAIN net' = Peer, net'[Me] \subseteq net[Me], net'[Them] \subseteq net[Them]
    PROVE  SocketInv'
<1>1. /\ Members(e) /\ e.sender = e.sender /\ e.receiver = e.receiver
      /\ e.segments_out \in {<<>>, e.segments_out} /\ SameRest(e, e)
  BY Zenon DEF Advance, Endpoint, SameRest
<1>2. \A seg \in net'[Them] : seg \in net[Them] \/ seg \in Range(e.segments_out)
  OBVIOUS
<1> QED BY <1>1, <1>2, MeStep

\* A step that leaves the connections alone.
LEMMA SockStep ==
    ASSUME SocketInv, UNCHANGED <<opener, conn, net>>, SockTyped(sock'), Fit(sock', conn[Me])
    PROVE  SocketInv'
<1>1. PICK total \in Lengths : Balanced(total)
  BY DEF SocketInv
<1>2. Balanced(total)'
  BY <1>1 DEF Balanced, Base
<1> QED BY <1>2 DEF SocketInv

\* What the invariant says of the connection under the socket.
LEMMA MeParts ==
    ASSUME NEW total \in Lengths, Base(total)
    PROVE  LET c == conn[Me]  d == conn[Them]
           IN  /\ Endpoint(c, d, Me, total) /\ Settled(c) /\ Advance(c, c, d, Me, total)
               /\ SenderFine(c.sender, Me, total) /\ ReceiverFine(c.receiver, Me, total)
               /\ Endpoint(d, c, Them, total) /\ Settled(d)
               /\ SenderFine(d.sender, Them, total) /\ ReceiverFine(d.receiver, Them, total)
               /\ c.active \in BOOLEAN /\ d.active \in BOOLEAN /\ DOMAIN conn = Peer /\ DOMAIN net = Peer
               /\ Keeping(c, c.sender.stream.bytes_written, c.sender.stream.end_input,
                          c.receiver.reassembler.output.bytes_read)
<1> DEFINE c == conn[Me]  d == conn[Them]
<1>1. /\ Endpoint(c, d, Me, total) /\ Settled(c) /\ Endpoint(d, c, Them, total) /\ Settled(d)
      /\ SenderFine(c.sender, Me, total) /\ ReceiverFine(c.receiver, Me, total)
      /\ SenderFine(d.sender, Them, total) /\ ReceiverFine(d.receiver, Them, total)
      /\ c.active \in BOOLEAN /\ d.active \in BOOLEAN
  BY InvParts, SocketConstants
<1>2. DOMAIN conn = Peer /\ DOMAIN net = Peer
  BY DEF Base
<1> HIDE DEF c, d
<1>3. Advance(c, c, d, Me, total)
  BY <1>1, EndpointAhead, SocketConstants, Zenon
<1>4. Keeping(c, c.sender.stream.bytes_written, c.sender.stream.end_input,
              c.receiver.reassembler.output.bytes_read)
  BY <1>1, EndpointKeeping, SocketConstants, Zenon
<1> QED BY <1>1, <1>2, <1>3, <1>4 DEF c, d

\* The order in which the rules are served.
LEMMA LeastServed ==
    ASSUME NEW S \in SUBSET (1 .. 4), S # {}
    PROVE  Min(S) \in S /\ \A y \in S : Min(S) <= y
<1>1. \A y \in S : y = 1 \/ y = 2 \/ y = 3 \/ y = 4
  OBVIOUS
<1>2. \E x \in S : \A y \in S : x <= y
  <2>1. CASE 1 \in S
    <3>1. \A y \in S : 1 <= y
      BY <1>1
    <3> QED BY <2>1, <3>1
  <2>2. CASE 1 \notin S /\ 2 \in S
    <3>1. \A y \in S : 2 <= y
      BY <1>1, <2>2
    <3> QED BY <2>2, <3>1
  <2>3. CASE 1 \notin S /\ 2 \notin S /\ 3 \in S
    <3>1. \A y \in S : 3 <= y
      BY <1>1, <2>3
    <3> QED BY <2>3, <3>1
  <2>4. CASE 1 \notin S /\ 2 \notin S /\ 3 \notin S
    <3>1. \A y \in S : y = 4
      BY <1>1, <2>4
    <3>2. PICK x \in S : TRUE
      OBVIOUS
    <3>3. \A y \in S : x <= y
      BY <3>1, <3>2
    <3> QED BY <3>2, <3>3
  <2> QED BY <2>1, <2>2, <2>3, <2>4
<1> QED BY <1>2 DEF Min

\* sock after a rule has been served.
AfterFrom(k, upd, r) ==
    /\ k.owner = upd.owner /\ k.up = upd.up /\ k.up_shut = upd.up_shut /\ k.down = upd.down
    /\ k.down_shut = upd.down_shut /\ k.kind = upd.kind /\ k.wrote = upd.wrote /\ k.got = upd.got
    /\ k.saw_eof = upd.saw_eof /\ k.rules = upd.rules /\ k.eof = upd.eof /\ k.abort = upd.abort
    /\ k.inbound_shutdown = upd.inbound_shutdown /\ k.outbound_shutdown = upd.outbound_shutdown
    /\ k.revents.ready = sock.revents.ready \ {r} /\ k.revents.hup = sock.revents.hup \ {r}
    /\ \/ k.pc = "tick"
       \/ k.pc = "serve" /\ k.revents.ready \cup k.revents.hup # {}

\* After is that, and has the type of upd.
LEMMA AfterTyped ==
    ASSUME SockTyped(sock), NEW upd, SockTyped(upd), NEW r
    PROVE  SockTyped(After(r, upd)) /\ AfterFrom(After(r, upd), upd, r)
<1> DEFINE left == Served(sock.revents, r)
           pc == IF AllServed(left) THEN "tick" ELSE "serve"
           k == [upd EXCEPT !.revents = left, !.pc = pc]
<1>1. After(r, upd) = k
  BY DEF After
<1>2. left.ready = sock.revents.ready \ {r} /\ left.hup = sock.revents.hup \ {r}
  BY DEF Served
<1>3. pc = "tick" \/ (pc = "serve" /\ left.ready \cup left.hup # {})
  BY DEF AllServed
<1> HIDE DEF left, pc
<1>4. /\ DOMAIN k = DOMAIN upd /\ k.revents = left /\ k.pc = pc
      /\ k.owner = upd.owner /\ k.up = upd.up /\ k.up_shut = upd.up_shut /\ k.down = upd.down
      /\ k.down_shut = upd.down_shut /\ k.kind = upd.kind /\ k.wrote = upd.wrote /\ k.got = upd.got
      /\ k.saw_eof = upd.saw_eof /\ k.rules = upd.rules /\ k.eof = upd.eof /\ k.abort = upd.abort
      /\ k.inbound_shutdown = upd.inbound_shutdown /\ k.outbound_shutdown = upd.outbound_shutdown
  BY DEF SockTyped
<1> HIDE DEF k
<1>5. AfterFrom(k, upd, r)
  BY <1>2, <1>3, <1>4, Zenon DEF AfterFrom
<1>6. SockTyped(k)
  <2>1. k.revents.ready \subseteq 1 .. 4 /\ k.revents.hup \subseteq {3}
    BY <1>2, <1>4 DEF SockTyped
  <2> QED BY <1>4, <2>1, Zenon DEF SockTyped
<1> QED BY <1>1, <1>5, <1>6

\* What poll reported of the remaining rules is still true when rule r has made e
\* of the connection.
LEMMA AfterRounds ==
    ASSUME SockTyped(sock), Rounds(sock, conn[Me]), sock.pc = "serve",
           NEW upd, SockTyped(upd), NEW r, r = NextServed(sock.revents), NEW e,
           sock.down_shut = TRUE => upd.down_shut = TRUE,
           r = 1 /\ 2 \in sock.revents.ready =>
               /\ upd.outbound_shutdown = sock.outbound_shutdown /\ upd.up = sock.up
               /\ upd.up_shut = sock.up_shut /\ remaining_capacity(e.sender.stream) > 0
               /\ e.sender.segments_out = <<>>
    PROVE  /\ Rounds(After(r, upd), e)
           /\ r \in 1 .. 4 /\ r \in sock.revents.ready \cup sock.revents.hup
<1> DEFINE k == After(r, upd)  ready == sock.revents.ready  hup == sock.revents.hup
<1>1. AfterFrom(k, upd, r)
  BY AfterTyped, Zenon
<1> HIDE DEF k
<1>2. ready \cup hup # {} /\ ready \subseteq 1 .. 4 /\ hup \subseteq 1 .. 4
  BY DEF Rounds, SockTyped
<1>3. r \in ready \cup hup /\ \A y \in ready \cup hup : r <= y
  <2>1. r = Min(ready \cup hup)
    BY DEF NextServed
  <2> HIDE DEF ready, hup
  <2>2. ready \cup hup \in SUBSET (1 .. 4)
    BY <1>2
  <2> QED BY <1>2, <2>1, <2>2, LeastServed
<1>4. r \in 1 .. 4
  BY <1>2, <1>3
<1>5. 1 \notin k.revents.ready
  BY <1>1, <1>3, <1>4 DEF AfterFrom
<1>6. 2 \in k.revents.ready => r = 1 /\ 2 \in ready
  BY <1>1, <1>3, <1>4 DEF AfterFrom
<1>7. 3 \in k.revents.hup => k.down_shut = TRUE
  BY <1>1 DEF AfterFrom, Rounds
<1>8. 2 \in ready => /\ sock.outbound_shutdown = FALSE
                     /\ sock.up # <<>> \/ sock.up_shut = TRUE
  BY Zenon DEF Rounds
<1>9. 2 \in k.revents.ready => /\ k.outbound_shutdown = FALSE
                               /\ k.up # <<>> \/ k.up_shut = TRUE
                               /\ remaining_capacity(e.sender.stream) > 0
                               /\ e.sender.segments_out = <<>>
  BY <1>1, <1>6, <1>8, Zenon DEF AfterFrom
<1>10. k.pc = "serve" => k.revents.ready \cup k.revents.hup # {}
  BY <1>1 DEF AfterFrom
<1>11. Rounds(k, e)
  BY <1>5, <1>7, <1>9, <1>10, Zenon DEF Rounds
<1> QED BY <1>3, <1>4, <1>11 DEF k

-----------------------------------------------------------------------------

\* The constructor and the socket pair.
LEMMA SocketStart == ASSUME SocketInit PROVE SocketInv
<1> DEFINE c == conn[Me]  in == c.receiver.reassembler.output
<1>1. Init /\ opener = {Me}
  BY DEF SocketInit
<1>2. StreamLen \in Lengths /\ Base(StreamLen)
  BY <1>1, PairConstants, InitInv
<1>3. Balanced(StreamLen)
  BY <1>2 DEF Balanced
<1>4. c = NewTCPConnection(Capacity, Capacity, ISN[Me])
  BY <1>1, SocketConstants DEF Init
<1>5. /\ c.sender.stream.bytes_written = 0 /\ c.sender.stream.end_input = FALSE
      /\ c.sender.next_seqno = 0 /\ in.bytes_read = 0
  BY <1>4 DEF NewTCPConnection, NewTCPSender, NewTCPReceiver, NewStreamReassembler, NewByteStream
<1> HIDE DEF c, in
<1>6. PICK kind \in LocalSockets :
        sock = [owner |-> "new", up |-> <<>>, up_shut |-> FALSE, down |-> <<>>, down_shut |-> FALSE,
                kind |-> kind, wrote |-> 0, got |-> <<>>, saw_eof |-> FALSE,
                pc |-> "wait", rules |-> 1 .. 4, revents |-> Nothing, timeout |-> FALSE,
                eof |-> FALSE, abort |-> FALSE, inbound_shutdown |-> FALSE,
                outbound_shutdown |-> FALSE]
  BY DEF SocketInit
<1>7. /\ DOMAIN sock = {"owner", "up", "up_shut", "down", "down_shut", "kind", "wrote", "got",
                        "saw_eof", "pc", "rules", "revents", "timeout", "eof", "abort",
                        "inbound_shutdown", "outbound_shutdown"}
      /\ sock.owner = "new" /\ sock.up = <<>> /\ sock.up_shut = FALSE /\ sock.down = <<>>
      /\ sock.down_shut = FALSE /\ sock.kind = kind /\ sock.wrote = 0 /\ sock.got = <<>>
      /\ sock.saw_eof = FALSE /\ sock.pc = "wait" /\ sock.rules = 1 .. 4
      /\ sock.revents = Nothing /\ sock.eof = FALSE /\ sock.abort = FALSE
      /\ sock.inbound_shutdown = FALSE /\ sock.outbound_shutdown = FALSE
  BY <1>6
<1>8. sock.revents.ready = {} /\ sock.revents.hup = {}
  BY <1>7 DEF Nothing
<1>9. SockTyped(sock)
  <2>1. kind.cap \in Nat
    BY SocketConstants
  <2>2. Len(sock.down) <= sock.kind.cap /\ 1 \in sock.rules /\ 4 \in sock.rules
    BY <1>7, <2>1
  <2>3. /\ sock.up \in Seq(Int) /\ sock.down \in Seq(Int) /\ sock.got \in Seq(Int)
        /\ sock.wrote \in Nat /\ sock.kind \in LocalSockets /\ sock.rules \subseteq 1 .. 4
        /\ sock.revents.ready \subseteq 1 .. 4 /\ sock.revents.hup \subseteq {3}
    BY <1>7, <1>8
  <2>4. /\ sock.up_shut \in BOOLEAN /\ sock.down_shut \in BOOLEAN /\ sock.saw_eof \in BOOLEAN
        /\ sock.eof \in BOOLEAN /\ sock.abort \in BOOLEAN /\ sock.inbound_shutdown \in BOOLEAN
        /\ sock.outbound_shutdown \in BOOLEAN
    BY <1>7
  <2> QED BY <1>7, <2>2, <2>3, <2>4, Zenon DEF SockTyped
<1>10. Bytes(0, 0) = <<>>
  BY DEF Bytes
<1>11. Upward(sock, c.sender)
  <2>1. Len(sock.up) = 0 /\ StreamLen[Me] \in Nat
    BY <1>7, SocketConstants
  <2> QED BY <1>5, <1>7, <1>10, <2>1 DEF Upward
<1>12. Downward(sock, in)
  <2>1. sock.got \o sock.down = <<>>
    BY <1>7
  <2> QED BY <1>5, <1>7, <1>10, <2>1 DEF Downward
<1>13. Rounds(sock, c) /\ Threads(sock, c.sender) /\ Exits(sock, c)
  BY <1>5, <1>7 DEF Rounds, Threads, Exits
<1> QED BY <1>1, <1>2, <1>3, <1>9, <1>11, <1>12, <1>13 DEF SocketInv, Fit, c, in

-----------------------------------------------------------------------------
\* The owner

\* connect()
LEMMA SocketConnectStep ==
    ASSUME SocketInv, SocketConnect, UNCHANGED <<opener, net>> PROVE SocketInv'
<1> DEFINE c == conn[Me]  d == conn[Them]  e == connect(c)  k == sock'
<1>1. PICK total \in Lengths : Balanced(total)
  BY DEF SocketInv
<1>2. Base(total) /\ total[Them] = StreamLen[Them]
  BY <1>1 DEF Balanced
<1>3. /\ SockTyped(sock) /\ Fit(sock, c) /\ opener = {Me}
      /\ sock.owner = "new" /\ k = [sock EXCEPT !.owner = "connecting"] /\ Becomes(e)
  BY DEF SocketInv, SocketConnect
<1>4. /\ Endpoint(c, d, Me, total) /\ Settled(c) /\ DOMAIN net = Peer
      /\ Keeping(c, c.sender.stream.bytes_written, c.sender.stream.end_input,
                 c.receiver.reassembler.output.bytes_read)
  BY <1>2, MeParts, Zenon
<1> HIDE DEF c, d, k
<1>5. c.sender.next_seqno = 0 /\ sock.pc = "wait" /\ sock.abort = FALSE
  BY <1>3 DEF Fit, Threads
<1>6. Advance(c, e, d, Me, total) /\ Settled(e) /\ e.sender.next_seqno > 0
  BY <1>4, <1>5, ConnectAdvance, SocketConstants, Zenon
<1>7. Kept(c, e)
  <2>1. c.receiver.reassembler.output.error = FALSE
    BY <1>4, <1>5 DEF Settled, Over, Alive, Working
  <2>2. Keeping(e, c.sender.stream.bytes_written, c.sender.stream.end_input,
                c.receiver.reassembler.output.bytes_read)
    BY <1>4, KeepingPublic, Zenon
  <2> HIDE DEF e
  <2>3. c.receiver.reassembler.output.error = TRUE => e.receiver.reassembler.output.error = TRUE
    BY <2>1
  <2> QED BY <1>4, <1>6, <2>2, <2>3, KeptBy, Zenon
<1> HIDE DEF e
<1>8. Upward(sock, e.sender) /\ Downward(sock, e.receiver.reassembler.output)
  BY <1>3, <1>7, KeptFits, Zenon DEF Fit
<1>9. /\ DOMAIN k = DOMAIN sock /\ k.owner = "connecting"
      /\ k.up = sock.up /\ k.up_shut = sock.up_shut /\ k.down = sock.down
      /\ k.down_shut = sock.down_shut /\ k.kind = sock.kind /\ k.wrote = sock.wrote
      /\ k.got = sock.got /\ k.saw_eof = sock.saw_eof /\ k.pc = sock.pc /\ k.rules = sock.rules
      /\ k.revents = sock.revents /\ k.eof = sock.eof /\ k.abort = sock.abort
      /\ k.inbound_shutdown = sock.inbound_shutdown /\ k.outbound_shutdown = sock.outbound_shutdown
  BY <1>3 DEF SockTyped
<1>10. SockTyped(k)
  BY <1>3, <1>9, Zenon DEF SockTyped
<1>11. Fit(k, e)
  <2>1. Upward(k, e.sender) /\ Downward(k, e.receiver.reassembler.output)
    BY <1>8, <1>9, Zenon DEF Upward, Downward
  <2>2. Rounds(k, e) /\ Threads(k, e.sender) /\ Exits(k, e)
    BY <1>5, <1>6, <1>9 DEF Rounds, Threads, Exits
  <2> QED BY <2>1, <2>2 DEF Fit
<1>12. e.sender.stream.end_input = FALSE => total[Me] = StreamLen[Me]
  BY <1>1, <1>7 DEF Kept, Balanced, c
<1> QED BY <1>2, <1>3, <1>4, <1>6, <1>10, <1>11, <1>12, MeMoves DEF c, d, k

\* Append, of bytes named by position.
LEMMA BytesAppend ==
    ASSUME NEW first \in Int, NEW len \in Nat, NEW q, q = Bytes(first, len)
    PROVE  Append(q, first + len) = Bytes(first, len + 1)
<1>1. q \in Seq(Int) /\ Len(q) = len /\ \A i \in 1 .. len : q[i] = first + i - 1
  BY BytesProperties
<1> DEFINE w == Append(q, first + len)
<1>2. w \in Seq(Int) /\ Len(w) = len + 1 /\ \A i \in 1 .. len + 1 : w[i] = first + i - 1
  BY <1>1
<1> HIDE DEF w
<1>3. w = Bytes(first, len + 1)
  BY <1>2, IsBytes
<1> QED BY <1>3 DEF w

\* What the owner's thread does not touch: the event loop's side of the socket.
LoopSame(k, n) ==
    /\ n.kind = k.kind /\ n.pc = k.pc /\ n.rules = k.rules /\ n.revents = k.revents /\ n.eof = k.eof
    /\ n.inbound_shutdown = k.inbound_shutdown /\ n.outbound_shutdown = k.outbound_shutdown
    /\ DOMAIN n = DOMAIN k

\* write()
LEMMA OwnerWritesStep ==
    ASSUME SocketInv, OwnerWrites, UNCHANGED <<opener, net>> PROVE SocketInv'
<1> DEFINE c == conn[Me]  k == sock'  w == c.sender.stream.bytes_written
<1>1. /\ SockTyped(sock) /\ Fit(sock, c) /\ sock.owner = "using" /\ sock.wrote < StreamLen[Me]
      /\ ~sock.up_shut
      /\ k = [sock EXCEPT !.up = Append(@, sock.wrote), !.wrote = @ + 1] /\ conn' = conn
  BY DEF SocketInv, OwnerWrites
<1>2. w \in Nat /\ StreamLen[Me] \in Nat
  <2>1. PICK total \in Lengths : Base(total)
    BY DEF SocketInv, Balanced
  <2>2. SenderFine(c.sender, Me, total)
    BY <2>1, MeParts
  <2> QED BY <2>2, SenderNumbers, SocketConstants
<1> HIDE DEF c, k
<1>3. /\ LoopSame(sock, k) /\ k.up = Append(sock.up, sock.wrote) /\ k.wrote = sock.wrote + 1
      /\ k.owner = sock.owner /\ k.up_shut = sock.up_shut /\ k.down = sock.down
      /\ k.down_shut = sock.down_shut /\ k.got = sock.got /\ k.saw_eof = sock.saw_eof
      /\ k.abort = sock.abort
  BY <1>1 DEF SockTyped, LoopSame
<1>4. sock.up \in Seq(Int) /\ sock.wrote \in Nat
  BY <1>1 DEF SockTyped
<1>5. /\ sock.up = Bytes(w, Len(sock.up)) /\ sock.wrote = w + Len(sock.up)
      /\ sock.eof = TRUE => c.sender.stream.end_input = TRUE
      /\ c.sender.stream.end_input = TRUE => sock.up_shut = TRUE
  BY <1>1 DEF Fit, Upward
<1>6. k.up = Bytes(w, Len(sock.up) + 1) /\ Len(k.up) = Len(sock.up) + 1 /\ k.up # <<>>
      /\ k.up \in Seq(Int)
  <2> DEFINE n == Len(sock.up)
  <2>1. n \in Nat /\ w \in Int
    BY <1>2, <1>4
  <2>2. sock.up = Bytes(w, n) /\ sock.wrote = w + n /\ k.up = Append(sock.up, sock.wrote)
    BY <1>3, <1>5
  <2> HIDE DEF n, w
  <2>3. k.up = Bytes(w, n + 1)
    BY <2>1, <2>2, BytesAppend
  <2>4. k.up \in Seq(Int) /\ Len(k.up) = n + 1
    <3>1. n + 1 \in Nat
      BY <2>1
    <3> QED BY <2>1, <2>3, <3>1, BytesProperties, Zenon
  <2>5. k.up # <<>>
    BY <2>1, <2>4
  <2> QED BY <2>3, <2>4, <2>5 DEF n
<1>7. Upward(k, c.sender)
  <2>1. c.sender.stream.end_input # TRUE /\ sock.eof # TRUE
    BY <1>1, <1>5
  <2>2. k.wrote = w + Len(k.up) /\ k.wrote <= StreamLen[Me] /\ k.up = Bytes(w, Len(k.up))
    BY <1>1, <1>2, <1>3, <1>4, <1>5, <1>6, SMTT(30)
  <2> QED BY <1>3, <2>1, <2>2, Zenon DEF Upward, LoopSame
<1>8. Downward(k, c.receiver.reassembler.output) /\ Threads(k, c.sender) /\ Exits(k, c)
  BY <1>1, <1>3, Zenon DEF Fit, Downward, Threads, Exits, LoopSame
<1>9. Rounds(k, c)
  BY <1>1, <1>3, <1>6, Zenon DEF Fit, Rounds, LoopSame
<1>10. SockTyped(k)
  <2>1. k.wrote \in Nat
    BY <1>3, <1>4
  <2> QED BY <1>1, <1>3, <1>6, <2>1, Zenon DEF SockTyped, LoopSame
<1>11. Fit(k, c)
  BY <1>7, <1>8, <1>9 DEF Fit
<1> QED BY <1>1, <1>10, <1>11, SockStep DEF c, k

\* shutdown(SHUT_WR)
LEMMA OwnerShutsDownStep ==
    ASSUME SocketInv, OwnerShutsDown, UNCHANGED <<opener, net>> PROVE SocketInv'
<1> DEFINE c == conn[Me]  k == sock'
<1>1. /\ SockTyped(sock) /\ Fit(sock, c) /\ k = [sock EXCEPT !.up_shut = TRUE] /\ conn' = conn
  BY DEF SocketInv, OwnerShutsDown
<1> HIDE DEF c, k
<1>2. /\ LoopSame(sock, k) /\ k.up = sock.up /\ k.wrote = sock.wrote
      /\ k.owner = sock.owner /\ k.up_shut = TRUE /\ k.down = sock.down
      /\ k.down_shut = sock.down_shut /\ k.got = sock.got /\ k.saw_eof = sock.saw_eof
      /\ k.abort = sock.abort
  BY <1>1 DEF SockTyped, LoopSame
<1>3. SockTyped(k)
  <2>1. k.up_shut \in BOOLEAN
    BY <1>2
  <2> QED BY <1>1, <1>2, <2>1, Zenon DEF SockTyped, LoopSame
<1>4. Upward(k, c.sender)
  BY <1>1, <1>2, Zenon DEF Fit, Upward, LoopSame
<1>5. Downward(k, c.receiver.reassembler.output) /\ Threads(k, c.sender) /\ Exits(k, c)
  BY <1>1, <1>2, Zenon DEF Fit, Downward, Threads, Exits, LoopSame
<1>6. Rounds(k, c)
  BY <1>1, <1>2, Zenon DEF Fit, Rounds, LoopSame
<1>7. Fit(k, c)
  BY <1>4, <1>5, <1>6 DEF Fit
<1> QED BY <1>1, <1>3, <1>7, SockStep DEF c, k

\* read(): the end of the input is read only when the thread has written it, or
\* has ended with nothing left.
LEMMA OwnerReadsStep ==
    ASSUME SocketInv, OwnerReads, UNCHANGED <<opener, net>> PROVE SocketInv'
<1> DEFINE c == conn[Me]  k == sock'  in == c.receiver.reassembler.output
<1>1. /\ SockTyped(sock) /\ Fit(sock, c) /\ sock.owner = "using" /\ conn' = conn
      /\ sock.down # <<>> \/ sock.down_shut
      /\ k = [sock EXCEPT !.got = @ \o sock.down, !.down = <<>>, !.saw_eof = sock.down = <<>>]
  BY DEF SocketInv, OwnerReads
<1>2. in.error \in BOOLEAN
  <2>1. PICK total \in Lengths : Base(total)
    BY DEF SocketInv, Balanced
  <2>2. ReceiverFine(c.receiver, Me, total)
    BY <2>1, MeParts
  <2> QED BY <2>2, InboundNumbers, SocketConstants, Zenon
<1> HIDE DEF c, k, in
<1>3. /\ LoopSame(sock, k) /\ k.up = sock.up /\ k.wrote = sock.wrote
      /\ k.owner = sock.owner /\ k.up_shut = sock.up_shut /\ k.down = <<>>
      /\ k.down_shut = sock.down_shut /\ k.got = sock.got \o sock.down
      /\ k.abort = sock.abort
  BY <1>1 DEF SockTyped, LoopSame
<1>4. k.saw_eof = (sock.down = <<>>)
  BY <1>1 DEF SockTyped
<1>5. /\ sock.got \in Seq(Int) /\ sock.down \in Seq(Int) /\ sock.down_shut \in BOOLEAN
      /\ sock.kind.cap \in Nat
  BY <1>1, SocketConstants DEF SockTyped
<1>6. k.got \in Seq(Int) /\ k.got \o k.down = k.got /\ Len(k.down) <= sock.kind.cap
      /\ k.down \in Seq(Int) /\ k.saw_eof \in BOOLEAN
  BY <1>3, <1>4, <1>5
<1>7. SockTyped(k)
  BY <1>1, <1>3, <1>6, Zenon DEF SockTyped, LoopSame
<1>8. k.saw_eof = TRUE => sock.down_shut = TRUE
  BY <1>1, <1>4, <1>5
<1>9. sock.down_shut = TRUE => NoMoreInbound(in)
  <2>1. sock.pc # "done" /\ sock.down_shut = TRUE => NoMoreInbound(in)
    BY <1>1, Zenon DEF Fit, Downward, in
  <2>2. sock.pc = "done" => NoMoreInbound(in)
    BY <1>1 DEF Fit, Threads, Exits, in
  <2> QED BY <2>1, <2>2
<1>10. Downward(k, in)
  <2>1. k.saw_eof = TRUE => k.down_shut = TRUE /\ (in.error = TRUE \/ (eof(in) /\ k.down = <<>>))
    BY <1>2, <1>3, <1>8, <1>9 DEF NoMoreInbound
  <2>2. Downward(sock, in)
    BY <1>1 DEF Fit, in
  <2> QED BY <1>3, <1>6, <2>1, <2>2, Zenon DEF Downward, LoopSame
<1>11. Upward(k, c.sender) /\ Threads(k, c.sender) /\ Exits(k, c) /\ Rounds(k, c)
  BY <1>1, <1>3, ZenonT(60) DEF Fit, Upward, Threads, Exits, Rounds, LoopSame
<1>12. Fit(k, c)
  BY <1>10, <1>11 DEF Fit, in
<1> QED BY <1>1, <1>7, <1>12, SockStep DEF c, k

\* wait_until_closed()
LEMMA WaitStep ==
    ASSUME SocketInv, wait_until_closed, UNCHANGED <<opener, net>> PROVE SocketInv'
<1> DEFINE c == conn[Me]  k == sock'  in == c.receiver.reassembler.output
<1>1. /\ SockTyped(sock) /\ Fit(sock, c) /\ sock.owner = "using" /\ sock.saw_eof
      /\ k = [sock EXCEPT !.owner = "joining", !.up_shut = TRUE, !.down_shut = TRUE] /\ conn' = conn
  BY DEF SocketInv, wait_until_closed
<1> HIDE DEF c, k, in
<1>2. /\ LoopSame(sock, k) /\ k.up = sock.up /\ k.wrote = sock.wrote
      /\ k.owner = "joining" /\ k.up_shut = TRUE /\ k.down = sock.down
      /\ k.down_shut = TRUE /\ k.got = sock.got /\ k.saw_eof = sock.saw_eof
      /\ k.abort = sock.abort
  BY <1>1 DEF SockTyped, LoopSame
<1>3. SockTyped(k)
  <2>1. k.up_shut \in BOOLEAN /\ k.down_shut \in BOOLEAN
    BY <1>2
  <2> QED BY <1>1, <1>2, <2>1, Zenon DEF SockTyped, LoopSame
<1>4. sock.saw_eof = TRUE
  BY <1>1 DEF SockTyped
<1>5. Downward(k, in)
  <2>1. Downward(sock, in)
    BY <1>1 DEF Fit, in
  <2> QED BY <1>2, <1>4, <2>1, Zenon DEF Downward, LoopSame
<1>6. Upward(k, c.sender) /\ Exits(k, c) /\ Rounds(k, c)
  BY <1>1, <1>2, ZenonT(60) DEF Fit, Upward, Exits, Rounds, LoopSame
<1>7. Threads(k, c.sender)
  BY <1>1, <1>2 DEF Fit, Threads
<1>8. Fit(k, c)
  BY <1>5, <1>6, <1>7 DEF Fit, in
<1> QED BY <1>1, <1>3, <1>8, SockStep DEF c, k

\* The destructor, and the join that ends both.
LEMMA LeaveStep ==
    ASSUME SocketInv, Destroy \/ Join, UNCHANGED <<opener, net>> PROVE SocketInv'
<1> DEFINE c == conn[Me]  k == sock'
<1>1. PICK owner \in {"joining", "gone"}, abort \in {TRUE, sock.abort} :
        k = [sock EXCEPT !.owner = owner, !.abort = abort]
  <2>1. CASE Destroy
    <3>1. k = [sock EXCEPT !.owner = "joining", !.abort = TRUE]
      BY <2>1 DEF Destroy
    <3> QED BY <3>1
  <2>2. CASE Join
    <3>1. k = [sock EXCEPT !.owner = "gone"]
      BY <2>2 DEF Join
    <3>2. k = [sock EXCEPT !.owner = "gone", !.abort = sock.abort]
      BY <3>1 DEF SocketInv, SockTyped
    <3> QED BY <3>2
  <2> QED BY <2>1, <2>2
<1>2. /\ SockTyped(sock) /\ Fit(sock, c) /\ conn' = conn /\ sock.owner # "new"
  BY DEF SocketInv, Destroy, Join
<1> HIDE DEF c, k
<1>3. /\ LoopSame(sock, k) /\ k.up = sock.up /\ k.wrote = sock.wrote
      /\ k.owner = owner /\ k.up_shut = sock.up_shut /\ k.down = sock.down
      /\ k.down_shut = sock.down_shut /\ k.got = sock.got /\ k.saw_eof = sock.saw_eof
      /\ k.abort = abort
  BY <1>1, <1>2 DEF SockTyped, LoopSame
<1>4. abort \in BOOLEAN /\ (abort = FALSE => sock.abort = FALSE)
  BY <1>1, <1>2 DEF SockTyped
<1>5. SockTyped(k)
  BY <1>2, <1>3, <1>4, Zenon DEF SockTyped, LoopSame
<1>6. Upward(k, c.sender) /\ Downward(k, c.receiver.reassembler.output) /\ Rounds(k, c)
  BY <1>2, <1>3, ZenonT(60) DEF Fit, Upward, Downward, Rounds, LoopSame
<1>7. Exits(k, c)
  BY <1>2, <1>3, <1>4, Zenon DEF Fit, Exits, LoopSame
<1>8. Threads(k, c.sender)
  BY <1>1, <1>2, <1>3 DEF Fit, Threads
<1>9. Fit(k, c)
  BY <1>6, <1>7, <1>8 DEF Fit
<1> QED BY <1>2, <1>5, <1>9, SockStep DEF c, k

-----------------------------------------------------------------------------
\* The event loop

\* The connection that a round of the event loop has made, before it ends: c.
Ongoing(c, total) ==
    /\ Base(total) /\ total[Them] = StreamLen[Them]
    /\ c.sender.stream.end_input = FALSE => total[Me] = StreamLen[Me]
    /\ Advance(conn[Me], c, conn[Them], Me, total) /\ Settled(c) /\ c.sender.next_seqno > 0
    /\ Upward(sock, c.sender) /\ Downward(sock, c.receiver.reassembler.output)

\* A connection with Endpoint keeps what Kept lists.
LEMMA DestroyKept ==
    ASSUME NEW total \in Lengths, NEW c, NEW d, Endpoint(c, d, Me, total), Settled(c),
           c.sender.next_seqno > 0, NEW e, e = DestroyTCPConnection(c)
    PROVE  /\ Advance(c, e, d, Me, total) /\ Settled(e) /\ Kept(c, e)
           /\ c.active = FALSE => e = c
<1>1. /\ Advance(c, e, d, Me, total) /\ Settled(e) /\ (c.active = FALSE => e = c)
      /\ c.active = TRUE => e.receiver.reassembler.output.error = TRUE
  BY DestroyAdvance, SocketConstants, Zenon
<1>2. c.receiver.reassembler.output.error = TRUE => e.receiver.reassembler.output.error = TRUE
  <2>1. c.active = TRUE \/ c.active = FALSE
    BY DEF Settled, Alive, Working, Over
  <2> QED BY <1>1, <2>1
<1>3. Keeping(e, c.sender.stream.bytes_written, c.sender.stream.end_input,
              c.receiver.reassembler.output.bytes_read)
  BY EndpointKeeping, KeepingPublic, SocketConstants, Zenon
<1> QED BY <1>1, <1>2, <1>3, KeptBy, Zenon

\* The end of _tcp_loop: in connect(), or in the thread when _abort is set or when
\* no rule is left to poll.
LEMMA EndLoopStep ==
    ASSUME SocketInv, UNCHANGED <<opener, net>>, NEW total \in Lengths, NEW c, Ongoing(c, total),
           EndLoop(c), sock.owner # "new", sock.pc # "done",
           \/ sock.owner = "connecting" \/ sock.abort = TRUE
           \/ /\ c.active = FALSE /\ c.segments_out = <<>>
              /\ NoMoreInbound(c.receiver.reassembler.output)
    PROVE  SocketInv'
<1> DEFINE d == conn[Them]  k == sock'
<1>1. /\ opener' = {Me} /\ SockTyped(sock) /\ Threads(sock, conn[Me].sender)
      /\ Base(total) /\ total[Them] = StreamLen[Them]
      /\ Advance(conn[Me], c, d, Me, total) /\ Settled(c) /\ c.sender.next_seqno > 0
      /\ Upward(sock, c.sender) /\ Downward(sock, c.receiver.reassembler.output)
      /\ c.sender.stream.end_input = FALSE => total[Me] = StreamLen[Me]
      /\ Endpoint(c, d, Me, total)
  BY Zenon DEF SocketInv, Fit, Ongoing, Advance
<1>2. Endpoint(conn[Me], d, Me, total) /\ DOMAIN net = Peer
  BY <1>1, MeParts, Zenon
<1>3. CASE sock.owner = "connecting"
  <2>1. k = [sock EXCEPT !.owner = "using", !.pc = "wait"] /\ Becomes(c)
    BY <1>3 DEF EndLoop
  <2> HIDE DEF d, k
  <2>2. /\ k.pc = "wait" /\ DOMAIN k = DOMAIN sock
        /\ k.kind = sock.kind /\ k.rules = sock.rules /\ k.revents = sock.revents
        /\ k.eof = sock.eof /\ k.inbound_shutdown = sock.inbound_shutdown
        /\ k.outbound_shutdown = sock.outbound_shutdown
        /\ k.up = sock.up /\ k.wrote = sock.wrote /\ k.owner = "using"
        /\ k.up_shut = sock.up_shut /\ k.down = sock.down /\ k.down_shut = sock.down_shut
        /\ k.got = sock.got /\ k.saw_eof = sock.saw_eof /\ k.abort = sock.abort
    BY <1>1, <2>1 DEF SockTyped
  <2>3. SockTyped(k)
    BY <1>1, <2>2, Zenon DEF SockTyped
  <2>4. sock.abort = FALSE
    BY <1>1, <1>3 DEF Threads
  <2>5. Rounds(k, c) /\ Threads(k, c.sender) /\ Exits(k, c)
    BY <1>1, <2>2, <2>4 DEF Rounds, Threads, Exits
  <2>6. Upward(k, c.sender)
    BY <1>1, <2>2, Zenon DEF Upward
  <2>7. Downward(k, c.receiver.reassembler.output)
    <3>1. sock.down_shut = TRUE => sock.inbound_shutdown = TRUE
      BY <1>1, Zenon DEF Downward
    <3> QED BY <1>1, <2>2, <3>1, Zenon DEF Downward
  <2>8. Fit(k, c)
    BY <2>5, <2>6, <2>7 DEF Fit
  <2> QED BY <1>1, <1>2, <2>1, <2>3, <2>8, MeMoves DEF k, d
<1>4. CASE sock.owner # "connecting"
  <2> DEFINE e == DestroyTCPConnection(c)
  <2>1. k = [sock EXCEPT !.pc = "done", !.up_shut = TRUE, !.down_shut = TRUE] /\ Becomes(e)
    BY <1>4 DEF EndLoop
  <2>2. Advance(c, e, d, Me, total) /\ Settled(e) /\ Kept(c, e) /\ (c.active = FALSE => e = c)
    BY <1>1, DestroyKept, Zenon
  <2> HIDE DEF d, e, k
  <2>3. Advance(conn[Me], e, d, Me, total)
    BY <1>1, <1>2, <2>2, AdvanceStill, SocketConstants, Zenon
  <2>4. /\ k.pc = "done" /\ DOMAIN k = DOMAIN sock
        /\ k.kind = sock.kind /\ k.rules = sock.rules /\ k.revents = sock.revents
        /\ k.eof = sock.eof /\ k.inbound_shutdown = sock.inbound_shutdown
        /\ k.outbound_shutdown = sock.outbound_shutdown
        /\ k.up = sock.up /\ k.wrote = sock.wrote /\ k.owner = sock.owner
        /\ k.up_shut = TRUE /\ k.down = sock.down /\ k.down_shut = TRUE
        /\ k.got = sock.got /\ k.saw_eof = sock.saw_eof /\ k.abort = sock.abort
    BY <1>1, <2>1 DEF SockTyped
  <2>5. SockTyped(k)
    <3>1. k.up_shut \in BOOLEAN /\ k.down_shut \in BOOLEAN
      BY <2>4
    <3> QED BY <1>1, <2>4, <3>1, Zenon DEF SockTyped
  <2>6. Upward(sock, e.sender) /\ Downward(sock, e.receiver.reassembler.output)
    BY <1>1, <2>2, KeptFits, Zenon
  <2>7. Upward(k, e.sender) /\ Downward(k, e.receiver.reassembler.output)
    BY <2>4, <2>6, Zenon DEF Upward, Downward
  <2>8. Rounds(k, e)
    BY <2>4 DEF Rounds
  <2>9. Threads(k, e.sender)
    <3>1. e.sender.next_seqno > 0
      BY <1>1, <2>2 DEF Kept
    <3> QED BY <1>1, <2>4, <3>1, Zenon DEF Threads
  <2>10. Exits(k, e)
    <3>1. sock.abort = FALSE => /\ e.active = FALSE /\ e.segments_out = <<>>
                                /\ NoMoreInbound(e.receiver.reassembler.output)
      BY <1>4, <2>2
    <3> QED BY <2>4, <3>1 DEF Exits
  <2>11. Fit(k, e)
    BY <2>7, <2>8, <2>9, <2>10 DEF Fit
  <2>12. e.sender.stream.end_input = FALSE => total[Me] = StreamLen[Me]
    BY <1>1, <2>2 DEF Kept
  <2> QED BY <1>1, <1>2, <2>1, <2>2, <2>3, <2>5, <2>11, <2>12, MeMoves DEF k, d
<1> QED BY <1>3, <1>4

\* The connection as it is.
LEMMA StillOngoing ==
    ASSUME SocketInv, sock.owner # "new"
    PROVE  \E total \in Lengths : Ongoing(conn[Me], total)
<1>1. PICK total \in Lengths : Balanced(total)
  BY DEF SocketInv
<1>2. /\ Base(total) /\ total[Them] = StreamLen[Them]
      /\ conn[Me].sender.stream.end_input = FALSE => total[Me] = StreamLen[Me]
  BY <1>1 DEF Balanced
<1>3. Advance(conn[Me], conn[Me], conn[Them], Me, total) /\ Settled(conn[Me])
  BY <1>2, MeParts, Zenon
<1>4. /\ Upward(sock, conn[Me].sender) /\ Downward(sock, conn[Me].receiver.reassembler.output)
      /\ conn[Me].sender.next_seqno > 0
  BY DEF SocketInv, Fit, Threads
<1> QED BY <1>2, <1>3, <1>4 DEF Ongoing

\* connect() returns.
LEMMA ConnectReturnsStep == ASSUME SocketInv, ConnectReturns PROVE SocketInv'
<1>1. /\ sock.owner = "connecting" /\ sock.pc = "wait" /\ EndLoop(conn[Me])
      /\ UNCHANGED <<opener, net>>
  BY DEF ConnectReturns
<1>2. sock.owner # "new" /\ sock.pc # "done"
  BY <1>1
<1>3. PICK total \in Lengths : Ongoing(conn[Me], total)
  BY <1>2, StillOngoing
<1> QED BY <1>1, <1>2, <1>3, EndLoopStep

\* The clock, or _abort.
LEMMA LoopTickStep == ASSUME SocketInv, LoopTick PROVE SocketInv'
<1> DEFINE ms == IF sock.timeout THEN 1 ELSE 0
           c == conn[Me]  d == conn[Them]  e == IF c.active THEN tick(c, ms) ELSE c  k == sock'
<1>1. /\ sock.pc = "tick" /\ UNCHANGED <<opener, net>> /\ SockTyped(sock) /\ Fit(sock, c)
      /\ opener = {Me}
  BY DEF LoopTick, SocketInv
<1>2. sock.owner # "new" /\ sock.pc # "done"
  BY <1>1 DEF Fit, Threads
<1>3. PICK total \in Lengths : Ongoing(c, total)
  BY <1>2, StillOngoing
<1>4. CASE sock.abort
  <2>1. EndLoop(c)
    BY <1>4 DEF LoopTick
  <2>2. sock.abort = TRUE
    BY <1>1, <1>4 DEF SockTyped
  <2> QED BY <1>1, <1>2, <1>3, <2>1, <2>2, EndLoopStep
<1>5. CASE ~sock.abort
  <2>1. k = [sock EXCEPT !.pc = "wait", !.timeout = FALSE] /\ Becomes(e)
    BY <1>5, Zenon DEF LoopTick
  <2>2. /\ Base(total) /\ total[Them] = StreamLen[Them] /\ Advance(c, c, d, Me, total)
        /\ c.sender.stream.end_input = FALSE => total[Me] = StreamLen[Me]
        /\ Settled(c) /\ c.sender.next_seqno > 0
    BY <1>3, Zenon DEF Ongoing
  <2>3. /\ Endpoint(c, d, Me, total) /\ DOMAIN net = Peer /\ c.active \in BOOLEAN
        /\ Keeping(c, c.sender.stream.bytes_written, c.sender.stream.end_input,
                   c.receiver.reassembler.output.bytes_read)
    BY <2>2, MeParts, Zenon
  <2>4. ms \in Nat
    OBVIOUS
  <2> HIDE DEF ms, c, d, k
  <2>5. Advance(c, e, d, Me, total) /\ Settled(e)
    <3>1. CASE c.active = TRUE
      <4>1. e = tick(c, ms)
        BY <3>1
      <4> HIDE DEF e
      <4> QED BY <2>2, <2>3, <2>4, <3>1, <4>1, TickAdvance, SocketConstants, Zenon
    <3>2. CASE c.active = FALSE
      BY <2>2, <3>2
    <3> QED BY <2>3, <3>1, <3>2
  <2>6. Kept(c, e)
    <3>1. Keeping(e, c.sender.stream.bytes_written, c.sender.stream.end_input,
                  c.receiver.reassembler.output.bytes_read)
      <4>1. Keeping(tick(c, ms), c.sender.stream.bytes_written, c.sender.stream.end_input,
                    c.receiver.reassembler.output.bytes_read)
        BY <2>3, KeepingPublic, Zenon
      <4> QED BY <2>3, <4>1
    <3>2. c.receiver.reassembler.output.error = TRUE => e.receiver.reassembler.output.error = TRUE
      <4>1. c.active = TRUE => c.receiver.reassembler.output.error = FALSE
        BY <2>2 DEF Settled, Alive, Working, Over
      <4>2. c.active = FALSE => e = c
        OBVIOUS
      <4> QED BY <2>3, <4>1, <4>2
    <3> HIDE DEF e
    <3> QED BY <2>3, <2>5, <3>1, <3>2, KeptBy, Zenon
  <2> HIDE DEF e
  <2>7. Upward(sock, e.sender) /\ Downward(sock, e.receiver.reassembler.output)
    BY <1>1, <2>6, KeptFits, Zenon DEF Fit
  <2>8. /\ k.pc = "wait" /\ DOMAIN k = DOMAIN sock
        /\ k.kind = sock.kind /\ k.rules = sock.rules /\ k.revents = sock.revents
        /\ k.eof = sock.eof /\ k.inbound_shutdown = sock.inbound_shutdown
        /\ k.outbound_shutdown = sock.outbound_shutdown
        /\ k.up = sock.up /\ k.wrote = sock.wrote /\ k.owner = sock.owner
        /\ k.up_shut = sock.up_shut /\ k.down = sock.down /\ k.down_shut = sock.down_shut
        /\ k.got = sock.got /\ k.saw_eof = sock.saw_eof /\ k.abort = sock.abort
    BY <1>1, <2>1 DEF SockTyped
  <2>9. SockTyped(k)
    BY <1>1, <2>8, Zenon DEF SockTyped
  <2>10. Upward(k, e.sender) /\ Downward(k, e.receiver.reassembler.output)
    BY <1>1, <2>7, <2>8, Zenon DEF Upward, Downward
  <2>11. Rounds(k, e) /\ Exits(k, e)
    BY <2>8 DEF Rounds, Exits
  <2>12. Threads(k, e.sender)
    <3>1. e.sender.next_seqno > 0
      BY <2>2, <2>6 DEF Kept
    <3> QED BY <1>1, <1>2, <2>8, <3>1, Zenon DEF Threads, Fit
  <2>13. Fit(k, e)
    BY <2>10, <2>11, <2>12 DEF Fit
  <2>14. e.sender.stream.end_input = FALSE => total[Me] = StreamLen[Me]
    BY <2>2, <2>6 DEF Kept
  <2> QED BY <1>1, <2>1, <2>2, <2>3, <2>5, <2>9, <2>13, <2>14, MeMoves DEF k, d, c
<1> QED BY <1>4, <1>5

\* What _outbound_shutdown and the end of rule 2 leave of the connection: nothing
\* changes when end_input_stream is called again.
LEMMA EndedOngoing ==
    ASSUME SocketInv, sock.owner # "new", sock.eof = TRUE
    PROVE  /\ \E total \in Lengths : Ongoing(end_input_stream(conn[Me]), total)
           /\ sock.outbound_shutdown = TRUE
<1> DEFINE c == conn[Me]  d == conn[Them]  e == end_input_stream(c)
<1>1. PICK total \in Lengths : Ongoing(c, total)
  BY StillOngoing
<1>2. /\ Base(total) /\ total[Them] = StreamLen[Them] /\ Advance(c, c, d, Me, total)
      /\ c.sender.stream.end_input = FALSE => total[Me] = StreamLen[Me]
      /\ Settled(c) /\ c.sender.next_seqno > 0
      /\ Upward(sock, c.sender) /\ Downward(sock, c.receiver.reassembler.output)
  BY <1>1, Zenon DEF Ongoing
<1>3. Endpoint(c, d, Me, total)
  BY <1>2, MeParts, Zenon
<1>4. c.sender.stream.end_input = TRUE /\ sock.outbound_shutdown = TRUE
  BY <1>2, Zenon DEF Upward
<1> HIDE DEF c, d
<1>5. Advance(c, e, d, Me, total) /\ Settled(e) /\ e.receiver = c.receiver
  <2>1. Me \in Peer /\ e = end_input_stream(c) /\ Settled(c) /\ c.sender.stream.end_input = TRUE
    BY <1>2, <1>4, SocketConstants
  <2> HIDE DEF e
  <2> QED BY <1>3, <2>1, EndAgain, Zenon
<1> HIDE DEF e
<1>6. /\ e.sender.stream.end_input = TRUE
      /\ e.sender.stream.bytes_written = c.sender.stream.bytes_written
  BY <1>4, <1>5 DEF Advance, Later
<1>7. e.sender.next_seqno > 0
  BY <1>2, <1>3, <1>5, AdvanceNumbers, SocketConstants, Zenon
<1>8. Upward(sock, e.sender) /\ Downward(sock, e.receiver.reassembler.output)
  BY <1>2, <1>4, <1>5, <1>6, Zenon DEF Upward
<1>9. Ongoing(e, total)
  BY <1>2, <1>5, <1>6, <1>7, <1>8 DEF Ongoing, c, d
<1> QED BY <1>4, <1>9 DEF e, c

\* What wait_next_event asks poll for, rule by rule.
LEMMA InterestRules ==
    ASSUME NEW c, NEW shut
    PROVE  LET in == c.receiver.reassembler.output
           IN  /\ Interest(c, 1, shut) = c.active
               /\ Interest(c, 2, shut) = (c.active /\ ~shut /\ remaining_capacity(c.sender.stream) > 0)
               /\ Interest(c, 3, shut) = (\/ in.buffer_size > 0
                                          \/ (eof(in) \/ in.error) /\ ~sock.inbound_shutdown)
               /\ Interest(c, 4, shut) = (c.segments_out # <<>>)
BY DEF Interest, stream_out

\* No rule is left to poll: the connection is over and everything has left it.
LEMMA NothingAsked ==
    ASSUME NEW total \in Lengths, NEW c, NEW d, Endpoint(c, d, Me, total), Settled(c),
           SockTyped(sock), Downward(sock, c.receiver.reassembler.output),
           NEW rules, NEW shut, 1 \in rules, 4 \in rules, 3 \in sock.rules => 3 \in rules,
           \A r \in rules \cap 1 .. 4 : ~Interest(c, r, shut)
    PROVE  /\ c.active = FALSE /\ c.segments_out = <<>>
           /\ NoMoreInbound(c.receiver.reassembler.output)
<1> DEFINE in == c.receiver.reassembler.output
<1>1. /\ in.buffer_size \in Nat /\ in.end_input \in BOOLEAN /\ in.error \in BOOLEAN
  BY InboundNumbers, SocketConstants, Zenon DEF Endpoint, Fine
<1>2. c.active \in BOOLEAN
  BY DEF Settled, Alive, Working, Over
<1>3. ~Interest(c, 1, shut) /\ ~Interest(c, 4, shut)
  OBVIOUS
<1>4. c.active = FALSE /\ c.segments_out = <<>>
  BY <1>2, <1>3, InterestRules
<1>5. in.error = TRUE \/ in.end_input = TRUE
  <2>1. Over(c)
    BY <1>4 DEF Settled, Alive, Working
  <2> QED BY <2>1, Zenon DEF Over
<1>6. CASE sock.inbound_shutdown = TRUE
  BY <1>4, <1>6, Zenon DEF Downward
<1>7. CASE sock.inbound_shutdown # TRUE
  <2>1. 3 \in rules
    BY <1>7, Zenon DEF Downward
  <2>2. ~Interest(c, 3, shut)
    BY <2>1
  <2>3. ~(in.buffer_size > 0)
    BY <2>2, InterestRules
  <2>4. in.buffer_size = 0
    BY <1>1, <2>3
  <2>5. CASE in.error = TRUE
    BY <1>4, <2>5, Zenon DEF NoMoreInbound
  <2>6. CASE in.end_input = TRUE
    BY <1>4, <2>4, <2>6, Zenon DEF NoMoreInbound, eof
  <2> QED BY <1>5, <2>5, <2>6
<1> QED BY <1>4, <1>6, <1>7

\* What poll reports is true when it reports it.
LEMMA PolledRounds ==
    ASSUME SockTyped(sock), NEW c, Settled(c),
           NEW asked, asked \subseteq 1 .. 4,
           \A r \in asked : Interest(c, r, sock.outbound_shutdown),
           NEW found, \A r \in found.ready : r \in asked /\ Ready(r),
           \A r \in found.hup : r \in asked /\ HungUp(r) /\ ~Ready(r)
    PROVE  /\ found.ready \subseteq 1 .. 4 /\ found.hup \subseteq {3}
           /\ 1 \in found.ready => c.active = TRUE
           /\ 2 \in found.ready => /\ sock.outbound_shutdown = FALSE
                                   /\ sock.up # <<>> \/ sock.up_shut = TRUE
                                   /\ remaining_capacity(c.sender.stream) > 0
                                   /\ c.sender.segments_out = <<>>
           /\ 3 \in found.hup => sock.down_shut = TRUE
<1>1. c.active \in BOOLEAN /\ (c.active = TRUE => c.sender.segments_out = <<>>)
  BY DEF Settled, Alive, Working, Over
<1>2. sock.outbound_shutdown \in BOOLEAN /\ sock.up_shut \in BOOLEAN /\ sock.down_shut \in BOOLEAN
  BY DEF SockTyped
<1>3. Ready(2) = (sock.up # <<>> \/ sock.up_shut)
  BY DEF Ready
<1>4. \A r : HungUp(r) => (r = 2 \/ r = 3) /\ sock.up_shut = TRUE /\ sock.down_shut = TRUE
  BY <1>2 DEF HungUp
<1>5. found.hup \subseteq {3}
  BY <1>3, <1>4
<1>6. 1 \in found.ready => c.active = TRUE
  <2>1. 1 \in found.ready => Interest(c, 1, sock.outbound_shutdown)
    OBVIOUS
  <2> QED BY <1>1, <2>1, InterestRules
<1>7. 2 \in found.ready => /\ c.active = TRUE /\ ~sock.outbound_shutdown
                           /\ remaining_capacity(c.sender.stream) > 0
  <2>1. 2 \in found.ready => Interest(c, 2, sock.outbound_shutdown)
    OBVIOUS
  <2> QED BY <1>1, <2>1, InterestRules
<1>8. 2 \in found.ready => sock.up # <<>> \/ sock.up_shut = TRUE
  BY <1>2, <1>3
<1>9. 2 \in found.ready => sock.outbound_shutdown = FALSE
  BY <1>2, <1>7
<1>10. 3 \in found.hup => sock.down_shut = TRUE
  BY <1>4
<1>11. found.ready \subseteq 1 .. 4
  OBVIOUS
<1> QED BY <1>1, <1>5, <1>6, <1>7, <1>8, <1>9, <1>10, <1>11, Zenon

\* wait_next_event
LEMMA WaitNextEventStep == ASSUME SocketInv, WaitNextEvent PROVE SocketInv'
<1> DEFINE ended == Ended(sock.rules, IF sock.eof THEN {2} ELSE {})
           c     == IF 2 \in ended THEN end_input_stream(conn[Me]) ELSE conn[Me]
           shut  == sock.outbound_shutdown \/ 2 \in ended
           asked == Polled(sock.rules \ ended, {r \in 1 .. 4 : Interest(c, r, shut)})
           found == Revents(asked, {r \in asked : Ready(r)}, {r \in asked : HungUp(r)})
           pc    == IF AllServed(found) THEN "tick" ELSE "serve"
           rules == sock.rules \ ended
           d == conn[Them]  k == sock'
<1>1. /\ sock.pc = "wait" /\ sock.owner # "new" /\ UNCHANGED <<opener, net>>
      /\ IF asked = {} THEN EndLoop(c)
         ELSE /\ k = [sock EXCEPT !.pc = pc, !.timeout = AllServed(found),
                                  !.rules = @ \ ended, !.revents = found,
                                  !.outbound_shutdown = shut]
              /\ Becomes(c)
  BY Zenon DEF WaitNextEvent
<1>2. SockTyped(sock) /\ opener = {Me} /\ Threads(sock, conn[Me].sender)
  BY DEF SocketInv, Fit
<1>3. /\ rules \subseteq 1 .. 4 /\ 1 \in rules /\ 4 \in rules /\ (3 \in sock.rules <=> 3 \in rules)
      /\ 2 \in ended => sock.eof = TRUE
  BY <1>2 DEF SockTyped, Ended
<1>4. PICK total \in Lengths : Ongoing(c, total)
  <2>1. CASE 2 \in ended
    BY <1>1, <1>3, <2>1, EndedOngoing
  <2>2. CASE 2 \notin ended
    BY <1>1, <2>2, StillOngoing
  <2> QED BY <2>1, <2>2
<1>5. shut = sock.outbound_shutdown
  <2>1. 2 \in ended => sock.outbound_shutdown = TRUE
    BY <1>1, <1>3, EndedOngoing
  <2>2. sock.outbound_shutdown \in BOOLEAN
    BY <1>2 DEF SockTyped
  <2> QED BY <2>1, <2>2
<1>6. asked = Polled(rules, {r \in 1 .. 4 : Interest(c, r, shut)})
  OBVIOUS
<1> HIDE DEF ended, c, shut
<1>7. /\ Base(total) /\ total[Them] = StreamLen[Them] /\ Advance(conn[Me], c, d, Me, total)
      /\ c.sender.stream.end_input = FALSE => total[Me] = StreamLen[Me]
      /\ Settled(c) /\ c.sender.next_seqno > 0 /\ Endpoint(c, d, Me, total)
      /\ Upward(sock, c.sender) /\ Downward(sock, c.receiver.reassembler.output)
  BY <1>4, Zenon DEF Ongoing, Advance
<1>8. DOMAIN net = Peer
  BY <1>7, MeParts, Zenon
<1>9. CASE asked = {}
  <2>1. \A r \in rules \cap 1 .. 4 : ~Interest(c, r, shut)
    BY <1>6, <1>9 DEF Polled
  <2> HIDE DEF rules, asked, found, d
  <2>2. /\ c.active = FALSE /\ c.segments_out = <<>>
        /\ NoMoreInbound(c.receiver.reassembler.output)
    BY <1>2, <1>3, <1>7, <2>1, NothingAsked, Zenon
  <2>3. EndLoop(c)
    BY <1>1, <1>9
  <2>4. sock.pc # "done"
    BY <1>1
  <2> QED BY <1>1, <1>4, <2>2, <2>3, <2>4, EndLoopStep
<1>10. CASE asked # {}
  <2>1. /\ found.ready \subseteq 1 .. 4 /\ found.hup \subseteq {3}
        /\ 1 \in found.ready => c.active = TRUE
        /\ 2 \in found.ready => /\ sock.outbound_shutdown = FALSE
                                /\ sock.up # <<>> \/ sock.up_shut = TRUE
                                /\ remaining_capacity(c.sender.stream) > 0
                                /\ c.sender.segments_out = <<>>
        /\ 3 \in found.hup => sock.down_shut = TRUE
    <3>1. asked \subseteq 1 .. 4 /\ \A r \in asked : Interest(c, r, sock.outbound_shutdown)
      BY <1>5, <1>6 DEF Polled
    <3>2. /\ \A r \in found.ready : r \in asked /\ Ready(r)
          /\ \A r \in found.hup : r \in asked /\ HungUp(r) /\ ~Ready(r)
      BY DEF Revents
    <3> HIDE DEF rules, asked, found
    <3> QED BY <1>2, <1>7, <3>1, <3>2, PolledRounds, Zenon
  <2>2. pc = "tick" \/ (pc = "serve" /\ found.ready \cup found.hup # {})
    BY DEF AllServed
  <2>3. /\ k = [sock EXCEPT !.pc = pc, !.timeout = AllServed(found),
                            !.rules = rules, !.revents = found,
                            !.outbound_shutdown = shut]
        /\ Becomes(c)
    BY <1>1, <1>10
  <2> HIDE DEF rules, asked, found, pc, d, k
  <2>4. /\ k.pc = pc /\ DOMAIN k = DOMAIN sock
        /\ k.kind = sock.kind /\ k.rules = rules /\ k.revents = found
        /\ k.eof = sock.eof /\ k.inbound_shutdown = sock.inbound_shutdown
        /\ k.outbound_shutdown = sock.outbound_shutdown
        /\ k.up = sock.up /\ k.wrote = sock.wrote /\ k.owner = sock.owner
        /\ k.up_shut = sock.up_shut /\ k.down = sock.down /\ k.down_shut = sock.down_shut
        /\ k.got = sock.got /\ k.saw_eof = sock.saw_eof /\ k.abort = sock.abort
    BY <1>2, <1>5, <2>3 DEF SockTyped
  <2>5. SockTyped(k)
    BY <1>2, <1>3, <2>1, <2>4, Zenon DEF SockTyped
  <2>6. Upward(k, c.sender)
    BY <1>7, <2>4, Zenon DEF Upward
  <2>7. Downward(k, c.receiver.reassembler.output)
    <3>1. sock.pc # "done"
      BY <1>1
    <3> QED BY <1>3, <1>7, <2>4, <3>1, Zenon DEF Downward
  <2>8. Rounds(k, c)
    BY <2>1, <2>2, <2>4 DEF Rounds
  <2>9. Threads(k, c.sender) /\ Exits(k, c)
    BY <1>1, <1>2, <1>7, <2>2, <2>4 DEF Threads, Exits
  <2>10. Fit(k, c)
    BY <2>6, <2>7, <2>8, <2>9 DEF Fit
  <2> QED BY <1>1, <1>2, <1>7, <1>8, <2>3, <2>5, <2>10, MeMoves DEF k, d
<1> QED BY <1>9, <1>10

\* A served rule leaves the round going or ends it, no more.
LEMMA ServedThreads ==
    ASSUME NEW k, NEW upd, NEW r, AfterFrom(k, upd, r), NEW c, Threads(sock, c.sender),
           sock.pc = "serve", upd.owner = sock.owner, upd.abort = sock.abort,
           NEW e, c.sender.next_seqno > 0 => e.sender.next_seqno > 0
    PROVE  Threads(k, e.sender) /\ Exits(k, e)
<1>1. /\ k.owner = sock.owner /\ k.abort = sock.abort /\ (k.pc = "tick" \/ k.pc = "serve")
  BY Zenon DEF AfterFrom
<1>2. k.pc # "done" /\ k.pc # "terminated" /\ sock.owner # "new" /\ e.sender.next_seqno > 0
  BY <1>1 DEF Threads
<1>3. Exits(k, e)
  BY <1>2 DEF Exits
<1>4. Threads(k, e.sender)
  BY <1>1, <1>2, Zenon DEF Threads
<1> QED BY <1>3, <1>4

\* Room in the outbound stream stays room while nothing is written to it.
LEMMA RoomStays ==
    ASSUME NEW total \in Lengths, NEW c, NEW d, Endpoint(c, d, Me, total), NEW e,
           Advance(c, e, d, Me, total),
           e.sender.stream.bytes_written = c.sender.stream.bytes_written,
           remaining_capacity(c.sender.stream) > 0
    PROVE  remaining_capacity(e.sender.stream) > 0
<1> DEFINE s == c.sender.stream  t == e.sender.stream
<1>1. /\ Fine(c.sender, c.receiver, Me, total) /\ Fine(e.sender, e.receiver, Me, total)
      /\ Later(c.sender, c.receiver, e.sender, e.receiver)
      /\ SenderFine(c.sender, Me, total) /\ SenderFine(e.sender, Me, total)
  BY Zenon DEF Endpoint, Advance, Fine
<1>2. s.bytes_read <= t.bytes_read
  BY <1>1, ReadOn, SocketConstants, Zenon
<1>3. /\ s.bytes_read \in Nat /\ t.bytes_read \in Nat /\ s.buffer_size \in Nat /\ t.buffer_size \in Nat
      /\ s.bytes_written = s.bytes_read + s.buffer_size
      /\ t.bytes_written = t.bytes_read + t.buffer_size
  <2>1. InOrder(s, Capacity) /\ InOrder(t, Capacity)
    BY <1>1, Zenon DEF SenderFine, Good, Sending
  <2>2. Capacity \in Nat
    BY PairConstants
  <2> HIDE DEF s, t
  <2> QED BY <2>1, <2>2 DEF InOrder
<1>4. s.capacity = Capacity /\ t.capacity = Capacity /\ Capacity \in Nat
  BY <1>1, PairConstants DEF SenderFine, Good, Sending, InOrder
<1> HIDE DEF s, t
<1>5. s.capacity - s.buffer_size > 0
  BY DEF remaining_capacity, s
<1>6. t.bytes_written = s.bytes_written
  BY DEF s, t
<1>7. t.capacity - t.buffer_size > 0
  BY <1>2, <1>3, <1>4, <1>5, <1>6
<1> QED BY <1>7 DEF remaining_capacity, t

\* Rule 1
LEMMA Rule1Step ==
    ASSUME SocketInv, sock.pc = "serve", UNCHANGED opener,
           1 = NextServed(sock.revents), Rule1
    PROVE  SocketInv'
<1> DEFINE c == conn[Me]  d == conn[Them]  k == sock'
<1>1. PICK seg \in net[Me] :
        /\ Becomes(segment_received(c, seg))
        /\ net' = [net EXCEPT ![Me] = IF conn'[Me].active THEN @ \ {seg} ELSE {}]
        /\ k = After(1, sock)
  BY DEF Rule1
<1>2. /\ SockTyped(sock) /\ Fit(sock, c) /\ opener = {Me} /\ Rounds(sock, c)
      /\ Threads(sock, c.sender)
  BY DEF SocketInv, Fit
<1>3. PICK total \in Lengths : Balanced(total)
  BY DEF SocketInv
<1>4. Base(total) /\ total[Them] = StreamLen[Them]
      /\ (c.sender.stream.end_input = FALSE => total[Me] = StreamLen[Me])
  BY <1>3 DEF Balanced
<1>5. /\ Endpoint(c, d, Me, total) /\ Settled(c) /\ DOMAIN net = Peer
      /\ Keeping(c, c.sender.stream.bytes_written, c.sender.stream.end_input,
                 c.receiver.reassembler.output.bytes_read)
  BY <1>4, MeParts, Zenon
<1>6. sock.revents.ready \cup sock.revents.hup # {} /\ c.sender.next_seqno > 0
  BY <1>2 DEF Rounds, Threads
<1>7. 1 \in sock.revents.ready
  <2> DEFINE S == sock.revents.ready \cup sock.revents.hup
  <2>1. S \in SUBSET (1 .. 4) /\ S # {} /\ 1 = Min(S)
    BY <1>2, <1>6 DEF SockTyped, NextServed
  <2> HIDE DEF S
  <2>2. 1 \in S
    BY <2>1, LeastServed
  <2> QED BY <1>2, <2>2 DEF S, SockTyped
<1>8. c.active = TRUE
  BY <1>2, <1>7 DEF Rounds
<1> DEFINE e == segment_received(c, seg)
<1>9. Advance(c, e, d, Me, total) /\ Settled(e)
  <2>1. Taken(Me, seg) = e
    BY <1>2 DEF Taken, Listening
  <2>2. Running(Me) /\ conn[Me].active /\ Me \in Peer /\ Other(Me) = Them
    BY <1>6, <1>8, SocketConstants DEF Running
  <2> HIDE DEF e
  <2>3. /\ Advance(conn[Me], Taken(Me, seg), conn[Other(Me)], Me, total)
        /\ Settled(Taken(Me, seg))
    BY <1>4, <2>2, TakenAdvance, Zenon
  <2> QED BY <2>1, <2>2, <2>3
<1>10. Keeping(e, c.sender.stream.bytes_written, c.sender.stream.end_input,
               c.receiver.reassembler.output.bytes_read)
  BY <1>5, KeepingPublic, Zenon
<1>11. c.sender.segments_out = <<>> /\ c.receiver.reassembler.output.error = FALSE
  BY <1>5, <1>8 DEF Settled, Alive, Working, Over
<1>12. e.sender.segments_out = <<>>
  BY <1>5, <1>11, ReceiveEmpties, Zenon DEF Endpoint
<1> HIDE DEF c, d, e, k
<1>13. Kept(c, e)
  <2>1. c.receiver.reassembler.output.error = TRUE => e.receiver.reassembler.output.error = TRUE
    BY <1>11
  <2> QED BY <1>5, <1>9, <1>10, <2>1, KeptBy, Zenon
<1>14. Upward(sock, e.sender) /\ Downward(sock, e.receiver.reassembler.output)
  BY <1>2, <1>13, KeptFits, Zenon DEF Fit
<1>15. SockTyped(k) /\ AfterFrom(k, sock, 1)
  BY <1>1, <1>2, AfterTyped, Zenon
<1>16. Rounds(k, e)
  <2>1. 2 \in sock.revents.ready => remaining_capacity(e.sender.stream) > 0
    <3>1. 2 \in sock.revents.ready => remaining_capacity(c.sender.stream) > 0
      BY <1>2 DEF Rounds
    <3>2. e.sender.stream.bytes_written = c.sender.stream.bytes_written
      BY <1>13, Zenon DEF Kept
    <3> QED BY <1>5, <1>9, <3>1, <3>2, RoomStays, Zenon
  <2>2. Rounds(After(1, sock), e)
    BY <1>2, <1>12, <2>1, AfterRounds, Zenon DEF c
  <2> QED BY <1>1, <2>2
<1>17. Upward(k, e.sender) /\ Downward(k, e.receiver.reassembler.output)
  <2>1. sock.pc # "done"
    OBVIOUS
  <2> QED BY <1>14, <1>15, <2>1, Zenon DEF Upward, Downward, AfterFrom
<1>18. Threads(k, e.sender) /\ Exits(k, e)
  <2>1. c.sender.next_seqno > 0 => e.sender.next_seqno > 0
    BY <1>13, Zenon DEF Kept
  <2> QED BY <1>2, <1>15, <2>1, ServedThreads, Zenon
<1>19. Fit(k, e)
  BY <1>16, <1>17, <1>18 DEF Fit
<1>20. e.sender.stream.end_input = FALSE => total[Me] = StreamLen[Me]
  BY <1>4, <1>13 DEF Kept
<1>21. DOMAIN net' = Peer /\ net'[Me] \subseteq net[Me] /\ net'[Them] \subseteq net[Them]
  BY <1>1, <1>5, SocketConstants
<1>22. Becomes(e) /\ opener' = {Me}
  BY <1>1, <1>2 DEF e
<1> QED BY <1>4, <1>9, <1>15, <1>19, <1>20, <1>21, <1>22, MeMoves DEF c, d, k

\* What poll reported of rule r, when its turn has come.
LEMMA ServedRule ==
    ASSUME SocketInv, sock.pc = "serve", NEW r, r = NextServed(sock.revents)
    PROVE  /\ r \in sock.revents.ready \cup sock.revents.hup
           /\ sock.owner # "new" /\ conn[Me].sender.next_seqno > 0
<1> DEFINE S == sock.revents.ready \cup sock.revents.hup
<1>1. /\ sock.revents.ready \subseteq 1 .. 4 /\ sock.revents.hup \subseteq {3}
      /\ Rounds(sock, conn[Me]) /\ Threads(sock, conn[Me].sender)
  BY Zenon DEF SocketInv, Fit, SockTyped
<1>2. S \in SUBSET (1 .. 4) /\ S # {} /\ r = Min(S)
  BY <1>1 DEF Rounds, NextServed
<1> HIDE DEF S
<1>3. r \in S
  BY <1>2, LeastServed
<1>4. sock.owner # "new" /\ conn[Me].sender.next_seqno > 0
  BY <1>1 DEF Threads
<1> QED BY <1>3, <1>4 DEF S

\* The bytes that rule 2 reads, and those it leaves.
LEMMA SplitBytes ==
    ASSUME NEW q \in Seq(Int), NEW w \in Nat, q = Bytes(w, Len(q)), NEW len \in Nat, len <= Len(q)
    PROVE  /\ SubSeq(q, 1, len) = Bytes(w, len)
           /\ SubSeq(q, len + 1, Len(q)) \in Seq(Int)
           /\ Len(SubSeq(q, len + 1, Len(q))) = Len(q) - len
           /\ SubSeq(q, len + 1, Len(q)) = Bytes(w + len, Len(q) - len)
<1> DEFINE n == Len(q)
<1>1. n \in Nat /\ len <= n /\ q = Bytes(w, n)
  OBVIOUS
<1> HIDE DEF n
<1>2. SubSeq(q, 1, len) = Bytes(w, len)
  <2>1. SubSeq(Bytes(w, n), 1, len) = Bytes(w + 1 - 1, len - 1 + 1)
    <3>1. w \in Int /\ n \in Nat /\ 1 \in 1 .. n + 1 /\ len \in 1 - 1 .. n
      BY <1>1
    <3> QED BY <3>1, BytesSubSeq, Zenon
  <2>2. w + 1 - 1 = w /\ len - 1 + 1 = len
    OBVIOUS
  <2> QED BY <1>1, <2>1, <2>2
<1>3. SubSeq(q, len + 1, n) = Bytes(w + len, n - len)
  <2>1. SubSeq(Bytes(w, n), len + 1, n) = Bytes(w + (len + 1) - 1, n - (len + 1) + 1)
    <3>1. w \in Int /\ n \in Nat /\ len + 1 \in 1 .. n + 1 /\ n \in (len + 1) - 1 .. n
      BY <1>1
    <3> QED BY <3>1, BytesSubSeq, Zenon
  <2>2. w + (len + 1) - 1 = w + len /\ n - (len + 1) + 1 = n - len
    BY <1>1
  <2> QED BY <1>1, <2>1, <2>2
<1>4. w + len \in Int /\ n - len \in Nat
  BY <1>1
<1>5. SubSeq(q, len + 1, n) \in Seq(Int) /\ Len(SubSeq(q, len + 1, n)) = n - len
  BY <1>3, <1>4, BytesProperties
<1> QED BY <1>2, <1>3, <1>5 DEF n

\* Rule 2: bytes of the owner go into the stream, or its end does.
LEMMA Rule2Step ==
    ASSUME SocketInv, sock.pc = "serve", UNCHANGED opener,
           2 = NextServed(sock.revents), Rule2
    PROVE  SocketInv'
<1> DEFINE c == conn[Me]  d == conn[Them]  k == sock'  stream == c.sender.stream
           w == stream.bytes_written
           len == LesserOf(remaining_capacity(stream), Len(sock.up))
           upd == [sock EXCEPT !.up  = SubSeq(@, len + 1, Len(@)), !.eof = len = 0,
                               !.outbound_shutdown = len = 0]
           b == connection_write(c, SubSeq(sock.up, 1, len))
           e == IF len = 0 THEN end_input_stream(b) ELSE b
<1>1. Becomes(e) /\ k = After(2, upd) /\ net' = net /\ opener' = {Me}
  BY Zenon DEF Rule2, SocketInv
<1>2. /\ SockTyped(sock) /\ Rounds(sock, c) /\ Threads(sock, c.sender)
      /\ Upward(sock, c.sender) /\ Downward(sock, c.receiver.reassembler.output)
  BY Zenon DEF SocketInv, Fit
<1>3. PICK total \in Lengths : Balanced(total)
  BY DEF SocketInv
<1>4. Base(total) /\ total[Them] = StreamLen[Them]
      /\ (stream.end_input = FALSE => total[Me] = StreamLen[Me])
  BY <1>3 DEF Balanced
<1>5. /\ Endpoint(c, d, Me, total) /\ Settled(c) /\ DOMAIN net = Peer /\ DOMAIN conn = Peer
      /\ SenderFine(c.sender, Me, total)
  BY <1>4, MeParts, Zenon
<1>6. c.sender.next_seqno > 0 /\ 2 \in sock.revents.ready
  <2>1. 2 \in sock.revents.ready \cup sock.revents.hup /\ c.sender.next_seqno > 0
    BY ServedRule, Zenon
  <2> QED BY <1>2, <2>1 DEF SockTyped
<1>7. /\ sock.outbound_shutdown = FALSE /\ (sock.up # <<>> \/ sock.up_shut = TRUE)
      /\ remaining_capacity(stream) > 0 /\ c.sender.segments_out = <<>>
  BY <1>2, <1>6 DEF Rounds
<1>8. /\ w \in Nat /\ stream.end_input \in BOOLEAN /\ remaining_capacity(stream) \in Int
  <2>1. w \in Nat /\ stream.end_input \in BOOLEAN /\ stream.buffer_size \in Nat
    BY <1>5, SenderNumbers, SocketConstants, ZenonT(60)
  <2>2. stream.capacity = Capacity /\ Capacity \in Nat
    BY <1>5, PairConstants DEF SenderFine, Good, Sending, InOrder
  <2> QED BY <2>1, <2>2 DEF remaining_capacity
<1>9. stream.end_input = FALSE /\ total[Me] = StreamLen[Me]
  <2>1. stream.end_input = FALSE
    BY <1>2, <1>7, <1>8 DEF Upward
  <2> QED BY <1>4, <2>1
<1>10. /\ sock.up \in Seq(Int) /\ Len(sock.up) \in Nat /\ sock.up = Bytes(w, Len(sock.up))
       /\ sock.wrote = w + Len(sock.up) /\ sock.wrote <= StreamLen[Me] /\ StreamLen[Me] \in Nat
  BY <1>2, SocketConstants DEF SockTyped, Upward
<1>11. /\ len \in Nat /\ len <= remaining_capacity(stream) /\ len <= Len(sock.up)
       /\ len = 0 => Len(sock.up) = 0
  BY <1>7, <1>8, <1>10 DEF LesserOf
<1> HIDE DEF c, d, k, len, upd
<1>12. /\ SubSeq(sock.up, 1, len) = Bytes(w, len)
       /\ SubSeq(sock.up, len + 1, Len(sock.up)) \in Seq(Int)
       /\ Len(SubSeq(sock.up, len + 1, Len(sock.up))) = Len(sock.up) - len
       /\ SubSeq(sock.up, len + 1, Len(sock.up)) = Bytes(w + len, Len(sock.up) - len)
  BY <1>8, <1>10, <1>11, SplitBytes
<1>13. /\ DOMAIN upd = DOMAIN sock /\ upd.up = SubSeq(sock.up, len + 1, Len(sock.up))
       /\ upd.eof = (len = 0) /\ upd.outbound_shutdown = (len = 0)
       /\ upd.pc = sock.pc /\ upd.kind = sock.kind /\ upd.rules = sock.rules
       /\ upd.revents = sock.revents /\ upd.inbound_shutdown = sock.inbound_shutdown
       /\ upd.wrote = sock.wrote /\ upd.owner = sock.owner
       /\ upd.up_shut = sock.up_shut /\ upd.down = sock.down /\ upd.down_shut = sock.down_shut
       /\ upd.got = sock.got /\ upd.saw_eof = sock.saw_eof /\ upd.abort = sock.abort
  BY <1>2 DEF SockTyped, upd
<1>14. SockTyped(upd)
  <2>1. upd.eof \in BOOLEAN /\ upd.outbound_shutdown \in BOOLEAN /\ upd.up \in Seq(Int)
    BY <1>12, <1>13
  <2> QED BY <1>2, <1>13, <2>1, Zenon DEF SockTyped
<1>15. SockTyped(k) /\ AfterFrom(k, upd, 2)
  BY <1>1, <1>2, <1>14, AfterTyped, Zenon
<1>16. \A f : Rounds(k, f)
  <2> TAKE f
  <2>1. Rounds(After(2, upd), f)
    <3>1. 2 # 1
      OBVIOUS
    <3> QED BY <1>2, <1>13, <1>14, <3>1, AfterRounds, Zenon DEF c
  <2> QED BY <1>1, <2>1
<1>17. ASSUME NEW f, f.receiver = c.receiver, f.sender.next_seqno > 0,
              f.sender.stream.bytes_written = w + len,
              f.sender.stream.end_input = (len = 0)
       PROVE  Fit(k, f)
  <2>1. /\ k.up = upd.up /\ k.wrote = sock.wrote /\ k.eof = (len = 0)
        /\ k.outbound_shutdown = (len = 0) /\ k.up_shut = sock.up_shut
    BY <1>13, <1>15, Zenon DEF AfterFrom
  <2>2. Upward(k, f.sender)
    <3>1. k.up = Bytes(w + len, Len(k.up)) /\ k.wrote = (w + len) + Len(k.up)
          /\ k.wrote <= StreamLen[Me]
      <4>1. k.up = Bytes(w + len, Len(sock.up) - len) /\ Len(k.up) = Len(sock.up) - len
        BY <1>12, <1>13, <2>1, Zenon
      <4>2. k.up = Bytes(w + len, Len(k.up)) /\ k.wrote <= StreamLen[Me]
        BY <1>10, <2>1, <4>1, Zenon
      <4>3. k.wrote = w + Len(sock.up) /\ Len(sock.up) \in Nat
        BY <1>10, <2>1, Zenon
      <4>4. k.wrote = (w + len) + Len(k.up)
        <5> HIDE DEF w
        <5> QED BY <1>8, <1>11, <4>1, <4>3
      <4> QED BY <4>2, <4>4
    <3>2. CASE len = 0
      <4>1. k.up = <<>> /\ k.up_shut = TRUE
        <5>1. sock.up = <<>>
          BY <1>10, <1>11, <3>2
        <5>2. Len(k.up) = 0 /\ k.up \in Seq(Int)
          BY <1>10, <1>11, <1>12, <1>13, <2>1, <3>2
        <5> QED BY <1>7, <2>1, <5>1, <5>2
      <4>2. k.eof = TRUE /\ k.outbound_shutdown = TRUE /\ f.sender.stream.end_input = TRUE
        BY <1>17, <2>1, <3>2
      <4> QED BY <1>17, <3>1, <4>1, <4>2, Zenon DEF Upward
    <3>3. CASE len # 0
      <4>1. k.eof # TRUE /\ f.sender.stream.end_input # TRUE
        BY <1>17, <2>1, <3>3
      <4> QED BY <1>17, <3>1, <4>1, Zenon DEF Upward
    <3> QED BY <3>2, <3>3
  <2>3. Downward(k, f.receiver.reassembler.output)
    <3>1. sock.pc # "done"
      OBVIOUS
    <3>2. Downward(upd, c.receiver.reassembler.output) /\ upd.pc # "done"
      BY <1>2, <1>13, <3>1, Zenon DEF Downward
    <3>3. Downward(k, c.receiver.reassembler.output)
      BY <1>15, <3>2, Zenon DEF Downward, AfterFrom
    <3> QED BY <1>17, <3>3, Zenon
  <2>4. Threads(k, f.sender) /\ Exits(k, f)
    BY <1>2, <1>13, <1>15, <1>17, ServedThreads, Zenon
  <2> QED BY <1>16, <2>2, <2>3, <2>4 DEF Fit
<1>18. CASE len = 0
  <2> DEFINE new == [total EXCEPT ![Me] = w]
  <2>1. SubSeq(sock.up, 1, len) = <<>>
    <3>1. Bytes(w, 0) = <<>>
      BY <1>8 DEF Bytes
    <3> QED BY <1>12, <1>18, <3>1
  <2>2. b = c
    BY <2>1 DEF connection_write
  <2>3. e = end_input_stream(c)
    BY <1>18, <2>2
  <2>4. new \in Lengths /\ Base(new)
    BY <1>4, <1>9, ShorterBase, SocketConstants, Zenon DEF c
  <2>5. new[Me] = w /\ new[Them] = StreamLen[Them]
    BY <1>4, SocketConstants DEF Lengths
  <2>6. Endpoint(c, d, Me, new) /\ Settled(c)
    BY <2>4, MeParts, Zenon DEF c, d
  <2> HIDE DEF e, b, new
  <2>7. /\ Advance(c, e, d, Me, new) /\ Settled(e) /\ e.receiver = c.receiver
        /\ e.sender.stream.end_input = TRUE /\ e.sender.stream.bytes_written = w
    <3>1. MayEnd(c, new[Me])
      BY <1>6, <1>7, <1>9, <2>5 DEF MayEnd
    <3>2. Advance(c, e, d, Me, new) /\ Settled(e) /\ Extends(c, e, 0, TRUE)
      BY <2>3, <2>4, <2>6, <3>1, EndAny, SocketConstants, Zenon
    <3> QED BY <1>8, <3>2 DEF Extends
  <2>8. e.sender.next_seqno > 0
    BY <1>6, <2>4, <2>6, <2>7, AdvanceNumbers, SocketConstants, Zenon
  <2>9. Fit(k, e)
    <3>1. e.sender.stream.bytes_written = w + len /\ e.sender.stream.end_input = (len = 0)
      <4>1. w = w + len
        BY <1>8, <1>18
      <4>2. (len = 0) = TRUE
        BY <1>18
      <4> QED BY <2>7, <4>1, <4>2, Zenon
    <3> QED BY <1>17, <2>7, <2>8, <3>1, Zenon
  <2>10. e.sender.stream.end_input = FALSE => new[Me] = StreamLen[Me]
    BY <2>7
  <2> QED BY <1>1, <1>5, <1>15, <2>4, <2>5, <2>7, <2>9, <2>10, MeMoves DEF c, d, k
<1>19. CASE len # 0
  <2>1. e = connection_write(c, Bytes(w, len))
    BY <1>12, <1>19
  <2> HIDE DEF e, b
  <2>2. w + len <= total[Me]
    BY <1>8, <1>9, <1>10, <1>11, SMTT(30)
  <2>3. /\ Advance(c, e, d, Me, total) /\ Settled(e) /\ e.receiver = c.receiver
        /\ e.sender.stream.end_input = FALSE /\ e.sender.stream.bytes_written = w + len
    <3>1. MayWrite(c, len, total[Me])
      BY <1>7, <1>9, <1>11, <2>2 DEF MayWrite
    <3>2. Advance(c, e, d, Me, total) /\ Settled(e) /\ Extends(c, e, len, FALSE)
      BY <1>5, <1>11, <2>1, <3>1, WriteAny, SocketConstants, Zenon
    <3> QED BY <3>2 DEF Extends
  <2>4. e.sender.next_seqno > 0
    BY <1>5, <1>6, <2>3, AdvanceNumbers, SocketConstants, Zenon
  <2>5. Fit(k, e)
    <3>1. e.sender.stream.end_input = (len = 0)
      BY <1>19, <2>3
    <3> QED BY <1>17, <2>3, <2>4, <3>1, Zenon
  <2> QED BY <1>1, <1>4, <1>5, <1>9, <1>15, <2>3, <2>5, MeMoves DEF c, d, k
<1> QED BY <1>18, <1>19

\* Three pieces in a row.
LEMMA ThreePieces ==
    ASSUME NEW a \in Seq(Int), NEW b \in Seq(Int), NEW c \in Seq(Int)
    PROVE  a \o (b \o c) = (a \o b) \o c
BY SMTT(30)

\* Rule 3 when it is only told of a hangup, or writes to a socket that is shut.
LEMMA Rule3Ends ==
    ASSUME SocketInv, sock.pc = "serve", UNCHANGED <<opener, net, conn>>,
           3 = NextServed(sock.revents),
           \/ 3 \in sock.revents.hup /\ sock' = After(3, [sock EXCEPT !.rules = @ \ {3}])
           \/ sock.down_shut /\ Inbound.buffer_size > 0 /\ sock' = [sock EXCEPT !.pc = "terminated"]
    PROVE  SocketInv'
<1> DEFINE c == conn[Me]  k == sock'  in == c.receiver.reassembler.output
<1>1. SockTyped(sock) /\ Fit(sock, c)
  BY DEF SocketInv
<1>2. sock.owner # "new"
  BY ServedRule
<1>3. /\ sock.pc # "done" /\ Downward(sock, in) /\ Rounds(sock, c) /\ Threads(sock, c.sender)
      /\ Upward(sock, c.sender)
  BY <1>1 DEF Fit
<1>4. in.buffer_size \in Nat /\ in.error \in BOOLEAN
  <2>1. PICK total \in Lengths : Base(total)
    BY DEF SocketInv, Balanced
  <2>2. ReceiverFine(c.receiver, Me, total)
    BY <2>1, MeParts
  <2> QED BY <2>2, InboundNumbers, SocketConstants, Zenon
<1>5. Inbound = in
  BY DEF Inbound, stream_out
<1> HIDE DEF c, k, in
<1>6. CASE 3 \in sock.revents.hup /\ k = After(3, [sock EXCEPT !.rules = @ \ {3}])
  <2> DEFINE upd == [sock EXCEPT !.rules = @ \ {3}]
  <2>1. /\ DOMAIN upd = DOMAIN sock /\ upd.up = sock.up /\ upd.rules = sock.rules \ {3}
        /\ upd.eof = sock.eof /\ upd.outbound_shutdown = sock.outbound_shutdown
        /\ upd.pc = sock.pc /\ upd.kind = sock.kind
        /\ upd.revents = sock.revents /\ upd.inbound_shutdown = sock.inbound_shutdown
        /\ upd.wrote = sock.wrote /\ upd.owner = sock.owner
        /\ upd.up_shut = sock.up_shut /\ upd.down = sock.down /\ upd.down_shut = sock.down_shut
        /\ upd.got = sock.got /\ upd.saw_eof = sock.saw_eof /\ upd.abort = sock.abort
    BY <1>1 DEF SockTyped
  <2>2. k = After(3, upd)
    BY <1>6
  <2> HIDE DEF upd
  <2>3. SockTyped(upd)
    <3>1. upd.rules \subseteq 1 .. 4 /\ 1 \in upd.rules /\ 4 \in upd.rules
      BY <1>1, <2>1 DEF SockTyped
    <3> QED BY <1>1, <2>1, <3>1, Zenon DEF SockTyped
  <2>4. SockTyped(k) /\ AfterFrom(k, upd, 3)
    BY <1>1, <2>2, <2>3, AfterTyped, Zenon
  <2>5. Rounds(k, c)
    <3>1. Rounds(After(3, upd), c)
      <4>1. 3 # 1
        OBVIOUS
      <4> QED BY <1>1, <1>3, <2>1, <2>3, <4>1, AfterRounds, Zenon DEF c
    <3> QED BY <2>2, <3>1
  <2>6. sock.inbound_shutdown = TRUE
    <3>1. sock.down_shut = TRUE
      BY <1>3, <1>6 DEF Rounds
    <3> QED BY <1>3, <3>1, Zenon DEF Downward
  <2>7. Upward(k, c.sender)
    <3>1. Upward(upd, c.sender)
      BY <1>3, <2>1, Zenon DEF Upward
    <3> QED BY <2>4, <3>1, Zenon DEF Upward, AfterFrom
  <2>8. Downward(k, in)
    <3>1. Downward(upd, in)
      BY <1>3, <2>1, <2>6, Zenon DEF Downward
    <3>2. upd.inbound_shutdown = TRUE
      BY <2>1, <2>6
    <3> QED BY <2>4, <3>1, <3>2, Zenon DEF Downward, AfterFrom
  <2>9. Threads(k, c.sender) /\ Exits(k, c)
    BY <1>3, <2>1, <2>4, ServedThreads, Zenon
  <2>10. Fit(k, c)
    BY <2>5, <2>7, <2>8, <2>9 DEF Fit, in
  <2> QED BY <2>4, <2>10, SockStep DEF c, k
<1>7. CASE sock.down_shut /\ Inbound.buffer_size > 0 /\ k = [sock EXCEPT !.pc = "terminated"]
  <2>1. /\ DOMAIN k = DOMAIN sock /\ k.up = sock.up /\ k.rules = sock.rules
        /\ k.eof = sock.eof /\ k.outbound_shutdown = sock.outbound_shutdown
        /\ k.pc = "terminated" /\ k.kind = sock.kind
        /\ k.revents = sock.revents /\ k.inbound_shutdown = sock.inbound_shutdown
        /\ k.wrote = sock.wrote /\ k.owner = sock.owner
        /\ k.up_shut = sock.up_shut /\ k.down = sock.down /\ k.down_shut = sock.down_shut
        /\ k.got = sock.got /\ k.saw_eof = sock.saw_eof /\ k.abort = sock.abort
    BY <1>1, <1>7 DEF SockTyped
  <2>2. SockTyped(k)
    BY <1>1, <2>1, Zenon DEF SockTyped
  <2>3. sock.down_shut = TRUE
    BY <1>1, <1>7 DEF SockTyped
  <2>4. sock.inbound_shutdown = TRUE /\ NoMoreInbound(in)
    BY <1>3, <2>3, Zenon DEF Downward
  <2>5. in.error = TRUE
    BY <1>4, <1>5, <1>7, <2>4 DEF NoMoreInbound, eof
  <2>6. Upward(k, c.sender)
    BY <1>1, <2>1, Zenon DEF Fit, Upward
  <2>7. Downward(k, in)
    BY <1>3, <2>1, Zenon DEF Downward
  <2>8. Rounds(k, c) /\ Threads(k, c.sender)
    BY <1>2, <1>3, <2>1 DEF Rounds, Threads
  <2>9. Exits(k, c)
    BY <2>1, <2>4, <2>5 DEF Exits, in
  <2>10. Fit(k, c)
    BY <2>6, <2>7, <2>8, <2>9 DEF Fit, in
  <2> QED BY <2>2, <2>10, SockStep DEF c, k
<1> QED BY <1>6, <1>7 DEF k

\* Rule 3 writes len bytes of the inbound stream to the owner, and end says whether
\* its end too.
Delivers(len, end) ==
    /\ len = LesserOf(Inbound.buffer_size, sock.kind.cap - Len(sock.down))
    /\ end = NoMoreInbound(Drained(len))
    /\ sock' = After(3, [sock EXCEPT !.down = @ \o peek_output(Inbound, len),
                                     !.down_shut = @ \/ end, !.inbound_shutdown = @ \/ end])
    /\ Becomes([conn[Me] EXCEPT !.receiver.reassembler.output = Drained(len)])

\* Rule 3 when it is not told of a hangup and does not break.
LEMMA Rule3Writes ==
    ASSUME SocketInv, sock.pc = "serve", UNCHANGED <<opener, net>>,
           3 = NextServed(sock.revents), NEW len, NEW end, Delivers(len, end)
    PROVE  SocketInv'
<1> DEFINE c == conn[Me]  d == conn[Them]  k == sock'  in == c.receiver.reassembler.output
           e == [c EXCEPT !.receiver.reassembler.output = Drained(len)]
           upd == [sock EXCEPT !.down = @ \o peek_output(Inbound, len),
                               !.down_shut = @ \/ end, !.inbound_shutdown = @ \/ end]
           out == pop_output(in, len)
<1>1. /\ SockTyped(sock) /\ Rounds(sock, c) /\ Threads(sock, c.sender)
      /\ Upward(sock, c.sender) /\ Downward(sock, in) /\ opener' = {Me}
  BY Zenon DEF SocketInv, Fit
<1>2. PICK total \in Lengths : Balanced(total)
  BY DEF SocketInv
<1>3. Base(total) /\ total[Them] = StreamLen[Them]
      /\ (c.sender.stream.end_input = FALSE => total[Me] = StreamLen[Me])
  BY <1>2 DEF Balanced
<1>4. /\ Endpoint(c, d, Me, total) /\ Settled(c) /\ DOMAIN net = Peer
      /\ SenderFine(c.sender, Me, total) /\ ReceiverFine(c.receiver, Me, total)
  BY <1>3, MeParts, Zenon
<1>5. /\ in.bytes_read \in Nat /\ in.buffer_size \in Nat /\ in.end_input \in BOOLEAN
      /\ in.error \in BOOLEAN /\ InOrder(in, Capacity) /\ Capacity \in Nat
  BY <1>4, InboundNumbers, SocketConstants, PairConstants, Zenon
<1>6. /\ sock.down \in Seq(Int) /\ sock.got \in Seq(Int) /\ sock.kind \in LocalSockets
      /\ sock.kind.cap \in Nat /\ Len(sock.down) <= sock.kind.cap
      /\ sock.down_shut \in BOOLEAN /\ sock.inbound_shutdown \in BOOLEAN
  BY <1>1, SocketConstants DEF SockTyped
<1>7. Inbound = in /\ Drained(len) = out
  BY DEF Inbound, stream_out, Drained
<1>taken. /\ len = LesserOf(in.buffer_size, sock.kind.cap - Len(sock.down))
      /\ end = NoMoreInbound(out)
  BY <1>7, Zenon DEF Delivers
<1>8. len \in Nat /\ len <= in.buffer_size /\ Len(sock.down) + len <= sock.kind.cap
  <2> DEFINE n == in.buffer_size  m == Len(sock.down)  cap == sock.kind.cap
  <2>1. n \in Nat /\ m \in Nat /\ cap \in Nat /\ m <= cap /\ len = LesserOf(n, cap - m)
    <3>1. n \in Nat /\ m \in Nat /\ cap \in Nat /\ m <= cap
      BY <1>5, <1>6
    <3> QED BY <1>taken, <3>1, Zenon
  <2> HIDE DEF n, m, cap
  <2>2. len \in Nat /\ len <= n /\ m + len <= cap
    BY <2>1 DEF LesserOf
  <2> QED BY <2>2 DEF n, m, cap
<1>9. /\ out.bytes_read = in.bytes_read + len /\ out.buffer_size = in.buffer_size - len
      /\ out.end_input = in.end_input /\ out.error = in.error
  <2>1. len \in 0 .. in.buffer_size
    BY <1>5, <1>8
  <2> QED BY <1>5, <2>1, PopInOrder, ZenonT(60)
<1>10. e = [c EXCEPT !.receiver.reassembler.output = pop_output(@, len)]
  BY <1>7
<1>11. Becomes(e) /\ k = After(3, upd)
  BY Zenon DEF Delivers
<1> HIDE DEF d, k, out
<1>12. Advance(c, e, d, Me, total) /\ Settled(e)
  <2> HIDE DEF c, in, e
  <2> QED BY <1>4, <1>8, <1>10, ReadAdvance, SocketConstants DEF in
<1>13. e.sender = c.sender /\ e.receiver.reassembler.output = out
  <2>1. /\ Members(c) /\ DOMAIN c.receiver = {"reassembler", "capacity", "syn", "isn"}
        /\ "output" \in DOMAIN c.receiver.reassembler
    <3>1. /\ Members(c) /\ DOMAIN c.receiver = {"reassembler", "capacity", "syn", "isn"}
          /\ Sound(c.receiver.reassembler, Capacity, total[Them])
      BY <1>4, SocketConstants, Zenon DEF Endpoint, ReceiverFine, ReceiverSound
    <3>2. DOMAIN c.receiver.reassembler = {"output", "capacity", "unassemble_buffer", "next_pos",
                                           "unassembled_bytes", "eof_index", "eof_appear_sign"}
      BY <3>1, Zenon DEF Sound, Tidy
    <3> QED BY <3>1, <3>2
  <2> HIDE DEF c, in, out
  <2>2. e.sender = c.sender /\ e.receiver = [c.receiver EXCEPT !.reassembler.output = out]
    BY <1>7, <2>1 DEF Members
  <2>3. e.receiver.reassembler = [c.receiver.reassembler EXCEPT !.output = out]
    BY <2>1, <2>2
  <2>4. e.receiver.reassembler.output = out
    BY <2>1, <2>3
  <2> QED BY <2>2, <2>4
<1> DEFINE piece == peek_output(in, len)
<1>14. piece = Bytes(in.bytes_read, len)
  <2>1. len \in 0 .. in.buffer_size
    BY <1>5, <1>8
  <2> HIDE DEF in
  <2> QED BY <1>5, <2>1, PeekInOrder, ZenonT(60)
<1>15. /\ piece \in Seq(Int) /\ Len(piece) = len
       /\ Bytes(0, in.bytes_read) \o piece = Bytes(0, out.bytes_read)
  <2>1. in.bytes_read \in Int /\ 0 \in Int
    BY <1>5
  <2>2. piece \in Seq(Int) /\ Len(piece) = len
    <3> HIDE DEF in, piece
    <3> QED BY <1>8, <1>14, <2>1, BytesProperties, Zenon
  <2>3. Bytes(0, in.bytes_read) \o Bytes(0 + in.bytes_read, len) = Bytes(0, in.bytes_read + len)
    <3> HIDE DEF in
    <3> QED BY <1>5, <1>8, <2>1, BytesConcat, Zenon
  <2>4. 0 + in.bytes_read = in.bytes_read
    BY <1>5
  <2> QED BY <1>9, <1>14, <2>2, <2>3, <2>4
<1>16. end \in BOOLEAN /\ (end = TRUE <=> NoMoreInbound(out))
  <2>1. NoMoreInbound(out) \in BOOLEAN
    BY <1>5, <1>9 DEF NoMoreInbound, eof
  <2> QED BY <1>taken, <2>1
<1>17. NoMoreInbound(in) => NoMoreInbound(out)
  BY <1>5, <1>8, <1>9 DEF NoMoreInbound, eof
<1>18. eof(in) => eof(out) /\ len = 0
  BY <1>5, <1>8, <1>9 DEF eof
<1> HIDE DEF c, in, piece
<1>19. /\ DOMAIN upd = DOMAIN sock /\ upd.down = sock.down \o piece
       /\ upd.down_shut = (sock.down_shut \/ end)
       /\ upd.inbound_shutdown = (sock.inbound_shutdown \/ end)
       /\ upd.up = sock.up /\ upd.rules = sock.rules
       /\ upd.eof = sock.eof /\ upd.outbound_shutdown = sock.outbound_shutdown
       /\ upd.pc = sock.pc /\ upd.kind = sock.kind /\ upd.revents = sock.revents
       /\ upd.wrote = sock.wrote /\ upd.owner = sock.owner /\ upd.up_shut = sock.up_shut
       /\ upd.got = sock.got /\ upd.saw_eof = sock.saw_eof /\ upd.abort = sock.abort
  BY <1>1, <1>7 DEF SockTyped, piece
<1> HIDE DEF upd, e
<1>20. /\ upd.down_shut \in BOOLEAN /\ upd.inbound_shutdown \in BOOLEAN
       /\ (upd.down_shut = TRUE <=> sock.down_shut = TRUE \/ end = TRUE)
       /\ (upd.inbound_shutdown = TRUE <=> sock.inbound_shutdown = TRUE \/ end = TRUE)
  BY <1>6, <1>16, <1>19
<1>21. SockTyped(upd)
  <2>1. upd.down \in Seq(Int) /\ Len(upd.down) <= upd.kind.cap
    <3>1. upd.down \in Seq(Int) /\ Len(upd.down) = Len(sock.down) + len
      BY <1>6, <1>15, <1>19, ConcatIntegers, ZenonT(60)
    <3> QED BY <1>8, <1>19, <3>1
  <2> QED BY <1>1, <1>19, <1>20, <2>1, Zenon DEF SockTyped
<1>22. SockTyped(k) /\ AfterFrom(k, upd, 3)
  BY <1>1, <1>11, <1>21, AfterTyped, Zenon
<1>23. Rounds(k, e)
  <2>1. Rounds(After(3, upd), e)
    <3>1. 3 # 1
      OBVIOUS
    <3>2. sock.down_shut = TRUE => upd.down_shut = TRUE
      BY <1>20
    <3> QED BY <1>1, <1>21, <3>1, <3>2, AfterRounds, Zenon DEF c
  <2> QED BY <1>11, <2>1
<1>24. Downward(upd, out)
  <2>1. upd.got \o upd.down = Bytes(0, out.bytes_read)
    <3>1. sock.got \o (sock.down \o piece) = (sock.got \o sock.down) \o piece
      BY <1>6, <1>15, ThreePieces
    <3>2. sock.got \o sock.down = Bytes(0, in.bytes_read)
      BY <1>1, Zenon DEF Downward
    <3> QED BY <1>15, <1>19, <3>1, <3>2, Zenon
  <2>2. sock.down_shut = TRUE => sock.inbound_shutdown = TRUE
    <3>1. sock.pc # "done"
      OBVIOUS
    <3> QED BY <1>1, <3>1, Zenon DEF Downward
  <2>3. sock.inbound_shutdown = TRUE => NoMoreInbound(in)
    BY <1>1, Zenon DEF Downward
  <2>4. upd.saw_eof = TRUE =>
            upd.down_shut = TRUE /\ (out.error = TRUE \/ (eof(out) /\ upd.down = <<>>))
    <3>1. sock.saw_eof = TRUE =>
            sock.down_shut = TRUE /\ (in.error = TRUE \/ (eof(in) /\ sock.down = <<>>))
      BY <1>1, Zenon DEF Downward
    <3>2. eof(in) /\ sock.down = <<>> => eof(out) /\ upd.down = <<>>
      BY <1>15, <1>18, <1>19
    <3>3. in.error = TRUE => out.error = TRUE
      BY <1>9
    <3>4. sock.down_shut = TRUE => upd.down_shut = TRUE
      BY <1>20
    <3>5. upd.saw_eof = sock.saw_eof
      BY <1>19
    <3> QED BY <3>1, <3>2, <3>3, <3>4, <3>5, Zenon
  <2>5. 3 \notin sock.rules => sock.inbound_shutdown = TRUE
    BY <1>1, Zenon DEF Downward
  <2> QED BY <1>16, <1>17, <1>19, <1>20, <2>1, <2>2, <2>3, <2>4, <2>5, Zenon DEF Downward
<1>25. Upward(k, e.sender) /\ Downward(k, e.receiver.reassembler.output)
  <2>1. k.pc # "done" /\ upd.pc # "done"
    BY <1>19, <1>22 DEF AfterFrom
  <2>2. Upward(k, c.sender)
    <3>1. Upward(upd, c.sender)
      BY <1>1, <1>19, Zenon DEF Upward
    <3> QED BY <1>22, <3>1, Zenon DEF Upward, AfterFrom
  <2>3. Downward(k, out)
    BY <1>22, <1>24, <2>1, Zenon DEF Downward, AfterFrom
  <2> QED BY <1>13, <2>2, <2>3, Zenon
<1>26. Threads(k, e.sender) /\ Exits(k, e)
  <2>1. c.sender.next_seqno > 0 => e.sender.next_seqno > 0
    BY <1>13
  <2> QED BY <1>1, <1>19, <1>22, <2>1, ServedThreads, Zenon
<1>27. Fit(k, e)
  BY <1>23, <1>25, <1>26 DEF Fit
<1>28. e.sender.stream.end_input = FALSE => total[Me] = StreamLen[Me]
  BY <1>3, <1>13
<1> QED BY <1>1, <1>3, <1>4, <1>11, <1>12, <1>22, <1>27, <1>28, MeMoves DEF c, d, k

\* Rule 3
LEMMA Rule3Step ==
    ASSUME SocketInv, sock.pc = "serve", UNCHANGED opener,
           3 = NextServed(sock.revents), Rule3
    PROVE  SocketInv'
<1> DEFINE len    == LesserOf(Inbound.buffer_size, sock.kind.cap - Len(sock.down))
           end    == NoMoreInbound(Drained(len))
           hangup == 3 \in sock.revents.hup
           broken == ~hangup /\ sock.down_shut /\ Inbound.buffer_size > 0
           cut    == After(3, [sock EXCEPT !.rules = @ \ {3}])
           burst  == [sock EXCEPT !.pc = "terminated"]
           wrote  == After(3, [sock EXCEPT !.down = @ \o peek_output(Inbound, len),
                                           !.down_shut = @ \/ end, !.inbound_shutdown = @ \/ end])
           e == [conn[Me] EXCEPT !.receiver.reassembler.output = Drained(len)]
<1>1. /\ net' = net /\ opener' = opener
      /\ sock' = (IF hangup THEN cut ELSE IF broken THEN burst ELSE wrote)
      /\ IF hangup \/ broken THEN conn' = conn ELSE Becomes(e)
  BY Zenon DEF Rule3
<1>2. CASE hangup
  <2>1. sock' = cut /\ conn' = conn
    BY <1>1, <1>2, Zenon
  <2> QED BY <1>1, <1>2, <2>1, Rule3Ends
<1>3. CASE broken
  <2>1. sock' = burst /\ conn' = conn
    BY <1>1, <1>3, Zenon
  <2> QED BY <1>1, <1>3, <2>1, Rule3Ends
<1>4. CASE ~hangup /\ ~broken
  <2>1. sock' = wrote /\ Becomes(e)
    BY <1>1, <1>4, Zenon
  <2>2. PICK n : n = len
    OBVIOUS
  <2>3. PICK z : z = end
    OBVIOUS
  <2>4. Delivers(n, z)
    BY <2>1, <2>2, <2>3 DEF Delivers
  <2>5. UNCHANGED <<opener, net>>
    BY <1>1
  <2> QED BY <2>4, <2>5, Rule3Writes, Zenon
<1> QED BY <1>2, <1>3, <1>4

\* Rule 4
LEMMA Rule4Step ==
    ASSUME SocketInv, sock.pc = "serve", UNCHANGED opener,
           4 = NextServed(sock.revents), Rule4
    PROVE  SocketInv'
<1> DEFINE c == conn[Me]  d == conn[Them]  k == sock'  f == [c EXCEPT !.segments_out = <<>>]
<1>1. /\ net' = [net EXCEPT ![Them] = IF d.active THEN @ \cup Range(c.segments_out) ELSE {}]
      /\ Becomes(f) /\ k = After(4, sock)
  BY DEF Rule4
<1>2. /\ SockTyped(sock) /\ Rounds(sock, c) /\ Threads(sock, c.sender)
      /\ Upward(sock, c.sender) /\ Downward(sock, c.receiver.reassembler.output)
      /\ opener' = {Me}
  BY Zenon DEF SocketInv, Fit
<1>3. PICK total \in Lengths : Balanced(total)
  BY DEF SocketInv
<1>4. Base(total) /\ total[Them] = StreamLen[Them]
      /\ (c.sender.stream.end_input = FALSE => total[Me] = StreamLen[Me])
  BY <1>3 DEF Balanced
<1>5. /\ Endpoint(c, d, Me, total) /\ Settled(c) /\ DOMAIN net = Peer
      /\ Advance(c, c, d, Me, total)
  BY <1>4, MeParts, Zenon
<1>6. Members(c)
  BY <1>5, Zenon DEF Endpoint
<1> HIDE DEF c, d, k
<1>7. /\ Members(f) /\ f.sender = c.sender /\ f.receiver = c.receiver
      /\ f.segments_out \in {<<>>, c.segments_out} /\ SameRest(c, f)
  BY <1>6 DEF Members, SameRest
<1> HIDE DEF f
<1>8. SockTyped(k) /\ AfterFrom(k, sock, 4)
  BY <1>1, <1>2, AfterTyped, Zenon
<1>9. Rounds(k, f)
  <2>1. Rounds(After(4, sock), f)
    <3>1. 4 # 1
      OBVIOUS
    <3> QED BY <1>2, <3>1, AfterRounds, Zenon DEF c
  <2> QED BY <1>1, <2>1
<1>10. Upward(k, f.sender) /\ Downward(k, f.receiver.reassembler.output)
  <2>1. sock.pc # "done"
    OBVIOUS
  <2>2. Upward(k, c.sender)
    BY <1>2, <1>8, Zenon DEF Upward, AfterFrom
  <2>3. Downward(k, c.receiver.reassembler.output)
    BY <1>2, <1>8, <2>1, Zenon DEF Downward, AfterFrom
  <2> QED BY <1>7, <2>2, <2>3
<1>11. Threads(k, f.sender) /\ Exits(k, f)
  <2>1. c.sender.next_seqno > 0 => f.sender.next_seqno > 0
    BY <1>7
  <2> QED BY <1>2, <1>8, <2>1, ServedThreads, Zenon
<1>12. Fit(k, f)
  BY <1>9, <1>10, <1>11 DEF Fit
<1>13. /\ DOMAIN net' = Peer /\ net'[Me] \subseteq net[Me]
       /\ \A seg \in net'[Them] : seg \in net[Them] \/ seg \in Range(c.segments_out)
  BY <1>1, <1>5, SocketConstants
<1> QED BY <1>1, <1>2, <1>4, <1>5, <1>7, <1>8, <1>12, <1>13, MeStep DEF c, d, k

\* A step of the event loop.
LEMMA ServeStep ==
    ASSUME SocketInv, Serve
    PROVE  SocketInv'
<1>1. sock.pc = "serve" /\ opener' = opener
  BY DEF Serve
<1>2. \/ 1 = NextServed(sock.revents) /\ Rule1
      \/ 2 = NextServed(sock.revents) /\ Rule2
      \/ 3 = NextServed(sock.revents) /\ Rule3
      \/ 4 = NextServed(sock.revents) /\ Rule4
  BY Zenon DEF Serve
<1> QED BY <1>1, <1>2, Rule1Step, Rule2Step, Rule3Step, Rule4Step, Zenon

\* The other endpoint aborts the connection.
LEMMA PeerResetsBase ==
    ASSUME NEW total \in Lengths, Base(total), PeerResets
    PROVE  Base(total)' /\ conn'[Me] = conn[Me] /\ opener' = opener
<1> DEFINE c == conn[Them]  e == send_rst_segment(passive_close(c))
           f == [e EXCEPT !.segments_out = <<>>]
<1>1. /\ c.active /\ Connected(Them) /\ conn' = [conn EXCEPT ![Them] = f] /\ opener' = opener
      /\ net' = [net EXCEPT ![Me] = IF conn[Me].active THEN @ \cup Range(e.segments_out) ELSE @,
                            ![Them] = {}]
  BY Zenon DEF PeerResets
<1>2. /\ Endpoint(c, conn[Me], Them, total) /\ SenderFine(c.sender, Them, total)
      /\ DOMAIN conn = Peer /\ DOMAIN net = Peer
  BY MeParts, Zenon
<1>3. Alive(c)
  BY <1>1, ServedAlive, SocketConstants
<1>4. c.sender.next_seqno > 0
  <2>1. state(c) # Official.LISTEN
    BY <1>1, Zenon DEF Connected
  <2>2. c.sender.next_seqno # 0
    BY <1>2, <1>3, <2>1, ListenState, SocketConstants, Zenon
  <2>3. c.sender.next_seqno \in Nat
    BY <1>2, SenderNumbers, SocketConstants, Zenon
  <2> QED BY <2>2, <2>3
<1> HIDE DEF c
<1>5. Advance(c, e, conn[Me], Them, total) /\ Settled(e)
  BY <1>2, <1>4, CloseRst, SocketConstants
<1> HIDE DEF e
<1>6. Members(e)
  BY <1>5, Zenon DEF Advance, Endpoint
<1>7. /\ Members(f) /\ f.sender = e.sender /\ f.receiver = e.receiver
      /\ f.segments_out \in {<<>>, e.segments_out} /\ SameRest(e, f)
  BY <1>6 DEF Members, SameRest
<1> HIDE DEF f
<1>8. /\ DOMAIN net' = Peer /\ net'[Them] \subseteq net[Them]
      /\ \A seg \in net'[Me] : seg \in net[Me] \/ seg \in Range(e.segments_out)
  BY <1>1, <1>2, SocketConstants
<1>9. conn'[Me] = conn[Me]
  BY <1>1, <1>2, SocketConstants
<1>10. Base(total)'
  BY <1>1, <1>5, <1>7, <1>8, SocketConstants, InvStep DEF c
<1> QED BY <1>1, <1>9, <1>10

\* The other endpoint does what it does in TCPPair.
LEMMA PeerMovesBase ==
    ASSUME NEW total \in Lengths, Base(total), total[Them] = StreamLen[Them],
           PeerReceives \/ PeerWrites \/ EndInput(Them) \/ PeerTicks
    PROVE  Base(total)' /\ conn'[Me] = conn[Me] /\ opener' = opener
<1>1. DOMAIN conn = Peer
  BY DEF Base
<1>2. ASSUME NEW c, NEW under_way, NEW fault, Transmit(Them, c, under_way, fault)
      PROVE  conn'[Me] = conn[Me] /\ opener' = opener
  <2>1. conn' = [conn EXCEPT ![Them] = [c EXCEPT !.segments_out = <<>>]] /\ opener' = opener
    BY <1>2, Zenon DEF Transmit
  <2> QED BY <1>1, <2>1, SocketConstants
<1>3. CASE PeerReceives
  <2>1. PICK seg \in net[Them] : Receive(Them, seg, FALSE)
    BY <1>3, Zenon DEF PeerReceives
  <2>2. Base(total)'
    <3>1. FALSE \in BOOLEAN
      OBVIOUS
    <3> QED BY <2>1, <3>1, ReceiveInv, SocketConstants, Zenon
  <2>3. Transmit(Them, Taken(Them, seg), [net EXCEPT ![Them] = @ \ {seg}], 0)
    BY <2>1 DEF Receive, Taken
  <2>4. conn'[Me] = conn[Me] /\ opener' = opener
    BY <1>2, <2>3, Zenon
  <2> QED BY <2>2, <2>4
<1>4. CASE PeerWrites
  <2> DEFINE len == StreamLen[Them]
  <2>1. Write(Them, len) /\ len \in Nat
    BY <1>4, SocketConstants, Zenon DEF PeerWrites
  <2>2. Base(total)'
    BY <2>1, WriteInv, SocketConstants, Zenon
  <2>3. Transmit(Them, connection_write(conn[Them],
                        Bytes(conn[Them].sender.stream.bytes_written, len)), net, 0)
    BY <2>1, Zenon DEF Write
  <2>4. conn'[Me] = conn[Me] /\ opener' = opener
    BY <1>2, <2>3, Zenon
  <2> QED BY <2>2, <2>4
<1>5. CASE EndInput(Them)
  <2>1. Base(total)'
    BY <1>5, EndInputInv, SocketConstants, Zenon
  <2>2. Transmit(Them, end_input_stream(conn[Them]), net, 0)
    BY <1>5, Zenon DEF EndInput
  <2>3. conn'[Me] = conn[Me] /\ opener' = opener
    BY <1>2, <2>2, Zenon
  <2> QED BY <2>1, <2>3
<1>6. CASE PeerTicks
  <2>1. Tick(Them)
    BY <1>6, Zenon DEF PeerTicks
  <2>2. Base(total)'
    BY <2>1, TickInv, SocketConstants, Zenon
  <2>3. Transmit(Them, tick(conn[Them], 1), net, IF \A q \in Peer : net[q] = {} THEN 0 ELSE 1)
    BY <2>1, Zenon DEF Tick
  <2>4. conn'[Me] = conn[Me] /\ opener' = opener
    BY <1>2, <2>3, Zenon
  <2> QED BY <2>2, <2>4
<1> QED BY <1>3, <1>4, <1>5, <1>6

\* A step of the other endpoint.
LEMMA PeerActsStep ==
    ASSUME SocketInv, PeerActs
    PROVE  SocketInv'
<1>1. PICK total \in Lengths : Balanced(total)
  BY DEF SocketInv
<1>2. Base(total) /\ total[Them] = StreamLen[Them] /\ sock' = sock
      /\ (PeerResets \/ PeerReceives \/ PeerWrites \/ EndInput(Them) \/ PeerTicks)
  BY <1>1, Zenon DEF Balanced, PeerActs
<1>3. Base(total)' /\ conn'[Me] = conn[Me] /\ opener' = opener
  BY <1>2, PeerResetsBase, PeerMovesBase, Zenon
<1>4. Balanced(total)'
  BY <1>1, <1>3 DEF Balanced
<1>5. SockTyped(sock') /\ Fit(sock', conn'[Me]) /\ opener' = {Me}
  BY <1>2, <1>3, Zenon DEF SocketInv
<1> QED BY <1>4, <1>5 DEF SocketInv

\* Every step keeps the invariant.
LEMMA SocketNextStep ==
    ASSUME SocketInv, [SocketNext]_svars
    PROVE  SocketInv'
<1>1. CASE WaitNextEvent
  BY <1>1, WaitNextEventStep
<1>2. CASE ConnectReturns
  BY <1>2, ConnectReturnsStep
<1>3. CASE Serve
  BY <1>3, ServeStep
<1>4. CASE LoopTick
  BY <1>4, LoopTickStep
<1>5. CASE OwnerMoves
  <2>1. UNCHANGED <<opener, net>>
    BY <1>5 DEF OwnerMoves
  <2>2. \/ SocketConnect \/ OwnerWrites \/ OwnerShutsDown \/ OwnerReads
        \/ wait_until_closed \/ Join
    BY <1>5, Zenon DEF OwnerMoves
  <2> QED BY <2>1, <2>2, SocketConnectStep, OwnerWritesStep, OwnerShutsDownStep, OwnerReadsStep,
             WaitStep, LeaveStep, Zenon
<1>6. CASE OwnerDestroys
  <2>1. Destroy /\ UNCHANGED <<opener, net>>
    BY <1>6 DEF OwnerDestroys
  <2> QED BY <2>1, LeaveStep, Zenon
<1>7. CASE PeerActs
  BY <1>7, PeerActsStep
<1>8. CASE UNCHANGED svars
  <2>1. UNCHANGED <<opener, conn, net>> /\ sock' = sock
    BY <1>8 DEF svars
  <2>2. SockTyped(sock') /\ Fit(sock', conn[Me])
    BY <2>1, Zenon DEF SocketInv
  <2> QED BY <2>1, <2>2, SockStep
<1> QED BY <1>1, <1>2, <1>3, <1>4, <1>5, <1>6, <1>7, <1>8, Zenon DEF SocketNext

-----------------------------------------------------------------------------

\* The invariant of the socket holds of every behaviour: for all streams, all
\* sizes of the streams and of the local sockets, and whenever the owner, the
\* thread or the other endpoint act.
THEOREM SocketInvariant == SocketSpec => []SocketInv
<1>1. SocketInit => SocketInv
  BY SocketStart
<1>2. SocketInv /\ [SocketNext]_svars => SocketInv'
  BY SocketNextStep
<1> QED BY <1>1, <1>2, PTL DEF SocketSpec

\* No exception leaves the thread of the connection, except in the one case of a
\* RST behind more bytes than the local socket took.
THEOREM RunnerAlwaysSurvives == SocketSpec => []RunnerSurvives
<1>1. SocketInv => RunnerSurvives
  <2> SUFFICES ASSUME SocketInv, sock.pc = "terminated"
               PROVE  Inbound.error /\ sock.inbound_shutdown
    BY DEF RunnerSurvives
  <2>1. Exits(sock, conn[Me])
    BY Zenon DEF SocketInv, Fit
  <2> QED BY <2>1 DEF Exits, Inbound, stream_out
<1> QED BY <1>1, SocketInvariant, PTL

\* What the owner of a socket reads is the stream of the other endpoint, all of it
\* when it reads the end of its input and the connection did not fail.
THEOREM OwnerAlwaysSeesStream == SocketSpec => []OwnerSeesStream
<1>1. SocketInv => OwnerSeesStream
  <2> SUFFICES ASSUME SocketInv PROVE OwnerSeesStream
    OBVIOUS
  <2> DEFINE in == conn[Me].receiver.reassembler.output  a == in.bytes_read  b == in.buffer_size
  <2>1. Downward(sock, in) /\ sock.got \in Seq(Int) /\ sock.saw_eof \in BOOLEAN
    BY Zenon DEF SocketInv, Fit, SockTyped
  <2>2. PICK total \in Lengths : Base(total) /\ total[Them] = StreamLen[Them]
    BY Zenon DEF SocketInv, Balanced
  <2>3. ReceiverFine(conn[Me].receiver, Me, total)
    BY <2>2, MeParts
  <2>4. /\ a \in Nat /\ b \in Nat /\ in.bytes_written = a + b /\ in.buffer = Bytes(a, b)
        /\ in.end_input \in BOOLEAN /\ in.error \in BOOLEAN
        /\ (in.end_input = TRUE => in.bytes_written = StreamLen[Them])
    <3>1. /\ a \in Nat /\ b \in Nat /\ in.bytes_written = a + b /\ in.buffer = Bytes(a, b)
          /\ in.end_input \in BOOLEAN /\ in.error \in BOOLEAN
      BY <2>3, InboundNumbers, SocketConstants, Zenon
    <3>2. in.end_input = TRUE => in.bytes_written = total[Other(Me)]
      BY <2>3, InboundEnded, SocketConstants, Zenon
    <3>3. total[Other(Me)] = StreamLen[Them]
      BY <2>2, SocketConstants, Zenon
    <3> QED BY <3>1, <3>2, <3>3, Zenon
  <2>5. Inbound = in
    BY DEF Inbound, stream_out
  <2> HIDE DEF in
  <2>6. sock.got \o sock.down \o in.buffer = Bytes(0, in.bytes_written)
    <3>1. sock.got \o sock.down = Bytes(0, a)
      BY <2>1, Zenon DEF Downward
    <3> HIDE DEF a, b
    <3>2. 0 \in Int /\ a \in Nat /\ b \in Nat
      BY <2>4
    <3>3. Bytes(0, a) \o Bytes(0 + a, b) = Bytes(0, a + b)
      BY <3>2, BytesConcat
    <3>4. 0 + a = a
      BY <3>2
    <3>5. sock.got \o sock.down \o in.buffer = Bytes(0, a) \o Bytes(a, b)
      BY <2>4, <3>1, Zenon
    <3>6. Bytes(0, a) \o Bytes(a, b) = Bytes(0, in.bytes_written)
      BY <2>4, <3>3, <3>4, Zenon
    <3> QED BY <3>5, <3>6, Zenon
  <2>7. ASSUME sock.saw_eof = TRUE PROVE sock.got = Bytes(0, StreamLen[Them]) \/ in.error
    <3>1. in.error = TRUE \/ (eof(in) /\ sock.down = <<>>)
      BY <2>1, <2>7, Zenon DEF Downward
    <3>2. ASSUME eof(in), sock.down = <<>> PROVE sock.got = Bytes(0, StreamLen[Them])
      <4>1. a = StreamLen[Them]
        BY <2>4, <3>2 DEF eof
      <4>2. sock.got = sock.got \o <<>>
        BY <2>1
      <4>3. sock.got \o sock.down = Bytes(0, a)
        BY <2>1, Zenon DEF Downward
      <4> QED BY <3>2, <4>1, <4>2, <4>3, Zenon
    <3> QED BY <3>1, <3>2
  <2> QED BY <2>1, <2>5, <2>6, <2>7 DEF OwnerSeesStream
<1> QED BY <1>1, SocketInvariant, PTL

\* When the event loop runs out of rules to poll, and neither an error nor the
\* destructor ended the connection, nothing is left behind and the other endpoint
\* has everything the owner wrote.
THEOREM ExitAlwaysLeavesNothing == SocketSpec => []ExitLeavesNothing
<1>1. SocketInv => ExitLeavesNothing
  <2> DEFINE c == conn[Me]  s == c.sender  in == c.receiver.reassembler.output
             w == s.stream.bytes_written
  <2> SUFFICES ASSUME SocketInv, sock.pc = "done", ~sock.abort, ~s.stream.error
               PROVE  /\ c.segments_out = <<>> /\ ~c.active
                      /\ sock.up = <<>> /\ Inbound.buffer = <<>>
                      /\ Reached(conn[Them]) = sock.wrote + 2
    BY DEF ExitLeavesNothing
  <2>1. /\ Exits(sock, c) /\ Upward(sock, s) /\ sock.abort \in BOOLEAN
    BY Zenon DEF SocketInv, Fit, SockTyped
  <2>2. PICK total \in Lengths : Base(total)
    BY Zenon DEF SocketInv, Balanced
  <2>3. /\ Settled(c) /\ SenderFine(s, Me, total) /\ ReceiverFine(c.receiver, Me, total)
    BY <2>2, MeParts
  <2>4. c.active = FALSE /\ c.segments_out = <<>> /\ NoMoreInbound(in)
    BY <2>1 DEF Exits
  <2>5. Over(c) /\ Outbound(s) /\ in.error # TRUE
    <3>1. Over(c)
      BY <2>3, <2>4 DEF Settled, Alive, Working
    <3> QED BY <3>1 DEF Over
  <2>6. s.stream.end_input = TRUE /\ s.next_seqno = w + 2 /\ s.bytes_in_flight = 0
    BY <2>5, Zenon DEF Outbound
  <2>7. w = total[Me] /\ s.abs_ackno = s.next_seqno /\ w \in Nat
    <3>1. w = total[Me]
      BY <2>3, <2>6, Zenon DEF SenderFine
    <3>2. s.bytes_in_flight = 0 => s.abs_ackno = s.next_seqno
      BY <2>3, FlightCounts, SocketConstants, Zenon
    <3>3. w \in Nat
      BY <2>3, SenderNumbers, SocketConstants, Zenon
    <3> QED BY <2>6, <3>1, <3>2, <3>3, Zenon
  <2>8. sock.up = <<>> /\ sock.wrote = w
    <3>1. sock.up = <<>> /\ sock.wrote = w + Len(sock.up)
      BY <2>1, <2>6, Zenon DEF Upward
    <3>2. Len(sock.up) = 0
      BY <3>1
    <3> HIDE DEF w
    <3> QED BY <2>7, <3>1, <3>2
  <2>9. Reached(conn[Them]) = w + 2
    <3>1. s.abs_ackno = total[Me] + 2
      BY <2>6, <2>7, Zenon
    <3>2. Got(conn[Them].receiver) = total[Me] + 2
      BY <2>2, <3>1, AckedWasReceived, SocketConstants
    <3> QED BY <2>2, <2>7, <3>2, ReachedGot, SocketConstants, Zenon
  <2>10. in.buffer = <<>>
    <3>1. /\ in.bytes_read \in Nat /\ in.buffer_size \in Nat /\ in.error \in BOOLEAN
          /\ in.buffer = Bytes(in.bytes_read, in.buffer_size)
      BY <2>3, InboundNumbers, SocketConstants, Zenon
    <3>2. in.buffer_size = 0
      BY <2>4, <2>5, <3>1 DEF NoMoreInbound, eof
    <3>3. Bytes(in.bytes_read, 0) = <<>>
      BY <3>1 DEF Bytes
    <3> QED BY <3>1, <3>2, <3>3, Zenon
  <2>11. Inbound = in
    BY DEF Inbound, stream_out
  <2> QED BY <2>4, <2>8, <2>9, <2>10, <2>11
<1> QED BY <1>1, SocketInvariant, PTL

=============================================================================
