-------------------------- MODULE TCPReceiverProofs --------------------------
(***************************************************************************)
(* For every stream, capacity, width of the sequence numbers and initial   *)
(* sequence number: the receiver delivers the peer's bytes in order,       *)
(* acknowledges the first one missing, and honours the window it told.     *)
(***************************************************************************)
EXTENDS TCPReceiverSys, TCPLemmas

\* One past the last sequence number the peer may send: the window, and one byte
\* more when the window is closed.
Edge(a) == GreaterOf(a.ackno + a.win, a.ackno + 1)

\* The receiver: a sound reassembler and, after the SYN, the peer's isn.
ReceiverOK ==
    /\ DOMAIN rcv = {"reassembler", "capacity", "syn", "isn"}
    /\ Sound(rcv.reassembler, Capacity, StreamLen)
    /\ rcv.syn \in BOOLEAN
    /\ rcv.syn = TRUE => rcv.isn = PeerISN

\* What was advertised: no ackno beyond the first byte missing, no window beyond
\* what fits, and nothing before the SYN.
AdvertisedOK ==
    LET out == rcv.reassembler.output
    IN  /\ advertised.ackno \in Nat /\ advertised.win \in 0 .. Capacity
        /\ rcv.syn = FALSE => advertised.ackno = 0 /\ advertised.win = 0
        /\ advertised.ackno <= FirstMissing(out)
        /\ RightEdge(advertised) <= FirstMissing(out) + Capacity - out.buffer_size

\* Every byte that has arrived lies before the edge the peer was told: this keeps
\* the last advertised ackno, which a keep-alive repeats, within half the sequence
\* space of the receiver's own checkpoint.
ArrivedBeforeEdge == \A i \in Accepted(rcv.reassembler) : i + 1 < Edge(advertised)

\* A receiver without room takes nothing.
NothingWithoutRoom ==
    Capacity = 0 => Accepted(rcv.reassembler) = {} /\ rcv.reassembler.output.bytes_read = 0

\* The inductive invariant.
IInv == ReceiverOK /\ AdvertisedOK /\ ArrivedBeforeEdge /\ NothingWithoutRoom

-----------------------------------------------------------------------------

\* The assumptions on the constants, unfolded.
LEMMA Constants ==
    /\ StreamLen \in Nat /\ Capacity \in Nat /\ PeerISN \in SeqNo
    /\ SizeSpace \in Nat /\ StreamLen + 2 < SizeSpace
    /\ HalfRange \in Nat /\ HalfRange > 0 /\ Capacity + 1 < HalfRange
BY ReceiverAssumption, SizeSpaceAssumption, HalfRangeAssumption

\* The counters of a sound reassembler.
LEMMA Counts ==
    ASSUME NEW r, Sound(r, Capacity, StreamLen)
    PROVE  /\ r.output.bytes_read \in Nat /\ r.output.buffer_size \in 0 .. Capacity
           /\ r.output.bytes_written \in 0 .. StreamLen
           /\ r.output.bytes_written = r.output.bytes_read + r.output.buffer_size
           /\ r.output.bytes_written = r.next_pos
           /\ r.output.buffer = Bytes(r.output.bytes_read, r.output.buffer_size)
           /\ r.output.capacity = Capacity
           /\ r.output.end_input \in BOOLEAN
           /\ r.output.end_input = TRUE => r.output.bytes_written = StreamLen
           /\ FirstMissing(r.output) \in Nat /\ r.output.bytes_written < FirstMissing(r.output)
           /\ FirstMissing(r.output) <= r.output.bytes_written + 2
           /\ FirstMissing(r.output) <= StreamLen + 2
BY SoundCounts, Constants, Zenon

\* Indices that have arrived: all before the next byte, and none between.
LEMMA ArrivedIndices ==
    ASSUME NEW r, Sound(r, Capacity, StreamLen)
    PROVE  /\ \A i : i \in Accepted(r) <=> i \in 0 .. r.next_pos - 1 \/ i \in Held(r.unassemble_buffer)
           /\ \A i \in Held(r.unassemble_buffer) : i \in Nat /\ r.next_pos + 1 <= i
<1>1. /\ r.next_pos \in 0 .. StreamLen /\ r.output.bytes_read \in Nat
      /\ Apart(r.unassemble_buffer, r.next_pos + 1, StreamLen, r.output.bytes_read + Capacity)
  BY DEF Sound, Tidy, InOrder
<1>2. r.next_pos + 1 \in Nat /\ r.output.bytes_read + Capacity \in Nat /\ StreamLen \in Nat
  BY <1>1, Constants
<1>3. \A i \in Held(r.unassemble_buffer) : i \in Nat /\ r.next_pos + 1 <= i
  BY <1>1, <1>2, HeldBounded, Zenon
<1>4. \A i : i \in Accepted(r) <=> i \in 0 .. r.next_pos - 1 \/ i \in Held(r.unassemble_buffer)
  BY DEF Accepted
<1> QED BY <1>3, <1>4

-----------------------------------------------------------------------------

\* x is the receiver after it has handed the bytes at index .. index + len - 1 to
\* the reassembler.
Took(x, index, len, fin) ==
    /\ DOMAIN x = {"reassembler", "capacity", "syn", "isn"}
    /\ Pushed(rcv.reassembler, x.reassembler, index, len, fin, Capacity, StreamLen)
    /\ x.syn = TRUE /\ x.isn = PeerISN

\* A segment that arrives after the SYN, or with it, is pushed at its index.
LEMMA ReceivedPushes ==
    ASSUME ReceiverOK, NEW seg, NEW index \in Nat, NEW len \in Nat, NEW fin \in BOOLEAN,
           seg.payload = Bytes(index, len), seg.fin = fin, seg.syn \in BOOLEAN,
           seg.seqno \in SeqNo,
           rcv.syn = FALSE => seg.syn = TRUE /\ seg.seqno = PeerISN,
           StreamIndex(unwrap(seg.seqno, PeerISN, CheckPoint(rcv)), seg.syn) = index,
           index + len < SizeSpace, len > 0 => index + len <= StreamLen,
           fin => index + len = StreamLen
    PROVE  Took(receiver_segment_received(rcv, seg), index, len, fin)
<1>1. ReceiverSound(rcv, Capacity, StreamLen, PeerISN)
  BY Zenon DEF ReceiverOK, ReceiverSound
<1>2. TookIn(rcv, receiver_segment_received(rcv, seg), index, len, fin,
             Capacity, StreamLen, PeerISN)
  <2>1. Arriving(rcv, seg, index, len, fin, StreamLen, PeerISN)
    BY Zenon DEF Arriving
  <2> QED BY <1>1, <2>1, Constants, ReceiverPushes, Zenon
<1> QED BY <1>2, Zenon DEF Took, TookIn

\* The stream index and the length of the payload of the segment first .. last - 1.
IndexOf(first) == GreaterOf(first, 1) - 1
LengthOf(first, last) == GreaterOf(0, LesserOf(last, StreamLen + 1) - GreaterOf(first, 1))

\* The payload lies in the stream, a FIN comes behind its last byte, and the index
\* is the absolute sequence number less one for the SYN.
LEMMA SegmentGeometry ==
    ASSUME NEW first \in 0 .. StreamLen + 2, NEW last \in 0 .. StreamLen + 2, first < last
    PROVE  /\ IndexOf(first) \in Nat /\ LengthOf(first, last) \in Nat
           /\ IndexOf(first) + LengthOf(first, last) < SizeSpace
           /\ LengthOf(first, last) > 0 => /\ IndexOf(first) + LengthOf(first, last) <= StreamLen
                                           /\ IndexOf(first) + LengthOf(first, last) < last
           /\ last = StreamLen + 2 => IndexOf(first) + LengthOf(first, last) = StreamLen
           /\ first = 0 => IndexOf(first) = 0
           /\ first # 0 => IndexOf(first) = first - 1
           /\ first # 0 /\ last <= StreamLen + 1 => LengthOf(first, last) = last - first
BY Constants DEF IndexOf, LengthOf, GreaterOf, LesserOf

\* The receiver's checkpoint, and how far a segment may be from it.
LEMMA NearCheckpoint ==
    ASSUME IInv, NEW a \in Nat, a < Edge(advertised)
    PROVE  CheckPoint(rcv) \in Nat /\ a - CheckPoint(rcv) < HalfRange
<1> DEFINE o == rcv.reassembler.output
<1>1. /\ o.bytes_read \in Nat /\ o.buffer_size \in 0 .. Capacity
      /\ o.bytes_written = o.bytes_read + o.buffer_size
      /\ FirstMissing(o) \in Nat /\ FirstMissing(o) <= o.bytes_written + 2
  BY Counts DEF IInv, ReceiverOK
<1>2. /\ advertised.ackno \in Nat /\ advertised.win \in 0 .. Capacity
      /\ advertised.ackno <= FirstMissing(o)
      /\ advertised.ackno + advertised.win <= FirstMissing(o) + Capacity - o.buffer_size
  BY DEF IInv, AdvertisedOK, RightEdge
<1>3. CheckPoint(rcv) = o.bytes_written + 1
  BY DEF CheckPoint, stream_out
<1>4. a < advertised.ackno + advertised.win \/ a < advertised.ackno + 1
  BY <1>2, Constants DEF Edge, GreaterOf
<1> HIDE DEF o
<1> QED BY <1>1, <1>2, <1>3, <1>4, Constants

\* What an arriving segment does.
LEMMA SegmentCall ==
    ASSUME IInv, NEW first \in 0 .. StreamLen + 2, NEW last \in 0 .. StreamLen + 2,
           MayArrive(first, last)
    PROVE  Took(receiver_segment_received(rcv, PeerSegment(first, last)),
                IndexOf(first), LengthOf(first, last), last = StreamLen + 2)
<1> DEFINE seg   == PeerSegment(first, last)
           index == IndexOf(first)
           len   == LengthOf(first, last)
           fin   == last = StreamLen + 2
           cp    == CheckPoint(rcv)
<1>1. first < last /\ cp - first < HalfRange /\ last <= Edge(advertised)
  BY DEF MayArrive, Edge
<1>2. first \in Nat /\ last \in Nat
  BY Constants
<1>e. Edge(advertised) \in Nat
  BY Constants DEF IInv, AdvertisedOK, Edge, GreaterOf
<1>3. first < Edge(advertised)
  BY <1>1, <1>2, <1>e
<1>4. cp \in Nat /\ first - cp < HalfRange
  BY <1>2, <1>3, NearCheckpoint, Zenon
<1>5. unwrap(wrap(first, PeerISN), PeerISN, cp) = first
  BY <1>1, <1>2, <1>4, Constants, UnwrapInvertsWrap, Zenon
<1>6. /\ seg.seqno = wrap(first, PeerISN) /\ seg.syn = (first = 0 /\ last > 0)
      /\ seg.fin = fin /\ seg.payload = Bytes(index, len)
  BY DEF PeerSegment, Segment, IndexOf, LengthOf
<1>7. seg.syn = (first = 0)
  BY <1>1, <1>2, <1>6
<1>8. /\ index \in Nat /\ len \in Nat /\ index + len < SizeSpace
      /\ (len > 0 => index + len <= StreamLen) /\ (fin => index + len = StreamLen)
      /\ (first = 0 => index = 0) /\ (first # 0 => index = first - 1)
  BY <1>1, SegmentGeometry
<1>9. StreamIndex(unwrap(seg.seqno, PeerISN, cp), seg.syn) = index
  <2>1. unwrap(seg.seqno, PeerISN, cp) = first
    BY <1>5, <1>6
  <2>2. CASE first = 0
    <3>1. seg.syn = TRUE
      BY <1>7, <2>2
    <3> QED BY <1>8, <2>1, <2>2, <3>1 DEF StreamIndex
  <2>3. CASE first # 0
    <3>1. seg.syn = FALSE
      BY <1>7, <2>3
    <3> HIDE DEF seg, index, cp
    <3> QED BY <1>2, <1>8, <2>1, <2>3, <3>1 DEF StreamIndex
  <2> QED BY <2>2, <2>3
<1>10. wrap(first, PeerISN) \in SeqNo /\ wrap(0, PeerISN) = PeerISN
  BY <1>2, Constants, WrapType, WrapZero, Zenon
<1>11. rcv.syn = FALSE => seg.syn = TRUE /\ seg.seqno = PeerISN
  <2>1. ASSUME rcv.syn = FALSE PROVE first = 0
    <3>1. advertised.ackno = 0 /\ advertised.win = 0
      BY <2>1 DEF IInv, AdvertisedOK
    <3>2. Edge(advertised) = 1
      BY <3>1 DEF Edge, GreaterOf
    <3> QED BY <1>2, <1>3, <3>2
  <2> QED BY <1>6, <1>7, <1>10, <2>1
<1>12. fin \in BOOLEAN /\ seg.syn \in BOOLEAN /\ seg.seqno \in SeqNo /\ ReceiverOK
  BY <1>6, <1>7, <1>10 DEF IInv
<1> HIDE DEF seg, index, len, fin, cp
<1>13. Took(receiver_segment_received(rcv, seg), index, len, fin)
  BY <1>6, <1>8, <1>9, <1>11, <1>12, ReceivedPushes DEF cp
<1> QED BY <1>13 DEF seg, index, len, fin

\* So the step does.
LEMMA SegmentStep ==
    ASSUME IInv, NEW first \in 0 .. StreamLen + 2, NEW last \in 0 .. StreamLen + 2,
           SegmentReceived(first, last)
    PROVE  Took(rcv', IndexOf(first), LengthOf(first, last), last = StreamLen + 2)
<1>1. MayArrive(first, last) /\ rcv' = receiver_segment_received(rcv, PeerSegment(first, last))
  BY DEF SegmentReceived
<1> QED BY <1>1, SegmentCall, Zenon

\* A keep-alive pushes nothing: its index is one before a byte that has been
\* acknowledged or, before the first byte, the largest size_t.
LEMMA KeepAliveStep ==
    ASSUME IInv, KeepAlive
    PROVE  \E index \in Nat : Took(rcv', index, 0, FALSE)
<1> DEFINE a     == advertised.ackno - 1
           cp    == CheckPoint(rcv)
           seg   == Segment(wrap(a, PeerISN), FALSE, FALSE, <<>>)
           index == StreamIndex(a, FALSE)
           o     == rcv.reassembler.output
<1>1. advertised.ackno > 0 /\ rcv' = receiver_segment_received(rcv, seg)
  BY DEF KeepAlive
<1>2. /\ advertised.ackno \in Nat /\ advertised.win \in 0 .. Capacity
      /\ advertised.ackno <= FirstMissing(o)
      /\ (rcv.syn = FALSE => advertised.ackno = 0)
  BY DEF IInv, AdvertisedOK
<1>3. /\ o.bytes_written \in 0 .. StreamLen /\ o.bytes_written = rcv.reassembler.next_pos
      /\ FirstMissing(o) \in Nat /\ FirstMissing(o) <= StreamLen + 2
  BY Counts DEF IInv, ReceiverOK
<1>4. a \in Nat /\ a < Edge(advertised) /\ a < StreamLen + 2
  BY <1>1, <1>2, <1>3, Constants, SMTT(30) DEF Edge, GreaterOf
<1>5. cp \in Nat /\ a - cp < HalfRange
  BY <1>4, NearCheckpoint, Zenon
<1>6. cp - a < HalfRange
  <2>1. cp = o.bytes_written + 1
    BY DEF CheckPoint, stream_out
  <2>2. Edge(advertised) \in Nat /\ Edge(advertised) <= advertised.ackno + Capacity + 1
    BY <1>2, Constants DEF Edge, GreaterOf
  <2>3. CASE o.bytes_written = 0
    BY <1>1, <1>2, <2>1, <2>3, Constants
  <2>4. CASE o.bytes_written # 0
    <3>1. o.bytes_written - 1 \in 0 .. rcv.reassembler.next_pos - 1
      BY <1>3, <2>4
    <3>2. o.bytes_written - 1 \in Accepted(rcv.reassembler)
      BY <3>1, Zenon DEF Accepted
    <3>3. (o.bytes_written - 1) + 1 < Edge(advertised)
      BY <3>2, Zenon DEF IInv, ArrivedBeforeEdge
    <3>4. \/ Edge(advertised) = advertised.ackno + advertised.win
          \/ Edge(advertised) = advertised.ackno + 1
      BY DEF Edge, GreaterOf
    <3>5. Capacity # 0
      BY <3>2, Zenon DEF IInv, NothingWithoutRoom
    <3> DEFINE w == o.bytes_written  k == advertised.ackno  v == advertised.win
    <3>6. w \in Nat /\ k \in Nat /\ v \in 0 .. Capacity /\ (w < k + v \/ w < k + 1)
      BY <1>2, <1>3, <3>3, <3>4
    <3>7. cp = w + 1 /\ a = k - 1
      BY <2>1
    <3> HIDE DEF w, k, v, cp, a
    <3> QED BY <3>5, <3>6, <3>7, Constants
  <2> QED BY <2>3, <2>4
<1>7. unwrap(wrap(a, PeerISN), PeerISN, cp) = a
  BY <1>4, <1>5, <1>6, Constants, UnwrapInvertsWrap, Zenon
<1>8. /\ seg.seqno = wrap(a, PeerISN) /\ seg.syn = FALSE /\ seg.fin = FALSE /\ seg.payload = <<>>
  BY DEF Segment
<1>9. index \in Nat /\ index + 0 < SizeSpace
  <2>1. index = IF a = 0 THEN SizeSpace - 1 ELSE a - 1
    BY DEF StreamIndex
  <2> HIDE DEF index, a
  <2> QED BY <1>4, <2>1, Constants
<1>10. seg.payload = Bytes(index, 0)
  <2>1. <<>> \in Seq(Int) /\ Len(<<>>) = 0 /\ 0 \in Nat
    OBVIOUS
  <2>2. index \in Int /\ \A i \in 1 .. 0 : <<>>[i] = index + i - 1
    <3> HIDE DEF index
    <3> QED BY <1>9
  <2> HIDE DEF seg, index
  <2> QED BY <1>8, <2>1, <2>2, IsBytes
<1>11. rcv.syn = FALSE => seg.syn = TRUE /\ seg.seqno = PeerISN
  BY <1>1, <1>2
<1>12. seg.seqno \in SeqNo /\ ReceiverOK /\ seg.syn \in BOOLEAN
  BY <1>4, <1>8, Constants, WrapType, Zenon DEF IInv
<1>13. StreamIndex(unwrap(seg.seqno, PeerISN, cp), seg.syn) = index
  BY <1>7, <1>8
<1> HIDE DEF seg, index, cp
<1>14. Took(rcv', index, 0, FALSE)
  <2>1. 0 \in Nat /\ FALSE \in BOOLEAN /\ (0 > 0 => index + 0 <= StreamLen)
    OBVIOUS
  <2>2. StreamIndex(unwrap(seg.seqno, PeerISN, CheckPoint(rcv)), seg.syn) = index
    BY <1>13 DEF cp
  <2> QED BY <1>1, <1>8, <1>9, <1>10, <1>11, <1>12, <2>1, <2>2, ReceivedPushes, Zenon
<1> QED BY <1>9, <1>14

-----------------------------------------------------------------------------

\* Neither the first byte missing nor the end of what fits moves back.
Ahead(o, p) ==
    /\ FirstMissing(o) <= FirstMissing(p)
    /\ FirstMissing(o) + Capacity - o.buffer_size <= FirstMissing(p) + Capacity - p.buffer_size

\* push_substring() moves both only forward.
LEMMA PushAhead ==
    ASSUME NEW r, NEW t, Sound(r, Capacity, StreamLen), NEW index, NEW len, NEW fin \in BOOLEAN,
           Pushed(r, t, index, len, fin, Capacity, StreamLen)
    PROVE  Ahead(r.output, t.output)
<1> DEFINE o == r.output  p == t.output
<1>1. /\ Sound(t, Capacity, StreamLen) /\ p.bytes_read = o.bytes_read /\ r.next_pos <= t.next_pos
      /\ t.eof_appear_sign <=> (r.eof_appear_sign \/ fin)
  BY DEF Pushed
<1>2. /\ o.bytes_read \in Nat /\ o.buffer_size \in 0 .. Capacity /\ o.bytes_written \in 0 .. StreamLen
      /\ o.bytes_written = o.bytes_read + o.buffer_size /\ o.bytes_written = r.next_pos
      /\ o.end_input \in BOOLEAN /\ (o.end_input = TRUE => o.bytes_written = StreamLen)
  BY Counts
<1>3. /\ p.bytes_read \in Nat /\ p.buffer_size \in 0 .. Capacity /\ p.bytes_written \in 0 .. StreamLen
      /\ p.bytes_written = p.bytes_read + p.buffer_size /\ p.bytes_written = t.next_pos
      /\ p.end_input \in BOOLEAN
  BY <1>1, Counts
<1>4. o.end_input = TRUE => p.end_input = TRUE
  <2>1. /\ o.end_input <=> (r.eof_appear_sign /\ r.next_pos = StreamLen)
        /\ p.end_input <=> (t.eof_appear_sign /\ t.next_pos = StreamLen)
    BY <1>1 DEF Sound, Ends
  <2>2. r.next_pos = StreamLen => t.next_pos = StreamLen
    BY <1>1, <1>2, <1>3, Constants
  <2> QED BY <1>1, <1>2, <1>3, <2>1, <2>2, Zenon
<1> DEFINE d == IF o.end_input THEN 1 ELSE 0  e == IF p.end_input THEN 1 ELSE 0
<1>5. d \in 0 .. 1 /\ e \in 0 .. 1 /\ d <= e
  BY <1>2, <1>3, <1>4
<1>6. FirstMissing(o) = 1 + o.bytes_written + d /\ FirstMissing(p) = 1 + p.bytes_written + e
  BY DEF FirstMissing
<1> HIDE DEF d, e
<1>7. Ahead(o, p)
  BY <1>1, <1>2, <1>3, <1>5, <1>6, Constants DEF Ahead
<1> QED BY <1>7

\* Reading moves only the end of what fits.
LEMMA PopAhead ==
    ASSUME NEW r, NEW t, Sound(r, Capacity, StreamLen), NEW n \in Nat,
           PoppedOutput(r, t, n, Capacity, StreamLen)
    PROVE  Ahead(r.output, t.output)
<1> DEFINE o == r.output  p == t.output
<1>1. /\ Sound(t, Capacity, StreamLen) /\ p.bytes_read = o.bytes_read + n
      /\ p.bytes_written = o.bytes_written /\ p.end_input = o.end_input
  BY DEF PoppedOutput
<1>2. /\ o.bytes_read \in Nat /\ o.buffer_size \in 0 .. Capacity
      /\ o.bytes_written = o.bytes_read + o.buffer_size /\ FirstMissing(o) \in Nat
  BY Counts
<1>3. /\ p.buffer_size \in 0 .. Capacity /\ p.bytes_written = p.bytes_read + p.buffer_size
  BY <1>1, Counts
<1>4. FirstMissing(o) = FirstMissing(p)
  BY <1>1 DEF FirstMissing
<1>5. Ahead(o, p)
  BY <1>1, <1>2, <1>3, <1>4, Constants DEF Ahead
<1> QED BY <1>5

\* What was advertised stays true when the stream moves ahead.
LEMMA AdvertisedKept ==
    ASSUME IInv, Sound(rcv'.reassembler, Capacity, StreamLen),
           Ahead(rcv.reassembler.output, rcv'.reassembler.output),
           rcv'.syn = TRUE \/ rcv'.syn = rcv.syn, advertised' = advertised
    PROVE  AdvertisedOK'
<1> DEFINE o == rcv.reassembler.output  p == rcv'.reassembler.output
<1>1. /\ advertised.ackno \in Nat /\ advertised.win \in 0 .. Capacity
      /\ (rcv.syn = FALSE => advertised.ackno = 0 /\ advertised.win = 0)
      /\ advertised.ackno <= FirstMissing(o)
      /\ advertised.ackno + advertised.win <= FirstMissing(o) + Capacity - o.buffer_size
  BY DEF IInv, AdvertisedOK, RightEdge
<1>2. o.buffer_size \in 0 .. Capacity /\ FirstMissing(o) \in Nat
  BY Counts DEF IInv, ReceiverOK
<1>3. p.buffer_size \in 0 .. Capacity /\ FirstMissing(p) \in Nat
  BY Counts
<1>4. /\ advertised.ackno <= FirstMissing(p)
      /\ advertised.ackno + advertised.win <= FirstMissing(p) + Capacity - p.buffer_size
  BY <1>1, <1>2, <1>3, Constants DEF Ahead
<1>5. rcv'.syn = FALSE => advertised.ackno = 0 /\ advertised.win = 0
  BY <1>1
<1> HIDE DEF o
<1> QED BY <1>1, <1>4, <1>5 DEF AdvertisedOK, RightEdge

\* A segment below the edge keeps the invariant.
LEMMA TookKeeps ==
    ASSUME IInv, NEW index \in Nat, NEW len \in Nat, NEW fin \in BOOLEAN, Took(rcv', index, len, fin),
           advertised' = advertised, len > 0 => index + len < Edge(advertised)
    PROVE  IInv'
<1> DEFINE r == rcv.reassembler  t == rcv'.reassembler
<1>1. /\ Pushed(r, t, index, len, fin, Capacity, StreamLen) /\ Sound(t, Capacity, StreamLen)
      /\ Accepted(t) = Accepted(r) \cup Fitting(r, index, len, Capacity)
      /\ t.output.bytes_read = r.output.bytes_read
      /\ DOMAIN rcv' = {"reassembler", "capacity", "syn", "isn"}
      /\ rcv'.syn = TRUE /\ rcv'.isn = PeerISN
  BY DEF Took, Pushed
<1>2. Sound(r, Capacity, StreamLen)
  BY DEF IInv, ReceiverOK
<1>3. ReceiverOK'
  BY <1>1 DEF ReceiverOK
<1>4. AdvertisedOK'
  <2>1. Ahead(r.output, t.output)
    <3> HIDE DEF r, t
    <3> QED BY <1>1, <1>2, PushAhead, Zenon
  <2> QED BY <1>1, <2>1, AdvertisedKept
<1>5. ArrivedBeforeEdge'
  <2>1. Edge(advertised) \in Nat
    BY Constants DEF IInv, AdvertisedOK, Edge, GreaterOf
  <2>2. ASSUME NEW i \in Fitting(r, index, len, Capacity) PROVE i + 1 < Edge(advertised)
    <3>1. i \in index .. index + len - 1
      BY DEF Fitting
    <3> QED BY <2>1, <3>1
  <2>3. \A i \in Accepted(r) : i + 1 < Edge(advertised)
    BY DEF IInv, ArrivedBeforeEdge
  <2>4. \A i \in Accepted(t) : i + 1 < Edge(advertised)
    BY <1>1, <2>2, <2>3
  <2> QED BY <2>4 DEF ArrivedBeforeEdge
<1>6. NothingWithoutRoom'
  <2>1. ASSUME Capacity = 0 PROVE Accepted(t) = {} /\ t.output.bytes_read = 0
    <3>1. Accepted(r) = {} /\ r.output.bytes_read = 0
      BY <2>1 DEF IInv, NothingWithoutRoom
    <3>2. Fitting(r, index, len, Capacity) = {}
      BY <2>1, <3>1 DEF Fitting
    <3> QED BY <1>1, <3>1, <3>2
  <2> QED BY <2>1 DEF NothingWithoutRoom
<1> QED BY <1>3, <1>4, <1>5, <1>6 DEF IInv

\* The peer reads the acknowledgment number as the first byte missing.
LEMMA AcknoReads ==
    ASSUME IInv, rcv.syn = TRUE
    PROVE  AbsAckno = FirstMissing(rcv.reassembler.output)
<1> DEFINE o == rcv.reassembler.output
           a == FirstMissing(o)
           cp == CheckPoint(rcv)
<1>1. /\ o.bytes_written \in 0 .. StreamLen /\ a \in Nat /\ o.bytes_written < a
      /\ a <= o.bytes_written + 2 /\ o.end_input \in BOOLEAN
  BY Counts DEF IInv, ReceiverOK
<1>2. cp = o.bytes_written + 1
  BY DEF CheckPoint, stream_out
<1>3. cp \in Nat /\ a - cp < HalfRange /\ cp - a < HalfRange
  <2> HIDE DEF o, a, cp
  <2> QED BY <1>1, <1>2, Constants
<1>4. rcv.isn = PeerISN
  BY DEF IInv, ReceiverOK
<1>5. ackno(rcv) = wrap(a, PeerISN)
  <2> DEFINE e == IF o.end_input THEN 1 ELSE 0
  <2>1. e \in Nat
    BY <1>1
  <2>2. ackno(rcv) = wrap(o.bytes_written + 1 + e, rcv.isn)
    BY Zenon DEF ackno, stream_out
  <2>3. a = 1 + o.bytes_written + e
    BY Zenon DEF FirstMissing
  <2> HIDE DEF e, a
  <2>4. o.bytes_written + 1 + e = a
    BY <1>1, <2>1, <2>3
  <2> QED BY <1>4, <2>2, <2>4
<1> HIDE DEF a
<1>6. unwrap(wrap(a, PeerISN), PeerISN, cp) = a
  BY <1>1, <1>3, Constants, UnwrapInvertsWrap, Zenon
<1> QED BY <1>5, <1>6 DEF AbsAckno, a

\* What an outgoing segment tells the peer.
LEMMA AdvertiseStep ==
    ASSUME IInv, Advertise
    PROVE  /\ rcv' = rcv /\ rcv.syn = TRUE
           /\ advertised'.ackno = FirstMissing(rcv.reassembler.output)
           /\ advertised'.win = Capacity - rcv.reassembler.output.buffer_size
<1>1. rcv' = rcv /\ rcv.syn = TRUE
  BY DEF Advertise, has_ackno, IInv, ReceiverOK
<1>2. AbsAckno = FirstMissing(rcv.reassembler.output)
  BY <1>1, AcknoReads
<1>3. rcv.reassembler.output.capacity = Capacity
  BY Counts DEF IInv, ReceiverOK
<1>4. advertised' = [ackno |-> AbsAckno, win |-> window_size(rcv)]
  BY DEF Advertise
<1>5. window_size(rcv) = Capacity - rcv.reassembler.output.buffer_size
  BY <1>3 DEF window_size, stream_out, remaining_capacity
<1> QED BY <1>1, <1>2, <1>4, <1>5

\* The new ackno and right edge are not before the last ones.
LEMMA AdvertiseForward ==
    ASSUME IInv, Advertise
    PROVE  /\ advertised'.ackno \in Nat /\ advertised'.win \in 0 .. Capacity
           /\ advertised'.ackno >= advertised.ackno
           /\ RightEdge(advertised') >= RightEdge(advertised)
           /\ Edge(advertised') \in Nat /\ Edge(advertised) \in Nat
           /\ Edge(advertised') >= Edge(advertised)
<1> DEFINE o == rcv.reassembler.output
<1>1. /\ advertised.ackno \in Nat /\ advertised.win \in 0 .. Capacity
      /\ advertised.ackno <= FirstMissing(o)
      /\ advertised.ackno + advertised.win <= FirstMissing(o) + Capacity - o.buffer_size
  BY DEF IInv, AdvertisedOK, RightEdge
<1>2. o.buffer_size \in 0 .. Capacity /\ FirstMissing(o) \in Nat
  BY Counts DEF IInv, ReceiverOK
<1>3. advertised'.ackno = FirstMissing(o) /\ advertised'.win = Capacity - o.buffer_size
  BY AdvertiseStep
<1> DEFINE f == FirstMissing(o)  b == o.buffer_size  a == advertised'
<1> HIDE DEF f, b, a
<1>4. /\ a.ackno = f /\ a.win = Capacity - b /\ f \in Nat /\ b \in 0 .. Capacity
      /\ advertised.ackno <= f /\ advertised.ackno + advertised.win <= f + Capacity - b
  BY <1>1, <1>2, <1>3 DEF f, b, a
<1>5. /\ a.ackno \in Nat /\ a.win \in 0 .. Capacity /\ a.ackno >= advertised.ackno
      /\ a.ackno + a.win >= advertised.ackno + advertised.win
  BY <1>1, <1>4, Constants
<1>6. /\ Edge(a) \in Nat /\ Edge(advertised) \in Nat /\ Edge(a) >= Edge(advertised)
      /\ RightEdge(a) >= RightEdge(advertised)
  BY <1>1, <1>5, Constants DEF Edge, GreaterOf, RightEdge
<1> QED BY <1>5, <1>6 DEF a

\* Reading keeps the receiver sound and takes nothing from what has arrived.
LEMMA ReadStep ==
    ASSUME IInv, NEW len \in 1 .. Capacity, Read(len)
    PROVE  /\ DOMAIN rcv' = DOMAIN rcv /\ rcv'.syn = rcv.syn /\ rcv'.isn = rcv.isn
           /\ \E n \in Nat : PoppedOutput(rcv.reassembler, rcv'.reassembler, n, Capacity, StreamLen)
           /\ advertised' = advertised
<1> DEFINE r == rcv.reassembler
           t == [r EXCEPT !.output = pop_output(r.output, len)]
<1>1. /\ DOMAIN rcv = {"reassembler", "capacity", "syn", "isn"}
      /\ Sound(r, Capacity, StreamLen)
  BY DEF IInv, ReceiverOK
<1>2. rcv' = [rcv EXCEPT !.reassembler = t] /\ advertised' = advertised
  BY DEF Read
<1>3. PoppedOutput(r, t, LesserOf(len, r.output.buffer_size), Capacity, StreamLen)
  <2>1. len \in Nat /\ Capacity \in Nat /\ StreamLen \in Nat
    BY Constants
  <2> HIDE DEF r
  <2> QED BY <1>1, <2>1, PopSound, Zenon
<1>4. LesserOf(len, r.output.buffer_size) \in Nat
  <2>1. r.output.buffer_size \in 0 .. Capacity
    BY <1>1, Counts
  <2> QED BY <2>1, Constants DEF LesserOf
<1> HIDE DEF t, r
<1>5. /\ rcv'.reassembler = t /\ DOMAIN rcv' = DOMAIN rcv
      /\ rcv'.syn = rcv.syn /\ rcv'.isn = rcv.isn
  BY <1>1, <1>2
<1> QED BY <1>2, <1>3, <1>4, <1>5, Zenon DEF r

-----------------------------------------------------------------------------

\* The invariant holds initially.
LEMMA InitialInv == Init => IInv
<1> SUFFICES ASSUME Init PROVE IInv
  OBVIOUS
<1> DEFINE r == NewStreamReassembler(Capacity)
<1>1. Sound(r, Capacity, StreamLen) /\ Accepted(r) = {}
  BY Constants, NewSound
<1>2. r.output.bytes_read = 0 /\ r.output.buffer_size = 0
  BY DEF NewStreamReassembler, NewByteStream
<1> HIDE DEF r
<1>3. /\ DOMAIN rcv = {"reassembler", "capacity", "syn", "isn"} /\ rcv.reassembler = r
      /\ rcv.syn = FALSE /\ advertised.ackno = 0 /\ advertised.win = 0
  BY DEF Init, NewTCPReceiver, r
<1>4. ReceiverOK
  BY <1>1, <1>3 DEF ReceiverOK
<1>5. FirstMissing(r.output) \in Nat
  BY <1>1, Counts
<1>6. AdvertisedOK
  BY <1>2, <1>3, <1>5, Constants DEF AdvertisedOK, RightEdge
<1>7. ArrivedBeforeEdge /\ NothingWithoutRoom
  BY <1>1, <1>2, <1>3 DEF ArrivedBeforeEdge, NothingWithoutRoom
<1> QED BY <1>4, <1>6, <1>7 DEF IInv

\* Every step keeps it.
LEMMA StepInv == ASSUME IInv, [Next]_vars PROVE IInv'
<1>1. ASSUME NEW first \in 0 .. StreamLen + 2, NEW last \in 0 .. StreamLen + 2,
             SegmentReceived(first, last)
      PROVE  IInv'
  <2> DEFINE index == IndexOf(first)  len == LengthOf(first, last)  fin == last = StreamLen + 2
  <2>1. Took(rcv', index, len, fin)
    BY <1>1, SegmentStep
  <2>2. first < last /\ last <= Edge(advertised) /\ advertised' = advertised
    BY <1>1 DEF SegmentReceived, MayArrive, Edge
  <2>3. index \in Nat /\ len \in Nat /\ (len > 0 => index + len < last)
    BY <2>2, SegmentGeometry
  <2>4. Edge(advertised) \in Nat /\ last \in Nat
    BY Constants DEF IInv, AdvertisedOK, Edge, GreaterOf
  <2>5. fin \in BOOLEAN
    OBVIOUS
  <2> HIDE DEF index, len, fin
  <2>6. len > 0 => index + len < Edge(advertised)
    BY <2>2, <2>3, <2>4
  <2> QED BY <2>1, <2>2, <2>3, <2>5, <2>6, TookKeeps, Zenon
<1>2. ASSUME KeepAlive PROVE IInv'
  <2>1. PICK index \in Nat : Took(rcv', index, 0, FALSE)
    BY <1>2, KeepAliveStep
  <2>2. advertised' = advertised
    BY <1>2 DEF KeepAlive
  <2>3. 0 \in Nat /\ FALSE \in BOOLEAN /\ (0 > 0 => index + 0 < Edge(advertised))
    OBVIOUS
  <2> QED BY <2>1, <2>2, <2>3, TookKeeps, Zenon
<1>3. ASSUME Advertise PROVE IInv'
  <2> DEFINE o == rcv.reassembler.output
  <2>1. /\ rcv' = rcv /\ rcv.syn = TRUE /\ advertised'.ackno = FirstMissing(o)
        /\ advertised'.win = Capacity - o.buffer_size
    BY <1>3, AdvertiseStep
  <2>2. /\ advertised'.ackno \in Nat /\ advertised'.win \in 0 .. Capacity
        /\ Edge(advertised') \in Nat /\ Edge(advertised) \in Nat
        /\ Edge(advertised') >= Edge(advertised)
    BY <1>3, AdvertiseForward
  <2>3. ReceiverOK' /\ NothingWithoutRoom'
    BY <2>1 DEF IInv, ReceiverOK, NothingWithoutRoom
  <2>4. o.buffer_size \in 0 .. Capacity /\ FirstMissing(o) \in Nat
    BY Counts DEF IInv, ReceiverOK
  <2>5. AdvertisedOK'
    <3>1. RightEdge(advertised') <= FirstMissing(o) + Capacity - o.buffer_size
      <4>1. RightEdge(advertised') = FirstMissing(o) + (Capacity - o.buffer_size)
        BY <2>1 DEF RightEdge
      <4> HIDE DEF o
      <4> QED BY <2>4, <4>1, Constants
    <3>2. advertised'.ackno <= FirstMissing(o)
      BY <2>1, <2>4
    <3> QED BY <2>1, <2>2, <3>1, <3>2 DEF AdvertisedOK
  <2>6. ArrivedBeforeEdge'
    <3>1. ASSUME NEW i \in Accepted(rcv.reassembler) PROVE i + 1 < Edge(advertised')
      <4>1. i + 1 < Edge(advertised)
        BY DEF IInv, ArrivedBeforeEdge
      <4>2. i \in Nat
        <5>1. Sound(rcv.reassembler, Capacity, StreamLen)
          BY DEF IInv, ReceiverOK
        <5>2. i \in 0 .. rcv.reassembler.next_pos - 1 \/ i \in Nat
          BY <5>1, ArrivedIndices, Zenon
        <5> QED BY <5>2
      <4> QED BY <2>2, <4>1, <4>2
    <3> QED BY <2>1, <3>1 DEF ArrivedBeforeEdge
  <2> QED BY <2>3, <2>5, <2>6 DEF IInv
<1>4. ASSUME NEW len \in 1 .. Capacity, Read(len) PROVE IInv'
  <2> DEFINE r == rcv.reassembler  t == rcv'.reassembler
  <2>1. /\ DOMAIN rcv' = DOMAIN rcv /\ rcv'.syn = rcv.syn /\ rcv'.isn = rcv.isn
        /\ advertised' = advertised
        /\ \E n \in Nat : PoppedOutput(r, t, n, Capacity, StreamLen)
    BY <1>4, ReadStep
  <2>2. PICK n \in Nat : PoppedOutput(r, t, n, Capacity, StreamLen)
    BY <2>1
  <2>3. Sound(t, Capacity, StreamLen) /\ Accepted(t) = Accepted(r)
    BY <2>2 DEF PoppedOutput
  <2>4. ReceiverOK'
    BY <2>1, <2>3 DEF IInv, ReceiverOK
  <2>5. AdvertisedOK'
    <3>1. Ahead(r.output, t.output)
      <4>1. Sound(r, Capacity, StreamLen)
        BY DEF IInv, ReceiverOK
      <4> HIDE DEF r, t
      <4> QED BY <2>2, <4>1, PopAhead, Zenon
    <3> QED BY <2>1, <2>3, <3>1, AdvertisedKept
  <2>6. ArrivedBeforeEdge'
    BY <2>1, <2>3 DEF IInv, ArrivedBeforeEdge
  <2>7. NothingWithoutRoom'
    <3>1. Capacity # 0
      BY <1>4, Constants
    <3> QED BY <3>1 DEF NothingWithoutRoom
  <2> QED BY <2>4, <2>5, <2>6, <2>7 DEF IInv
<1>5. CASE UNCHANGED vars
  BY <1>5 DEF vars, IInv, ReceiverOK, AdvertisedOK, ArrivedBeforeEdge, NothingWithoutRoom
<1> QED BY <1>1, <1>2, <1>3, <1>4, <1>5, Zenon DEF Next

\* So it always holds.
LEMMA Invariance == Spec => []IInv
BY InitialInv, StepInv, PTL DEF Spec

-----------------------------------------------------------------------------

\* However segments are cut, repeated and reordered, and however often their
\* sequence numbers wrap, the application reads the peer's bytes in order, each once.
THEOREM StreamCorrect == Spec => []StreamIntact
<1>1. ASSUME IInv PROVE StreamIntact
  <2> DEFINE o == rcv.reassembler.output
  <2>1. /\ o.bytes_read \in Nat /\ o.buffer_size \in 0 .. Capacity
        /\ o.bytes_written = o.bytes_read + o.buffer_size
        /\ o.buffer = Bytes(o.bytes_read, o.buffer_size)
    BY <1>1, Counts DEF IInv, ReceiverOK
  <2>2. o.bytes_written - o.bytes_read = o.buffer_size
    BY <2>1, Constants
  <2> QED BY <2>1, <2>2 DEF StreamIntact, stream_out
<1> QED BY <1>1, Invariance, PTL

\* ackno() names the first sequence number that has not arrived, for the peer that
\* unwraps it, and counts the FIN exactly when the whole stream has arrived.
THEOREM AcknoCorrect == Spec => []AcknoIsFirstMissing
<1>1. ASSUME IInv PROVE AcknoIsFirstMissing
  <2> SUFFICES ASSUME has_ackno(rcv)
               PROVE  LET out == stream_out(rcv)
                      IN  /\ AbsAckno = 1 + out.bytes_written + (IF out.end_input THEN 1 ELSE 0)
                          /\ AbsAckno = StreamLen + 2 <=> out.end_input
                          /\ out.bytes_written + 1
                               \notin {i + 1 : i \in Held(rcv.reassembler.unassemble_buffer)}
    BY DEF AcknoIsFirstMissing
  <2> DEFINE r == rcv.reassembler  o == r.output
  <2>1. rcv.syn = TRUE
    BY <1>1 DEF has_ackno, IInv, ReceiverOK
  <2>2. AbsAckno = FirstMissing(o)
    BY <1>1, <2>1, AcknoReads
  <2>3. /\ o.bytes_written \in 0 .. StreamLen /\ o.bytes_written = r.next_pos
        /\ o.end_input \in BOOLEAN /\ (o.end_input = TRUE => o.bytes_written = StreamLen)
    BY <1>1, Counts DEF IInv, ReceiverOK
  <2>4. FirstMissing(o) = 1 + o.bytes_written + (IF o.end_input THEN 1 ELSE 0)
    BY DEF FirstMissing
  <2>5. FirstMissing(o) = StreamLen + 2 <=> o.end_input
    <3>1. CASE o.end_input = TRUE
      <4>1. FirstMissing(o) = 1 + o.bytes_written + 1
        BY <2>4, <3>1
      <4>2. FirstMissing(o) = StreamLen + 2
        BY <2>3, <3>1, <4>1, Constants
      <4> QED BY <3>1, <4>2
    <3>2. CASE o.end_input = FALSE
      <4>1. FirstMissing(o) = 1 + o.bytes_written + 0
        BY <2>4, <3>2
      <4>2. FirstMissing(o) # StreamLen + 2
        BY <2>3, <4>1, Constants
      <4> QED BY <3>2, <4>2
    <3> QED BY <2>3, <3>1, <3>2
  <2>6. \A i \in Held(r.unassemble_buffer) : i \in Nat /\ r.next_pos + 1 <= i
    BY <1>1, ArrivedIndices DEF IInv, ReceiverOK
  <2>7. o.bytes_written + 1 \notin {i + 1 : i \in Held(r.unassemble_buffer)}
    BY <2>3, <2>6
  <2> QED BY <2>2, <2>4, <2>5, <2>7 DEF stream_out
<1> QED BY <1>1, Invariance, PTL

\* The ackno and the right edge of the window that outgoing segments carry never
\* move back.
THEOREM WindowForward == Spec => WindowNeverShrinks
<1> DEFINE A == /\ advertised'.ackno >= advertised.ackno
                /\ RightEdge(advertised') >= RightEdge(advertised)
<1>1. ASSUME IInv, [Next]_vars PROVE [A]_vars
  <2>1. ASSUME Advertise PROVE A
    BY <1>1, <2>1, AdvertiseForward
  <2>2. ASSUME advertised' = advertised PROVE A
    <3>1. advertised.ackno \in Nat /\ advertised.win \in 0 .. Capacity
      BY <1>1 DEF IInv, AdvertisedOK
    <3> QED BY <2>2, <3>1, Constants DEF RightEdge
  <2>3. \/ Advertise \/ advertised' = advertised \/ UNCHANGED vars
    BY <1>1 DEF Next, SegmentReceived, KeepAlive, Read
  <2> QED BY <2>1, <2>2, <2>3
<1> QED BY <1>1, Invariance, PTL DEF Spec, WindowNeverShrinks

\* Whichever segment arrives in whichever state, each of its bytes inside the
\* window the peer was told is kept, and none that was there is lost.
THEOREM WindowHonoured == Spec => []WindowIsHonoured
<1>1. ASSUME IInv PROVE WindowIsHonoured
  <2> SUFFICES ASSUME NEW first \in 0 .. StreamLen + 2, NEW last \in 0 .. StreamLen + 2,
                      MayArrive(first, last), NEW i \in 0 .. StreamLen - 1,
                      \/ first <= i + 1 /\ i + 1 < last /\ i + 1 < RightEdge(advertised)
                      \/ i < rcv.reassembler.next_pos
                      \/ i \in Held(rcv.reassembler.unassemble_buffer)
               PROVE  LET t == receiver_segment_received(rcv, PeerSegment(first, last)).reassembler
                      IN  i < t.next_pos \/ i \in Held(t.unassemble_buffer)
    BY Zenon DEF WindowIsHonoured
  <2> DEFINE r == rcv.reassembler  o == r.output
             t == receiver_segment_received(rcv, PeerSegment(first, last)).reassembler
             index == IndexOf(first)  len == LengthOf(first, last)
  <2>1. first \in Nat /\ last \in Nat /\ i \in Nat /\ i < StreamLen
    BY Constants
  <2>2. /\ Accepted(t) = Accepted(r) \cup Fitting(r, index, len, Capacity)
        /\ Sound(t, Capacity, StreamLen)
    BY <1>1, SegmentCall, Zenon DEF Took, Pushed
  <2>3. /\ o.bytes_read \in Nat /\ o.buffer_size \in 0 .. Capacity
        /\ o.bytes_written = o.bytes_read + o.buffer_size /\ o.bytes_written = r.next_pos
        /\ o.end_input \in BOOLEAN /\ (o.end_input = TRUE => o.bytes_written = StreamLen)
        /\ Sound(r, Capacity, StreamLen)
    BY <1>1, Counts DEF IInv, ReceiverOK
  <2>4. RightEdge(advertised) <= FirstMissing(o) + Capacity - o.buffer_size /\ RightEdge(advertised) \in Nat
    BY <1>1, Constants DEF IInv, AdvertisedOK, RightEdge
  <2>5. ASSUME i < r.next_pos \/ i \in Held(r.unassemble_buffer) PROVE i \in Accepted(r)
    BY <2>1, <2>3, <2>5 DEF Accepted
  <2>6. ASSUME first <= i + 1, i + 1 < last, i + 1 < RightEdge(advertised)
        PROVE  i \in Accepted(t)
    <3>1. i \in index .. index + len - 1
      BY <2>1, <2>6, Constants DEF IndexOf, LengthOf, GreaterOf, LesserOf
    <3> HIDE DEF index, len, t
    <3>2. CASE o.end_input = TRUE
      <4>1. i < r.next_pos
        BY <2>1, <2>3, <3>2, Constants
      <4> QED BY <2>2, <2>5, <4>1
    <3>3. CASE o.end_input = FALSE
      <4>1. FirstMissing(o) = 1 + o.bytes_written + 0
        BY <3>3 DEF FirstMissing
      <4> HIDE DEF o
      <4>2. i \in 0 .. o.bytes_read + Capacity - 1
        BY <2>1, <2>3, <2>4, <2>6, <4>1, Constants
      <4>3. i \in Fitting(r, index, len, Capacity)
        BY <3>1, <4>2 DEF Fitting, o
      <4> QED BY <2>2, <4>3
    <3> QED BY <2>3, <3>2, <3>3
  <2> HIDE DEF t
  <2>7. i \in Accepted(t)
    BY <2>2, <2>5, <2>6
  <2>8. i \in 0 .. t.next_pos - 1 \/ i \in Held(t.unassemble_buffer)
    BY <2>2, <2>7, ArrivedIndices, Zenon
  <2>9. t.next_pos \in Nat
    BY <2>2 DEF Sound, Tidy
  <2>10. i < t.next_pos \/ i \in Held(t.unassemble_buffer)
    BY <2>1, <2>8, <2>9
  <2> QED BY <2>10 DEF t
<1> QED BY <1>1, Invariance, PTL

=============================================================================
