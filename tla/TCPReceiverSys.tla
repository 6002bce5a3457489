--------------------------- MODULE TCPReceiverSys ---------------------------
(***************************************************************************)
(* A TCPReceiver, the reader of its stream, and a peer that sends a stream *)
(* of StreamLen bytes cut into segments in any way.  Segments arrive out   *)
(* of order, again and again, and with sequence numbers that wrap: the     *)
(* stream is longer than the sequence space.  The peer also sends          *)
(* keep-alives: empty segments one sequence number too early.              *)
(***************************************************************************)
EXTENDS TCPReceiver

CONSTANTS StreamLen,    \* bytes in the peer's stream
          Capacity,     \* capacity of the receiver
          PeerISN       \* the peer's initial sequence number

ASSUME ReceiverAssumption ==
    /\ StreamLen \in Nat /\ Capacity \in Nat /\ PeerISN \in SeqNo
    /\ StreamLen + 2 < SizeSpace
    /\ Capacity + 1 < HalfRange     \* 64000 is far below 2^31

VARIABLES rcv,          \* the receiver
          advertised    \* the last ackno and window sent: ackno in absolute terms

vars == <<rcv, advertised>>

\* Absolute sequence numbers: 0 is the SYN, i + 1 the byte i, StreamLen + 1 the
\* FIN.  The segment that occupies first .. last - 1:
PeerSegment(first, last) ==
    Segment(wrap(first, PeerISN), first = 0 /\ last > 0, last = StreamLen + 2,
            Bytes(GreaterOf(first, 1) - 1,
                  GreaterOf(0, LesserOf(last, StreamLen + 1) - GreaterOf(first, 1))))

\* The acknowledgment number as the peer, which knows about what it sent, reads it.
AbsAckno == unwrap(ackno(rcv), PeerISN, CheckPoint(rcv))

Init == /\ rcv = NewTCPReceiver(Capacity)
        /\ advertised = [ackno |-> 0, win |-> 0]

\* The segments that may arrive.  None is older than half the sequence space, and
\* the peer sends at most one byte more than the window it was told.
MayArrive(first, last) ==
    /\ CheckPoint(rcv) - first < HalfRange
    /\ first < last
    /\ last <= GreaterOf(advertised.ackno + advertised.win, advertised.ackno + 1)

\* A segment arrives.
SegmentReceived(first, last) ==
    /\ MayArrive(first, last)
    /\ rcv' = receiver_segment_received(rcv, PeerSegment(first, last))
    /\ UNCHANGED advertised

\* An empty segment whose sequence number lies just before the window.
KeepAlive ==
    /\ advertised.ackno > 0
    /\ rcv' = receiver_segment_received(
                  rcv, Segment(wrap(advertised.ackno - 1, PeerISN), FALSE, FALSE, <<>>))
    /\ UNCHANGED advertised

\* The connection puts ackno and window into an outgoing segment.
Advertise ==
    /\ has_ackno(rcv)
    /\ advertised' = [ackno |-> AbsAckno, win |-> window_size(rcv)]
    /\ UNCHANGED rcv

Read(len) ==
    /\ stream_out(rcv).buffer_size > 0
    /\ rcv' = [rcv EXCEPT !.reassembler.output = pop_output(@, len)]
    /\ UNCHANGED advertised

Next == \/ \E first, last \in 0 .. StreamLen + 2 : SegmentReceived(first, last)
        \/ KeepAlive
        \/ Advertise
        \/ \E len \in 1 .. Capacity : Read(len)

Spec == Init /\ [][Next]_vars

-----------------------------------------------------------------------------

\* The application reads the peer's bytes in order, each once, however often the
\* sequence numbers have wrapped: an arriving segment is never filed a whole
\* sequence space too early or too late.
StreamIntact ==
    LET out == stream_out(rcv)
    IN  out.buffer = Bytes(out.bytes_read, out.bytes_written - out.bytes_read)

\* The acknowledgment number is cumulative: it names the first sequence number
\* that has not arrived, and the FIN is acknowledged only with everything before
\* it.  A keep-alive, even one before the first byte (stream index 2^64 - 1),
\* does not end or move the stream.
AcknoIsFirstMissing ==
    has_ackno(rcv) =>
        LET out == stream_out(rcv)
        IN  /\ AbsAckno = 1 + out.bytes_written + (IF out.end_input THEN 1 ELSE 0)
            /\ AbsAckno = StreamLen + 2 <=> out.end_input
            /\ out.bytes_written + 1 \notin {i + 1 : i \in Held(rcv.reassembler.unassemble_buffer)}

\* The advertised window never shrinks: neither the acknowledgment number nor
\* the right edge of the window moves back, so bytes the peer was allowed to
\* send stay acceptable.
RightEdge(a) == a.ackno + a.win
WindowNeverShrinks ==
    [][/\ advertised'.ackno >= advertised.ackno
       /\ RightEdge(advertised') >= RightEdge(advertised)]_vars

\* The window is honoured: in every state, whichever segment arrives next, with
\* the SYN, the FIN or a byte too many, each of its bytes inside the window last
\* advertised is there after segment_received(), in the stream or waiting, and
\* nothing that was there is lost.
WindowIsHonoured ==
    \A first, last \in 0 .. StreamLen + 2 :
        MayArrive(first, last) =>
            LET t == receiver_segment_received(rcv, PeerSegment(first, last)).reassembler
            IN  \A i \in 0 .. StreamLen - 1 :
                    \/ first <= i + 1 /\ i + 1 < last /\ i + 1 < RightEdge(advertised)
                    \/ i < rcv.reassembler.next_pos
                    \/ i \in Held(rcv.reassembler.unassemble_buffer)
                    => i < t.next_pos \/ i \in Held(t.unassemble_buffer)

=============================================================================
