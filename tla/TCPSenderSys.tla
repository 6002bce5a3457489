---------------------------- MODULE TCPSenderSys ----------------------------
(***************************************************************************)
(* A TCPSender driven by its owner and by acknowledgments.  The owner      *)
(* calls it as TCPConnection does: fill_window after every write and after *)
(* end_input, and it takes every segment out of segments_out after each    *)
(* call, so that segments_out here is what the last call sent.             *)
(* Acknowledgments may be old, repeated, beyond what was sent, in the      *)
(* middle of a segment, and open, shrink or close the window.              *)
(***************************************************************************)
EXTENDS TCPSender

CONSTANTS StreamLen,    \* bytes the application writes (bound)
          Capacity,     \* capacity of the outgoing stream
          ISN,          \* the sender's initial sequence number
          MaxWindow,    \* largest window the peer advertises
          MaxRetx       \* retransmissions in a row that are followed (bound)

ASSUME SenderSysAssumption ==
    /\ StreamLen \in Nat /\ Capacity \in Nat /\ ISN \in SeqNo
    /\ MaxWindow \in Nat \ {0} /\ MaxRetx \in Nat
    /\ MaxWindow + MaxPayload < HalfRange     \* 65535 + 1000 is far below 2^31

VARIABLES snd,      \* the sender
          written   \* bytes the application has written

vars == <<snd, written>>

\* The sender after its owner has taken the segments of the last call.
Drained == [snd EXCEPT !.segments_out = <<>>]

Init == /\ snd = NewTCPSender(Capacity, ISN)
        /\ written = 0

\* TCPConnection::connect
Connect ==
    /\ snd.next_seqno = 0
    /\ snd' = fill_window(Drained)
    /\ UNCHANGED written

\* TCPConnection::write
Write(len) ==
    /\ ~snd.stream.end_input
    /\ written + len <= StreamLen
    /\ snd' = fill_window([Drained EXCEPT !.stream = write(@, Bytes(written, len))])
    /\ written' = written + write_count(snd.stream, Bytes(written, len))

\* TCPConnection::end_input_stream
EndInput ==
    /\ ~snd.stream.end_input
    /\ snd' = fill_window([Drained EXCEPT !.stream = end_input(@)])
    /\ UNCHANGED written

\* An acknowledgment of everything before abs arrives.
AckReceived(abs, win) ==
    /\ abs - snd.abs_ackno < HalfRange
    /\ snd.abs_ackno - abs < HalfRange
    /\ snd' = ack_received(Drained, wrap(abs, ISN), win)
    /\ UNCHANGED written

Tick(ms) ==
    /\ snd.timer.consecutive_retransmissions < MaxRetx
    /\ snd' = sender_tick(Drained, ms)
    /\ UNCHANGED written

\* The connection wants to acknowledge and has nothing else to send.
SendEmpty ==
    /\ snd' = send_empty_segment(Drained)
    /\ UNCHANGED written

Next == \/ Connect
        \/ \E len \in 1 .. StreamLen : Write(len)
        \/ EndInput
        \/ \E abs \in 0 .. StreamLen + 3, win \in 0 .. MaxWindow : AckReceived(abs, win)
        \/ \E ms \in 1 .. InitRTO : Tick(ms)
        \/ SendEmpty

Spec == Init /\ [][Next]_vars

-----------------------------------------------------------------------------

\* Type invariant.
TypeOK ==
    /\ snd.stream \in ByteStreams(0 .. StreamLen - 1, Capacity)
    /\ snd.next_seqno \in 0 .. StreamLen + 2
    /\ snd.abs_ackno \in 0 .. snd.next_seqno
    /\ snd.window_size \in 0 .. MaxWindow
    /\ snd.bytes_in_flight \in 0 .. snd.next_seqno
    /\ snd.timer.running \in BOOLEAN
    /\ snd.timer.consecutive_retransmissions \in Nat

\* The absolute sequence number an outstanding segment starts at.
Start(seg) == unwrap(seg.seqno, ISN, snd.abs_ackno)

\* The outstanding segments are exactly the sequence numbers from the segment
\* the acknowledgment number points into up to next_seqno, without gaps, and
\* bytes_in_flight counts them: partial, old, repeated and too large
\* acknowledgments drop no segment too early and leave none behind.
OutstandingContiguous ==
    LET track == snd.segments_track
        n     == Len(track)
    IN  /\ \A i \in 1 .. n : MaxSegAckno(snd, track[i]) =
                                 IF i = n THEN snd.next_seqno ELSE Start(track[i + 1])
        /\ n > 0 => /\ Start(track[1]) <= snd.abs_ackno
                    /\ snd.abs_ackno < MaxSegAckno(snd, track[1])
                    /\ snd.bytes_in_flight = snd.next_seqno - Start(track[1])
        /\ n = 0 => snd.bytes_in_flight = 0 /\ snd.abs_ackno = snd.next_seqno

\* Every segment on its way, sent for the first time or again, holds the bytes
\* that belong at its sequence number, with the SYN only at 0 and the FIN only
\* after the last byte of a stream that has ended.
SegmentsInPlace ==
    \A seg \in Range(snd.segments_track) \cup Range(snd.segments_out) :
        /\ seg.payload = Bytes(Start(seg) - 1, Len(seg.payload))
        /\ seg.syn => Start(seg) = 0
        /\ seg.fin => /\ snd.stream.end_input
                      /\ Start(seg) + Len(seg.payload) = written + 1

\* The record of what is outstanding is exact: neither a sequence number nor a
\* byte of what must be sent again is lost, repeated or moved.
SenderInv == TypeOK /\ OutstandingContiguous /\ SegmentsInPlace

\* The timer runs exactly while something is outstanding, has never been left
\* beyond its timeout, and starts from the initial timeout after new data was
\* acknowledged.
TimerGuardsOutstanding ==
    /\ snd.timer.running <=> snd.segments_track # <<>>
    /\ snd.timer.running => /\ snd.timer.ms_since_running < snd.timer.rto
                            /\ snd.timer.consecutive_retransmissions = 0 => snd.timer.rto = InitRTO

\* A connected sender that still has bytes, or its FIN, to send has something
\* outstanding, so that its timer will make the peer answer again: no order of
\* window updates, closed windows and partial acknowledgments leaves it waiting
\* for an event that cannot come.
NeverStalls ==
    /\ snd.next_seqno > 0
    /\ \/ snd.stream.buffer_size > 0
       \/ snd.stream.end_input /\ snd.next_seqno < written + 2
    => snd.segments_track # <<>>

\* No step sends new sequence numbers beyond the window it knows of: the
\* acknowledgment number plus the window, a closed window counting as one.
WindowRespected ==
    [][snd'.next_seqno > snd.next_seqno =>
           snd'.next_seqno <= snd'.abs_ackno + EffectiveWindow(snd')]_vars

=============================================================================
