----------------------------- MODULE TCPReceiver -----------------------------
(***************************************************************************)
(* The receiving half of a connection (libsponge/tcp_receiver): it turns   *)
(* the 32-bit sequence number of a segment into an index of the stream,    *)
(* hands the payload to the reassembler, and computes the acknowledgment   *)
(* number and the window it advertises.                                    *)
(***************************************************************************)
EXTENDS StreamReassembler, WrappingIntegers

\* The fields of a TCPSegment (header and payload) that the two halves and the
\* connection set and read.
Segment(seqno, syn, fin, payload) ==
    [seqno |-> seqno, syn |-> syn, fin |-> fin, rst |-> FALSE, payload |-> payload,
     ack |-> FALSE, ackno |-> 0, win |-> 0]

\* SYN and FIN occupy one sequence number each.
length_in_sequence_space(seg) ==
    Len(seg.payload) + (IF seg.syn THEN 1 ELSE 0) + (IF seg.fin THEN 1 ELSE 0)

NewTCPReceiver(capacity) ==
    [reassembler |-> NewStreamReassembler(capacity), capacity |-> capacity,
     syn |-> FALSE, isn |-> 0]

stream_out(rcv) == rcv.reassembler.output

\* Mutant of StreamIndex: the SYN is counted as a byte of the stream.
StreamIndex_CountsSyn(abs_seqno, syn) == abs_seqno

\* abs_seqno - 1 in 64 bits: zero minus one is the largest size_t.
StreamIndex(abs_seqno, syn) ==
    IF syn THEN abs_seqno
    ELSE IF abs_seqno = 0 THEN SizeSpace - 1 ELSE abs_seqno - 1

CheckPoint(rcv) == stream_out(rcv).bytes_written + 1

receiver_segment_received(rcv, seg) ==
    LET rcv1  == IF rcv.syn THEN rcv ELSE [rcv EXCEPT !.syn = TRUE, !.isn = seg.seqno]
        index == StreamIndex(unwrap(seg.seqno, rcv1.isn, CheckPoint(rcv1)), seg.syn)
    IN  IF ~rcv.syn /\ ~seg.syn
        THEN rcv
        ELSE [rcv1 EXCEPT !.reassembler = push_substring(@, seg.payload, index, seg.fin)]

\* ackno() is empty before the SYN; has_ackno and ackno model the optional.
has_ackno(rcv) == rcv.syn

\* Mutant of ackno: the FIN is acknowledged as soon as it is known.
ackno_CountsFinEarly(rcv) ==
    wrap(stream_out(rcv).bytes_written + 1
           + (IF rcv.reassembler.eof_appear_sign THEN 1 ELSE 0), rcv.isn)

ackno(rcv) ==
    wrap(stream_out(rcv).bytes_written + 1 + (IF stream_out(rcv).end_input THEN 1 ELSE 0),
         rcv.isn)

\* Mutant of window_size: the whole capacity, whatever is still unread.
window_size_Capacity(rcv) == rcv.capacity

\* Mutant of window_size: bytes that wait for a gap take room from the window.
window_size_CountsUnassembled(rcv) ==
    remaining_capacity(stream_out(rcv)) - rcv.reassembler.unassembled_bytes

window_size(rcv) == remaining_capacity(stream_out(rcv))

=============================================================================
