---------------------------- MODULE TCPConnection ----------------------------
(***************************************************************************)
(* A complete endpoint (libsponge/tcp_connection): a receiver and a sender *)
(* joined.  It stamps outgoing segments with the receiver's                *)
(* acknowledgment number and window, answers what it receives, gives up    *)
(* after too many retransmissions, and decides when the connection is over *)
(* and whether it must linger first.                                       *)
(***************************************************************************)
EXTENDS TCPSender

CONSTANTS MaxRetx,      \* TCPConfig::MAX_RETX_ATTEMPTS (8)
          LingerTime,   \* 10 * rt_timeout, in ms
          MaxWin        \* the largest uint16_t (65535)

ASSUME ConnectionAssumption ==
    MaxRetx \in Nat /\ LingerTime \in Nat \ {0} /\ MaxWin \in Nat \ {0}

NewTCPConnection(recv_capacity, send_capacity, isn) ==
    [receiver |-> NewTCPReceiver(recv_capacity),
     sender   |-> NewTCPSender(send_capacity, isn),
     segments_out |-> <<>>,
     linger_after_streams_finish |-> TRUE,
     time_since_last_segment_received |-> 0,
     active |-> TRUE]

\* A segment with the fields that the receiver decides.
Stamped(c, seg, win) ==
    IF has_ackno(c.receiver)
    THEN [seg EXCEPT !.ack = TRUE, !.ackno = ackno(c.receiver), !.win = win]
    ELSE [seg EXCEPT !.win = win]

send_segments(c) ==
    LET win == LesserOf(window_size(c.receiver), MaxWin)
    IN  [c EXCEPT
            !.segments_out = @ \o [i \in 1 .. Len(c.sender.segments_out) |->
                                      Stamped(c, c.sender.segments_out[i], win)],
            !.sender.segments_out = <<>>]

\* The front of the sender's queue leaves with RST; it is the empty segment just
\* made only if the queue was empty.  The window is cast, not clamped.
send_rst_segment(c) ==
    LET queue == send_empty_segment(c.sender).segments_out
        win   == window_size(c.receiver) % (MaxWin + 1)
    IN  [c EXCEPT
            !.segments_out        = Append(@, [Stamped(c, Head(queue), win) EXCEPT !.rst = TRUE]),
            !.sender.segments_out = Tail(queue)]

passive_close(c) ==
    [c EXCEPT !.sender.stream               = set_error(@),
              !.receiver.reassembler.output = set_error(@),
              !.active                      = FALSE]

check_inbound_ended(c) ==
    c.receiver.reassembler.unassembled_bytes = 0 /\ stream_out(c.receiver).end_input

\* Mutant of check_outbound_ended: everything sent, not everything acknowledged.
check_outbound_ended_Unacked(c) ==
    /\ eof(c.sender.stream)
    /\ c.sender.next_seqno = c.sender.stream.bytes_written + 2

check_outbound_ended(c) ==
    /\ eof(c.sender.stream)
    /\ c.sender.next_seqno = c.sender.stream.bytes_written + 2
    /\ c.sender.bytes_in_flight = 0

\* Mutant of test_end: the lingering never runs out.
test_end_LingersForever(c) ==
    IF check_inbound_ended(c) /\ ~eof(c.sender.stream)
    THEN [c EXCEPT !.linger_after_streams_finish = FALSE]
    ELSE IF /\ check_inbound_ended(c) /\ check_outbound_ended(c)
            /\ ~c.linger_after_streams_finish
    THEN [c EXCEPT !.active = FALSE]
    ELSE c

test_end(c) ==
    IF check_inbound_ended(c) /\ ~eof(c.sender.stream)
    THEN [c EXCEPT !.linger_after_streams_finish = FALSE]
    ELSE IF /\ check_inbound_ended(c) /\ check_outbound_ended(c)
            /\ \/ ~c.linger_after_streams_finish
               \/ c.time_since_last_segment_received >= LingerTime
    THEN [c EXCEPT !.active = FALSE]
    ELSE c

\* Answer a segment that occupies sequence numbers: with data if there is any,
\* with an empty segment otherwise.
Answer(c) ==
    LET filled == [c EXCEPT !.sender = fill_window(@)]
    IN  IF filled.sender.segments_out # <<>>
        THEN send_segments(filled)
        ELSE send_segments([filled EXCEPT !.sender = send_empty_segment(@)])

segment_received(c, seg) ==
    LET c0 == [c EXCEPT !.time_since_last_segment_received = 0]
        c1 == [c0 EXCEPT !.receiver = receiver_segment_received(@, seg)]
        c2 == IF seg.ack
              THEN send_segments([c1 EXCEPT !.sender = ack_received(@, seg.ackno, seg.win)])
              ELSE c1
        c3 == IF length_in_sequence_space(seg) > 0 THEN Answer(c2) ELSE c2
    IN  IF seg.rst THEN passive_close(c0) ELSE test_end(c3)

connection_write(c, data) ==
    IF data = <<>> THEN c
    ELSE send_segments([c EXCEPT !.sender = fill_window([c.sender EXCEPT !.stream = write(@, data)])])

\* The clock is only ever compared with LingerTime and stops there.
tick(c, ms) ==
    LET c1 == [c EXCEPT !.time_since_last_segment_received = LesserOf(@ + ms, LingerTime),
                        !.sender = sender_tick(@, ms)]
    IN  IF c1.sender.timer.consecutive_retransmissions > MaxRetx
        THEN send_rst_segment(passive_close(c1))
        ELSE test_end(send_segments(c1))

end_input_stream(c) ==
    send_segments([c EXCEPT !.sender = fill_window([c.sender EXCEPT !.stream = end_input(@)])])

\* connect() returns at once when the SYN has been sent.
connect(c) ==
    IF c.sender.next_seqno # 0 THEN c
    ELSE [send_segments([c EXCEPT !.sender = fill_window(@)]) EXCEPT !.active = TRUE]

\* The destructor: a connection that is still active is closed, and a RST is
\* queued for whoever still empties the queue.
DestroyTCPConnection(c) ==
    IF c.active THEN send_rst_segment(passive_close(c)) ELSE c

=============================================================================
