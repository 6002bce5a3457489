----------------------------- MODULE SenderLoop -----------------------------
(***************************************************************************)
(* The loops of tcp_sender.cc as loops: the while loop of fill_window,     *)
(* which reads and sends one segment per round, and the while loop of      *)
(* ack_received, which pops one segment per round.  The run shows that the *)
(* closed forms of module TCPSender compute the same sender.               *)
(***************************************************************************)
EXTENDS TCPSenderSys

send_no_empty_segment(s, seg0) ==
    LET seg == [seg0 EXCEPT !.seqno = wrap(s.next_seqno, s.isn)]
        len == length_in_sequence_space(seg)
    IN  [s EXCEPT !.next_seqno      = @ + len,
                  !.bytes_in_flight = @ + len,
                  !.segments_out    = Append(@, seg),
                  !.segments_track  = Append(@, seg),
                  !.timer           = IF @.running THEN @ ELSE timer_start(@)]

\* Mutant of FillStep: a FIN goes on any segment that empties the stream.
FillStep_FinAlways(s) ==
    LET n    == LesserOf(LesserOf(Room(s), MaxPayload), s.stream.buffer_size)
        read == [s EXCEPT !.stream = pop_output(@, n)]
        seg  == Segment(0, FALSE, eof(read.stream), peek_output(s.stream, n))
    IN  IF length_in_sequence_space(seg) = 0 THEN s ELSE send_no_empty_segment(read, seg)

\* One round while the stream is not at its end: the sender after it, unchanged
\* when there was nothing to send.
FillStep(s) ==
    LET n    == LesserOf(LesserOf(Room(s), MaxPayload), s.stream.buffer_size)
        read == [s EXCEPT !.stream = pop_output(@, n)]
        fin  == eof(read.stream) /\ Room(s) - n > 0
        seg  == Segment(0, FALSE, fin, peek_output(s.stream, n))
    IN  IF length_in_sequence_space(seg) = 0 THEN s ELSE send_no_empty_segment(read, seg)

RECURSIVE FillRounds(_)
FillRounds(s) ==
    IF Room(s) <= 0 THEN s
    ELSE IF eof(s.stream)
    THEN IF s.next_seqno < s.stream.bytes_written + 2
         THEN send_no_empty_segment(s, Segment(0, FALSE, TRUE, <<>>))
         ELSE s
    ELSE IF FillStep(s) = s THEN s ELSE FillRounds(FillStep(s))

fill_window_loop(s) ==
    IF s.next_seqno = 0
    THEN FillRounds(send_no_empty_segment(s, Segment(0, TRUE, FALSE, <<>>)))
    ELSE IF s.next_seqno = s.bytes_in_flight THEN s
    ELSE FillRounds(s)

RECURSIVE PopAcked(_)
PopAcked(s) ==
    IF s.segments_track = <<>> \/ MaxSegAckno(s, Head(s.segments_track)) > s.abs_ackno THEN s
    ELSE PopAcked([s EXCEPT !.segments_track  = Tail(@),
                            !.bytes_in_flight =
                                @ - length_in_sequence_space(Head(s.segments_track))])

\* For every write, end of input and acknowledgment that may follow a reachable
\* state, the loops and the closed forms make the same sender of it.
LoopsAgree ==
    /\ fill_window_loop(snd) = fill_window(snd)
    /\ \A len \in 0 .. StreamLen - written, ended \in BOOLEAN, win \in 0 .. MaxWindow :
           LET s  == [snd EXCEPT !.stream = write(@, Bytes(written, len)), !.window_size = win]
               s1 == IF ended THEN [s EXCEPT !.stream = end_input(@)] ELSE s
           IN  (len > 0 => ~snd.stream.end_input) => fill_window_loop(s1) = fill_window(s1)
    /\ \A abs \in snd.abs_ackno .. snd.next_seqno :
           LET s == [snd EXCEPT !.abs_ackno = abs]
               p == PopAcked(s)
           IN  DropAcked(s) =
                   [p EXCEPT !.timer = IF p.segments_track # <<>> THEN timer_start(@)
                                       ELSE timer_close(@)]

=============================================================================
