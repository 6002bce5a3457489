------------------------------ MODULE TCPSender ------------------------------
(***************************************************************************)
(* The sending half of a connection (libsponge/tcp_sender): it cuts the    *)
(* outgoing ByteStream into segments as far as the peer's window allows,   *)
(* keeps the ones that are not acknowledged, and sends the oldest of them  *)
(* again when the retransmission timer expires.                            *)
(*                                                                         *)
(* fill_window is a loop in the code; here it is the list of segments the  *)
(* loop produces.  Module SenderLoop holds the loop itself, and its run    *)
(* shows that both agree.                                                  *)
(***************************************************************************)
EXTENDS TCPReceiver

CONSTANTS MaxPayload,   \* TCPConfig::MAX_PAYLOAD_SIZE (1000)
          InitRTO       \* the initial retransmission timeout, in ms (1000)

ASSUME SenderAssumption ==
    /\ MaxPayload \in Nat \ {0} /\ InitRTO \in Nat \ {0}
    /\ MaxPayload + 1 < HalfRange      \* 1000 is far below 2^31

-----------------------------------------------------------------------------
\* RetransmissionTimer

NewTimer == [running |-> FALSE, ms_since_running |-> 0, rto |-> InitRTO,
             consecutive_retransmissions |-> 0]

\* timeout(ms) returns TRUE, leaving the clock alone, or advances the clock.
timer_timeout(t, ms) == t.ms_since_running + ms >= t.rto

timer_advance(t, ms) == [t EXCEPT !.ms_since_running = @ + ms]

timer_reset(t, win) ==
    IF ~t.running THEN t
    ELSE [t EXCEPT !.ms_since_running = 0,
                   !.consecutive_retransmissions = @ + 1,
                   !.rto = IF win > 0 THEN 2 * @ ELSE @]

\* Mutant of timer_start: the doubled timeout stays after new data is acknowledged.
timer_start_KeepsRto(t) == [t EXCEPT !.running = TRUE, !.ms_since_running = 0,
                                     !.consecutive_retransmissions = 0]

timer_start(t) == [running |-> TRUE, ms_since_running |-> 0, rto |-> InitRTO,
                   consecutive_retransmissions |-> 0]

timer_close(t) == [t EXCEPT !.running = FALSE, !.consecutive_retransmissions = 0]

-----------------------------------------------------------------------------

NewTCPSender(capacity, isn) ==
    [isn |-> isn, segments_out |-> <<>>, segments_track |-> <<>>, timer |-> NewTimer,
     stream |-> NewByteStream(capacity), next_seqno |-> 0, abs_ackno |-> 0,
     window_size |-> 1, bytes_in_flight |-> 0]

\* send_no_empty_segment for each of segs, whose sequence numbers follow each
\* other from next_seqno and take up space sequence numbers together.
SendSegments(snd, segs, space) ==
    IF segs = <<>> THEN snd
    ELSE [snd EXCEPT !.next_seqno      = @ + space,
                     !.bytes_in_flight = @ + space,
                     !.segments_out    = @ \o segs,
                     !.segments_track  = @ \o segs,
                     !.timer           = IF @.running THEN @ ELSE timer_start(@)]

SendSyn(snd) == SendSegments(snd, <<Segment(wrap(snd.next_seqno, snd.isn), TRUE, FALSE, <<>>)>>, 1)

\* A closed window is probed as if it were one byte wide.
EffectiveWindow(snd) == IF snd.window_size = 0 THEN 1 ELSE snd.window_size

\* Mutant of Room: a closed window stays closed.
Room_NoProbe(snd) == snd.window_size - (snd.next_seqno - snd.abs_ackno)

\* Mutant of Room: forgets what is in flight.
Room_IgnoresFlight(snd) == EffectiveWindow(snd)

\* How many more sequence numbers the window takes; not positive when it is full.
Room(snd) == EffectiveWindow(snd) - (snd.next_seqno - snd.abs_ackno)

\* n bytes of the stream from next_seqno on, cut into payloads; the last segment
\* carries the FIN if it is to be sent now.
CutIntoSegments(snd, n, fin) ==
    LET chunks == (n + MaxPayload - 1) \div MaxPayload
        bytes  == peek_output(snd.stream, n)
        first(i) == (i - 1) * MaxPayload
    IN  IF n = 0
        THEN IF fin THEN <<Segment(wrap(snd.next_seqno, snd.isn), FALSE, TRUE, <<>>)>> ELSE <<>>
        ELSE [i \in 1 .. chunks |->
                 Segment(wrap(snd.next_seqno + first(i), snd.isn), FALSE, fin /\ i = chunks,
                         SubSeq(bytes, first(i) + 1, LesserOf(first(i) + MaxPayload, n)))]

\* Mutant of FinNow: a FIN only rides on data.
FinNow_OnlyWithData(snd, n) ==
    snd.stream.end_input /\ n = snd.stream.buffer_size /\ Room(snd) > n /\ n > 0

\* After the n bytes the stream is at its end, there is room for one more
\* sequence number, and no FIN has been sent.
FinNow(snd, n) ==
    /\ snd.stream.end_input
    /\ n = snd.stream.buffer_size
    /\ Room(snd) > n
    /\ n > 0 \/ snd.next_seqno < snd.stream.bytes_written + 2

\* The while loop of fill_window.
FillLoop(snd) ==
    LET n   == LesserOf(Room(snd), snd.stream.buffer_size)
        fin == FinNow(snd, n)
    IN  IF Room(snd) <= 0
        THEN snd
        ELSE [SendSegments(snd, CutIntoSegments(snd, n, fin), n + (IF fin THEN 1 ELSE 0))
                 EXCEPT !.stream = pop_output(@, n)]

fill_window(snd) ==
    IF snd.next_seqno = 0 THEN FillLoop(SendSyn(snd))
    ELSE IF snd.next_seqno = snd.bytes_in_flight THEN snd
    ELSE FillLoop(snd)

\* One past the last absolute sequence number of an outstanding segment.
MaxSegAckno(snd, seg) ==
    unwrap(seg.seqno, snd.isn, snd.abs_ackno) + length_in_sequence_space(seg)

\* Mutant of AckedPrefix: a segment acknowledged in part is dropped.
AckedPrefix_Partial(snd) ==
    LET track == snd.segments_track
    IN  CHOOSE p \in 0 .. Len(track) :
            /\ \A i \in 1 .. p : unwrap(track[i].seqno, snd.isn, snd.abs_ackno) < snd.abs_ackno
            /\ p < Len(track) => unwrap(track[p + 1].seqno, snd.isn, snd.abs_ackno) >= snd.abs_ackno

\* How many segments at the front of segments_track are fully acknowledged.
AckedPrefix(snd) ==
    LET track == snd.segments_track
    IN  CHOOSE p \in 0 .. Len(track) :
            /\ \A i \in 1 .. p : MaxSegAckno(snd, track[i]) <= snd.abs_ackno
            /\ p < Len(track) => MaxSegAckno(snd, track[p + 1]) > snd.abs_ackno

\* How many sequence numbers the first p segments of track take up.
SpaceOf(track, p) ==
    LET space[i \in 0 .. p] ==
            IF i = 0 THEN 0 ELSE space[i - 1] + length_in_sequence_space(track[i])
    IN  space[p]

\* The while loop of ack_received and the restart of the timer.
DropAcked(snd) ==
    LET p     == AckedPrefix(snd)
        track == snd.segments_track
    IN  [snd EXCEPT
            !.segments_track  = SubSeq(@, p + 1, Len(@)),
            !.bytes_in_flight = @ - SpaceOf(track, p),
            !.timer           = IF p < Len(track) THEN timer_start(@) ELSE timer_close(@)]

ack_received(snd, ack, win) ==
    LET abs == unwrap(ack, snd.isn, snd.abs_ackno)
        s1  == [snd EXCEPT !.window_size = win]
    IN  IF abs > snd.next_seqno THEN snd
        ELSE IF abs <= snd.abs_ackno THEN s1
        ELSE fill_window(DropAcked([s1 EXCEPT !.abs_ackno = abs]))

sender_tick(snd, ms) ==
    IF ~snd.timer.running THEN snd
    ELSE IF ~timer_timeout(snd.timer, ms) THEN [snd EXCEPT !.timer = timer_advance(@, ms)]
    ELSE IF snd.segments_track = <<>> THEN [snd EXCEPT !.timer = timer_close(@)]
    ELSE [snd EXCEPT !.segments_out = Append(@, snd.segments_track[1]),
                     !.timer        = timer_reset(@, snd.window_size)]

send_empty_segment(snd) ==
    [snd EXCEPT !.segments_out =
        Append(@, Segment(wrap(snd.next_seqno, snd.isn), FALSE, FALSE, <<>>))]

=============================================================================
