-------------------------- MODULE TCPSenderProofs --------------------------
(***************************************************************************)
(* The sender of TCPSenderSys is correct for every stream, capacity,       *)
(* payload size, initial sequence number and window.  The inductive        *)
(* invariant is Good and NotStalled of TCPLemmas: where each outstanding   *)
(* segment starts, as a function from the positions of segments_track to   *)
(* absolute sequence numbers, is what the properties leave implicit.       *)
(***************************************************************************)
EXTENDS TCPSenderSys, TCPLemmas

\* The inductive invariant.
IInv == /\ Good(snd, written, ISN, Capacity) /\ NotStalled(snd, written)
        /\ written <= StreamLen /\ snd.window_size <= MaxWindow

\* The constants of the lemmas about the sender.
LEMMA SysConstants ==
    /\ ISN \in SeqNo /\ Capacity \in Nat /\ StreamLen \in Nat /\ MaxWindow \in Nat
    /\ 0 .. MaxWindow \subseteq 0 .. WindowLimit
BY SenderSysAssumption, SenderAssumption, HalfRangeAssumption DEF WindowLimit

\* The constructor's sender.
LEMMA InitInv == Init => IInv
<1> SUFFICES ASSUME Init PROVE IInv
  OBVIOUS
<1>1. /\ written = 0 /\ snd = NewTCPSender(Capacity, ISN) /\ Capacity \in Nat /\ ISN \in SeqNo
      /\ 0 <= StreamLen /\ 1 <= MaxWindow
  BY SenderSysAssumption DEF Init
<1>2. Good(snd, 0, ISN, Capacity) /\ NotStalled(snd, 0) /\ snd.window_size = 1
  BY <1>1, NewSender
<1> QED BY <1>1, <1>2, Zenon DEF IInv

\* What a step of the system shows.
Kept == /\ Stepped(snd, snd', written', ISN, Capacity)
        /\ written' <= StreamLen /\ snd'.window_size <= MaxWindow

\* Every step keeps the inductive invariant and sends within the window.
LEMMA NextInv == IInv /\ Next => Kept
<1> SUFFICES ASSUME IInv, Next PROVE Kept
  OBVIOUS
<1> DEFINE r == Drain(snd)
<1>0. ISN \in SeqNo /\ Capacity \in Nat
  BY SysConstants, Zenon
<1>1. /\ Good(snd, written, ISN, Capacity) /\ NotStalled(snd, written)
      /\ written <= StreamLen /\ snd.window_size <= MaxWindow
  BY Zenon DEF IInv
<1>2. /\ Good(r, written, ISN, Capacity) /\ SameButOut(snd, r) /\ r.segments_out = <<>> /\ NotStalled(r, written)
      /\ r = Drained
  <2>1. r = Drained
    BY Zenon DEF Drain, Drained
  <2> QED BY <1>0, <1>1, <2>1, DrainGood, Zenon
<1> HIDE DEF r
<1>3. /\ r.stream = snd.stream /\ r.next_seqno = snd.next_seqno /\ r.abs_ackno = snd.abs_ackno
      /\ r.timer = snd.timer /\ r.window_size = snd.window_size
  BY <1>2, Zenon DEF SameButOut
<1>4. \A t, x : Stepped(r, t, x, ISN, Capacity) => Stepped(snd, t, x, ISN, Capacity)
  BY <1>3, Zenon DEF Stepped
<1>5. written \in Nat /\ (~snd.stream.end_input => r.stream.end_input = FALSE)
  BY <1>1, <1>3 DEF Good, Sending, InOrder
<1>6. CASE Connect
  <2>1. snd' = fill_window(r) /\ written' = written
    BY <1>2, <1>6, Zenon DEF Connect
  <2>2. Stepped(snd, fill_window(r), written, ISN, Capacity) /\ Filled(r, fill_window(r))
    BY <1>0, <1>2, <1>3, FillStep, Zenon
  <2> QED BY <1>1, <1>3, <2>1, <2>2, Zenon DEF Filled, Kept
<1>7. ASSUME NEW len \in 1 .. StreamLen, Write(len) PROVE Kept
  <2> DEFINE c == write_count(r.stream, Bytes(written, len))
             x == written + c
             u == Given(r, Bytes(written, len))
  <2>1. /\ snd' = fill_window(u) /\ written' = x /\ r.stream.end_input = FALSE
        /\ written + len <= StreamLen
    BY <1>2, <1>3, <1>5, <1>7, Zenon DEF Write, Given
  <2>2. len \in Nat /\ Len(Bytes(written, len)) = len
    BY DEF Bytes
  <2>3. Good(u, x, ISN, Capacity) /\ u.next_seqno = r.next_seqno /\ SameButBytes(r, u)
    <3>1. Open(r, written, ISN, Capacity)
      BY <1>2, <2>1, Zenon DEF Open
    <3>2. TookData(r, Given(r, Bytes(written, len)), Bytes(written, len), written, ISN, Capacity)
      BY <1>0, <2>2, <3>1, WriteStep, Zenon
    <3> QED BY <3>2, Zenon DEF TookData
  <2>4. c <= len
    <3> DEFINE m == remaining_capacity(r.stream)
    <3>1. m \in Nat
      BY <1>0, <1>2 DEF Good, Sending, InOrder, remaining_capacity
    <3>2. c = LesserOf(m, len)
      BY <2>2, Zenon DEF write_count
    <3> HIDE DEF m
    <3> QED BY <2>2, <3>1, <3>2 DEF LesserOf
  <2>5. c \in Nat
    <3>1. remaining_capacity(r.stream) \in Nat
      BY <1>0, <1>2 DEF Good, Sending, InOrder, remaining_capacity
    <3> QED BY <2>2, <3>1 DEF write_count, LesserOf
  <2> HIDE DEF c
  <2>6. x <= StreamLen
    BY <1>5, <2>1, <2>2, <2>4, <2>5, SysConstants
  <2> HIDE DEF u, x
  <2>7. Stepped(snd, fill_window(u), x, ISN, Capacity) /\ Filled(u, fill_window(u))
    BY <1>0, <1>3, <2>3, FillStep, Zenon
  <2> QED BY <1>1, <1>3, <2>1, <2>3, <2>6, <2>7, Zenon DEF Filled, Kept, SameButBytes
<1>8. CASE EndInput
  <2> DEFINE u == [r EXCEPT !.stream = end_input(@)]
  <2>1. snd' = fill_window(u) /\ written' = written /\ r.stream.end_input = FALSE
    BY <1>2, <1>5, <1>8, Zenon DEF EndInput
  <2>2. Good(u, written, ISN, Capacity) /\ u.next_seqno = r.next_seqno /\ SameButBytes(r, u)
    BY <1>0, <1>2, <2>1, EndStep, Zenon
  <2> HIDE DEF u
  <2>3. Stepped(snd, fill_window(u), written, ISN, Capacity) /\ Filled(u, fill_window(u))
    BY <1>0, <1>3, <2>2, FillStep, Zenon
  <2> QED BY <1>1, <1>3, <2>1, <2>2, <2>3, Zenon DEF Filled, Kept, SameButBytes
<1>9. ASSUME NEW b \in 0 .. StreamLen + 3, NEW win \in 0 .. MaxWindow, AckReceived(b, win)
      PROVE  Kept
  <2>1. b \in Nat /\ win \in 0 .. WindowLimit /\ win <= MaxWindow
    BY SysConstants
  <2>2. /\ b - r.abs_ackno < HalfRange /\ r.abs_ackno - b < HalfRange
        /\ snd' = ack_received(r, wrap(b, ISN), win) /\ written' = written
    BY <1>2, <1>3, <1>9, Zenon DEF AckReceived
  <2>3. /\ Stepped(r, ack_received(r, wrap(b, ISN), win), written, ISN, Capacity)
        /\ Heeded(r, ack_received(r, wrap(b, ISN), win), b, win)
    BY <1>0, <1>2, <2>1, <2>2, AckStep, Zenon
  <2>4. snd'.window_size \in {snd.window_size, win}
    BY <1>3, <2>2, <2>3, Zenon DEF Heeded
  <2>5. snd'.window_size <= MaxWindow
    BY <1>1, <2>1, <2>4
  <2> QED BY <1>1, <1>4, <2>2, <2>3, <2>5, Zenon DEF Kept
<1>10. ASSUME NEW ms \in 1 .. InitRTO, Tick(ms) PROVE Kept
  <2>1. ms \in Nat
    OBVIOUS
  <2>2. snd' = sender_tick(r, ms) /\ written' = written
    BY <1>2, <1>3, <1>10, Zenon DEF Tick
  <2>3. Stepped(r, sender_tick(r, ms), written, ISN, Capacity) /\ SameButClock(r, sender_tick(r, ms))
    BY <1>0, <1>2, <2>1, TickStep, Zenon
  <2> QED BY <1>1, <1>3, <1>4, <2>2, <2>3, Zenon DEF Kept, SameButClock
<1>11. CASE SendEmpty
  <2>1. snd' = send_empty_segment(r) /\ written' = written
    BY <1>2, <1>11, Zenon DEF SendEmpty
  <2>2. Stepped(r, send_empty_segment(r), written, ISN, Capacity) /\ SameButOut(r, send_empty_segment(r))
    BY <1>0, <1>2, EmptyStep, Zenon
  <2> QED BY <1>1, <1>3, <1>4, <2>1, <2>2, Zenon DEF Kept, SameButOut
<1> QED BY <1>6, <1>7, <1>8, <1>9, <1>10, <1>11, Zenon DEF Next

\* The inductive invariant holds in every reachable state.
LEMMA Invariance == Spec => []IInv
<1>1. Init => IInv
  BY InitInv
<1>2. IInv /\ [Next]_vars => IInv'
  <2> SUFFICES ASSUME IInv, [Next]_vars PROVE IInv'
    OBVIOUS
  <2>1. CASE Next
    BY <2>1, NextInv, Zenon DEF Kept, Stepped, IInv
  <2>2. CASE UNCHANGED vars
    BY <2>2 DEF vars, IInv
  <2> QED BY <2>1, <2>2
<1> QED BY <1>1, <1>2, PTL DEF Spec

\* Under the inductive invariant the outstanding segments are contiguous.
LEMMA InvContiguous == IInv => OutstandingContiguous
<1> SUFFICES ASSUME IInv PROVE OutstandingContiguous
  OBVIOUS
<1> DEFINE track == snd.segments_track  n == Len(track)  next == snd.next_seqno
           ack == snd.abs_ackno  e == snd.stream.end_input  fl == snd.bytes_in_flight
<1>1. /\ next \in Nat /\ ack \in Nat /\ ack <= next /\ next <= ack + WindowLimit /\ snd.isn = ISN
      /\ Flight(track, next, ack, fl, written, e, ISN)
  BY DEF IInv, Good, Core, Shape
<1>2. PICK st : Tracked(track, st, next, ack, fl, written, e, ISN)
  BY <1>1, FlightTracked, SysConstants, Zenon
<1>3. /\ Chain(track, st, written, e, ISN) /\ st[n + 1] = next /\ st[1] <= ack
      /\ n > 0 => ack < st[2]
      /\ n = 0 => ack = next
      /\ fl = next - st[1] /\ next - st[1] < HalfRange
  BY <1>2, Zenon DEF Tracked
<1>4. n \in Nat
  BY <1>3 DEF Chain
<1>5. ASSUME NEW i \in 1 .. n
      PROVE  Start(track[i]) = st[i] /\ MaxSegAckno(snd, track[i]) = st[i + 1]
  <2>1. StartsAt(track, st, ack, i, ISN)
    BY <1>1, <1>3, FlightStarts, SysConstants, Zenon
  <2> QED BY <1>1, <2>1, Zenon DEF StartsAt, Start, MaxSegAckno
<1> HIDE DEF n
<1>6. ASSUME NEW i \in 1 .. n
      PROVE  MaxSegAckno(snd, track[i]) = IF i = n THEN next ELSE Start(track[i + 1])
  <2>1. CASE i = n
    BY <1>3, <1>5, <2>1, Zenon
  <2>2. CASE i # n
    <3>1. i + 1 \in 1 .. n
      BY <1>4, <2>2
    <3> QED BY <1>5, <2>2, <3>1, Zenon
  <2> QED BY <2>1, <2>2
<1>7. n > 0 => Start(track[1]) <= ack /\ ack < MaxSegAckno(snd, track[1]) /\ fl = next - Start(track[1])
  <2> SUFFICES ASSUME n > 0
               PROVE  Start(track[1]) <= ack /\ ack < MaxSegAckno(snd, track[1]) /\ fl = next - Start(track[1])
    OBVIOUS
  <2>1. 1 \in 1 .. n /\ 1 + 1 = 2
    BY <1>4
  <2>2. Start(track[1]) = st[1] /\ MaxSegAckno(snd, track[1]) = st[2]
    BY <1>5, <2>1, Zenon
  <2> QED BY <1>3, <2>2, Zenon
<1>8. n = 0 => fl = 0 /\ ack = next
  <2> SUFFICES ASSUME n = 0 PROVE fl = 0 /\ ack = next
    OBVIOUS
  <2>1. track = <<>>
    <3>1. track \in Seq(Segs)
      BY <1>3 DEF Chain
    <3> QED BY <3>1 DEF n
  <2> QED BY <1>1, <2>1, FlightEmpty, SysConstants, Zenon
<1> QED BY <1>6, <1>7, <1>8, Zenon DEF OutstandingContiguous, n

\* A segment that is in its place, near the acknowledgment number, is where
\* SegmentsInPlace wants it.
LEMMA PlacedStart ==
    ASSUME NEW seg, NEW a, NearAck(a, snd.abs_ackno), snd.abs_ackno \in Nat,
           Placed(seg, a, written, snd.stream.end_input, ISN)
    PROVE  /\ Start(seg) = a
           /\ seg.payload = Bytes(Start(seg) - 1, Len(seg.payload))
           /\ seg.syn => Start(seg) = 0
           /\ seg.fin => /\ snd.stream.end_input
                         /\ Start(seg) + Len(seg.payload) = written + 1
<1>1. ISN \in SeqNo
  BY SenderSysAssumption
<1>2. a \in Nat /\ a - snd.abs_ackno < HalfRange /\ snd.abs_ackno - a < HalfRange
  BY Zenon DEF NearAck
<1>3. unwrap(wrap(a, ISN), ISN, snd.abs_ackno) = a
  BY <1>1, <1>2, UnwrapInvertsWrap, Zenon
<1>4. Start(seg) = a
  BY <1>3, Zenon DEF Placed, Start
<1> QED BY <1>4, Zenon DEF Placed

\* Under the inductive invariant every segment is in its place.
LEMMA InvInPlace == IInv => SegmentsInPlace
<1> SUFFICES ASSUME IInv PROVE SegmentsInPlace
  OBVIOUS
<1> DEFINE track == snd.segments_track  out == snd.segments_out  next == snd.next_seqno
           ack == snd.abs_ackno  e == snd.stream.end_input  fl == snd.bytes_in_flight
<1>1. /\ next \in Nat /\ ack \in Nat /\ ack <= next /\ next <= ack + WindowLimit
      /\ Flight(track, next, ack, fl, written, e, ISN) /\ Out(out, ack, next, written, e, ISN)
  BY Zenon DEF IInv, Good, Core
<1>2. PICK st : Tracked(track, st, next, ack, fl, written, e, ISN)
  BY <1>1, FlightTracked, SysConstants, Zenon
<1>3. /\ Chain(track, st, written, e, ISN) /\ st[Len(track) + 1] = next /\ st[1] <= ack
      /\ next - st[1] < HalfRange
  BY <1>2, Zenon DEF Tracked
<1>4. ASSUME NEW i \in 1 .. Len(track) PROVE NearAck(st[i], ack) /\ Placed(track[i], st[i], written, e, ISN)
  <2>1. StartsAt(track, st, ack, i, ISN)
    BY <1>1, <1>3, FlightStarts, SysConstants, Zenon
  <2>2. Placed(track[i], st[i], written, e, ISN)
    BY <1>3, Zenon DEF Chain
  <2> QED BY <2>1, <2>2, Zenon DEF StartsAt
<1>5. \A i \in 1 .. Len(out) : \E a : NearAck(a, ack) /\ Placed(out[i], a, written, e, ISN)
  BY <1>1, Zenon DEF Out, InReach
<1>6. track \in Seq(Segs) /\ out \in Seq(Segs)
  BY <1>1, <1>3, Zenon DEF Chain, Out
<1>7. DOMAIN track = 1 .. Len(track) /\ DOMAIN out = 1 .. Len(out)
  BY <1>6
<1>8. ASSUME NEW seg \in Range(track) \cup Range(out)
      PROVE  \E a : NearAck(a, ack) /\ Placed(seg, a, written, e, ISN)
  <2>1. CASE seg \in Range(track)
    <3>1. PICK i \in 1 .. Len(track) : seg = track[i]
      BY <1>7, <2>1, Zenon DEF Range
    <3> QED BY <1>4, <3>1, Zenon
  <2>2. CASE seg \in Range(out)
    <3>1. PICK i \in 1 .. Len(out) : seg = out[i]
      BY <1>7, <2>2, Zenon DEF Range
    <3> QED BY <1>5, <3>1, Zenon
  <2> QED BY <2>1, <2>2
<1>9. ASSUME NEW seg \in Range(track) \cup Range(out)
      PROVE  /\ seg.payload = Bytes(Start(seg) - 1, Len(seg.payload))
             /\ seg.syn => Start(seg) = 0
             /\ seg.fin => /\ snd.stream.end_input
                           /\ Start(seg) + Len(seg.payload) = written + 1
  <2>1. PICK a : NearAck(a, ack) /\ Placed(seg, a, written, e, ISN)
    BY <1>8, Zenon
  <2> QED BY <1>1, <2>1, PlacedStart, Zenon
<1> QED BY <1>9, Zenon DEF SegmentsInPlace

\* Under the inductive invariant the sender has its type.
LEMMA InvType == IInv => TypeOK
<1> SUFFICES ASSUME IInv PROVE TypeOK
  OBVIOUS
<1> DEFINE s == snd.stream  next == snd.next_seqno  ack == snd.abs_ackno  fl == snd.bytes_in_flight
<1>1. /\ next \in Nat /\ ack \in Nat /\ ack <= next /\ next <= ack + WindowLimit
      /\ snd.window_size \in 0 .. WindowLimit /\ snd.window_size <= MaxWindow
      /\ Flight(snd.segments_track, next, ack, fl, written, s.end_input, ISN)
      /\ TimerOK(snd.timer, snd.segments_track) /\ Sending(s, next, written, Capacity)
  BY Zenon DEF IInv, Good, Core
<1>2. PICK st : Tracked(snd.segments_track, st, next, ack, fl, written, s.end_input, ISN)
  BY <1>1, FlightTracked, SysConstants, Zenon
<1>3. fl = next - st[1] /\ st[1] \in Nat /\ st[1] <= ack
  BY <1>2, Zenon DEF Tracked
<1>a. snd.window_size \in 0 .. MaxWindow
  BY <1>1, SysConstants
<1>4. /\ InOrder(s, Capacity) /\ s.bytes_written = written /\ written \in 0 .. StreamLen
      /\ s.bytes_read \in Nat /\ s.buffer_size \in Nat /\ written = s.bytes_read + s.buffer_size
      /\ \/ next = 0
         \/ next = s.bytes_read + 1
         \/ next = written + 2
  BY <1>1, SysConstants DEF Sending, InOrder, IInv
<1>5. Capacity \in Nat /\ StreamLen \in Nat /\ s.bytes_written <= StreamLen
  BY <1>4, SenderSysAssumption
<1>6. s \in ByteStreams(0 .. StreamLen - 1, Capacity)
  BY <1>4, <1>5, InOrderType, Zenon
<1>7. next \in 0 .. StreamLen + 2
  <2> DEFINE b == s.bytes_read  c == s.buffer_size
  <2>1. b \in Nat /\ c \in Nat /\ written = b + c /\ (next = 0 \/ next = b + 1 \/ next = written + 2)
    BY <1>4
  <2> HIDE DEF b, c, next
  <2> QED BY <1>4, <1>5, <2>1
<1>8. ack \in 0 .. next /\ fl \in 0 .. next
  BY <1>1, <1>3
<1>9. snd.timer.running \in BOOLEAN /\ snd.timer.consecutive_retransmissions \in Nat
  BY <1>1, Zenon DEF TimerOK
<1> QED BY <1>6, <1>7, <1>8, <1>9, <1>a, Zenon DEF TypeOK

\* For every stream, capacity, payload size, initial sequence number and window:
\* whatever acknowledgments arrive and whenever the timer expires, segments_track
\* holds exactly the sequence numbers from the segment the acknowledgment number
\* points into up to next_seqno, bytes_in_flight counts them, and every segment
\* sent carries the bytes, SYN and FIN that belong at its sequence number.
THEOREM SenderCorrect == Spec => []SenderInv
<1>1. IInv => SenderInv
  BY InvType, InvContiguous, InvInPlace, Zenon DEF SenderInv
<1> QED BY <1>1, Invariance, PTL

\* The retransmission timer runs exactly while segments_track is not empty, and
\* is never left beyond its timeout.
THEOREM TimerCorrect == Spec => []TimerGuardsOutstanding
<1>1. IInv => TimerGuardsOutstanding
  BY Zenon DEF IInv, Good, Core, TimerOK, TimerGuardsOutstanding
<1> QED BY <1>1, Invariance, PTL

\* A connected sender with bytes or a FIN to send always has something
\* outstanding: fill_window probes a closed window, and ack_received fills the
\* window again whenever it empties segments_track.
THEOREM NoStall == Spec => []NeverStalls
<1>1. IInv => NeverStalls
  BY Zenon DEF IInv, NotStalled, NeverStalls
<1> QED BY <1>1, Invariance, PTL

\* No step moves next_seqno beyond the acknowledgment number plus the window.
THEOREM WindowCorrect == Spec => WindowRespected
<1> DEFINE A == snd'.next_seqno > snd.next_seqno =>
                    snd'.next_seqno <= snd'.abs_ackno + EffectiveWindow(snd')
<1>1. IInv /\ [Next]_vars => [A]_vars
  <2> SUFFICES ASSUME IInv, Next, snd'.next_seqno > snd.next_seqno
               PROVE  snd'.next_seqno <= snd'.abs_ackno + EffectiveWindow(snd')
    OBVIOUS
  <2>1. /\ Stepped(snd, snd', written', ISN, Capacity)
    BY NextInv DEF Kept
  <2>2. snd.next_seqno \in Nat
    BY Zenon DEF IInv, Good, Core
  <2>3. ~(snd.next_seqno > snd.next_seqno)
    BY <2>2
  <2> QED BY <2>1, <2>3, Zenon DEF Stepped
<1> QED BY <1>1, Invariance, PTL DEF Spec, WindowRespected

=============================================================================
