------------------------------- MODULE TCPPair -------------------------------
(***************************************************************************)
(* Two endpoints that talk over a network that loses, repeats and reorders *)
(* segments.  Each endpoint is a TCPConnection under the event loop of     *)
(* TCPSpongeSocket: the loop's four rules are the actions, and every       *)
(* callback is atomic because one thread runs them.  What a callback puts  *)
(* into segments_out leaves at once (rule 4 runs whenever the queue is not *)
(* empty; the network may delay it anyway).                                *)
(***************************************************************************)
EXTENDS TCPState

CONSTANTS Peer,         \* the two endpoints
          Openers,      \* who may call connect(): sets of endpoints; the others listen
          StreamLen,    \* how many bytes each application writes
          ISN,          \* the initial sequence number of each
          Capacity,     \* capacity of all four byte streams
          NetCap,       \* segments under way in one direction (bound)
          MaxFault      \* segments lost or repeated, and clock ticks that come
                        \* while segments are still under way (bound)

ASSUME PairAssumption ==
    /\ IsFiniteSet(Peer) /\ Cardinality(Peer) = 2
    /\ \A o \in Openers : o \subseteq Peer /\ o # {}
    /\ StreamLen \in [Peer -> Nat] /\ ISN \in [Peer -> SeqNo]
    /\ Capacity \in Nat \ {0} /\ NetCap \in Nat \ {0} /\ MaxFault \in Nat
    /\ Capacity + MaxPayload + 1 < HalfRange      \* 64000 + 1000 is far below 2^31
    \* The network may keep a segment for ever, so a stream must not reach the
    \* same sequence number twice.
    /\ \A p \in Peer : StreamLen[p] + 2 < HalfRange /\ StreamLen[p] + 2 < SizeSpace

VARIABLES opener,   \* the endpoints that call connect()
          conn,     \* the TCPConnection of each endpoint
          net,      \* the segments under way to each endpoint
          faults    \* how many such faults have happened

vars == <<opener, conn, net, faults>>

Other(p) == CHOOSE q \in Peer : q # p

Init == /\ opener \in Openers
        /\ conn = [p \in Peer |-> NewTCPConnection(Capacity, Capacity, ISN[p])]
        /\ net = [p \in Peer |-> {}]
        /\ faults = 0

\* The connection of p becomes c, and what c has queued goes to the network,
\* which loses some of it.  under_way is what was there before; fault is 1 if
\* the cause of this was itself a fault.  Rule 1 no longer listens when a
\* connection is not active: what is under way to it is gone.
Transmit(p, c, under_way, fault) ==
    LET q    == Other(p)
        base == [under_way EXCEPT ![p] = IF c.active THEN @ ELSE {}]
        sent == IF conn[q].active THEN Range(c.segments_out) ELSE {}
    IN  /\ conn' = [conn EXCEPT ![p] = [c EXCEPT !.segments_out = <<>>]]
        /\ UNCHANGED opener
        /\ \E arriving \in SUBSET sent :
               /\ faults' = faults + fault + Cardinality(sent \ arriving)
               /\ faults' <= MaxFault
               /\ net' = [base EXCEPT ![q] = @ \cup arriving]
               /\ Cardinality(net'[q]) <= NetCap

Listening(p) == p \notin opener /\ ~conn[p].receiver.syn

\* The event loop of p runs: it listens, or connect() has sent the SYN.
Running(p) == p \in opener => conn[p].sender.next_seqno > 0

\* The socket has been handed to the application: connect() returns when the
\* state is no longer SYN_SENT, listen_and_accept() when it is none of the
\* states of a handshake.
Connected(p) ==
    LET now == state(conn[p])
    IN  /\ now # Official.LISTEN /\ now # Official.SYN_SENT
        /\ p \notin opener => now # Official.SYN_RCVD

Connect(p) ==
    /\ p \in opener
    /\ conn[p].sender.next_seqno = 0
    /\ Transmit(p, connect(conn[p]), net, 0)

\* Rule 1.  A listening adapter drops everything but a SYN.  A segment that
\* arrives twice stays under way.
Receive(p, seg, again) ==
    LET c == IF Listening(p) /\ ~(seg.syn /\ ~seg.rst) THEN conn[p]
             ELSE segment_received(conn[p], seg)
    IN  /\ Running(p) /\ conn[p].active
        /\ IF again
           THEN Transmit(p, c, net, 1)
           ELSE Transmit(p, c, [net EXCEPT ![p] = @ \ {seg}], 0)

\* Rule 2: the application has written len bytes; no more are taken from it than
\* the stream has room for.
Write(p, len) ==
    LET stream == conn[p].sender.stream
    IN  /\ conn[p].active /\ Connected(p)
        /\ ~stream.end_input
        /\ stream.bytes_written + len <= StreamLen[p]
        /\ len <= remaining_capacity(stream)
        /\ Transmit(p, connection_write(conn[p], Bytes(stream.bytes_written, len)), net, 0)

\* Rule 2, when the application has closed its side.
EndInput(p) ==
    /\ conn[p].active /\ Connected(p)
    /\ ~conn[p].sender.stream.end_input
    /\ conn[p].sender.stream.bytes_written = StreamLen[p]
    /\ Transmit(p, end_input_stream(conn[p]), net, 0)

\* Rule 3: n bytes of the inbound stream reach the application.
Read(p, n) ==
    /\ n <= stream_out(conn[p].receiver).buffer_size
    /\ conn' = [conn EXCEPT ![p].receiver.reassembler.output = pop_output(@, n)]
    /\ UNCHANGED <<opener, net, faults>>

\* After every round of the event loop, while the connection is active.
Tick(p) ==
    /\ Running(p) /\ conn[p].active
    /\ Transmit(p, tick(conn[p], 1), net, IF \A q \in Peer : net[q] = {} THEN 0 ELSE 1)

Next == \E p \in Peer :
            \/ Connect(p)
            \/ \E seg \in net[p], again \in BOOLEAN : Receive(p, seg, again)
            \/ \E len \in 1 .. Capacity : Write(p, len)
            \/ EndInput(p)
            \/ \E n \in 1 .. Capacity : Read(p, n)
            \/ Tick(p)

Spec == Init /\ [][Next]_vars

\* Weak fairness of the rules of the event loop and of its clock: a rule that
\* stays ready is served.  ENABLED is written out, as the condition under which
\* the rule is ready; the clock need not tick while segments are under way.
CanReceive(p) ==
    Running(p) /\ conn[p].active /\ net[p] # {}
CanWrite(p) ==
    /\ conn[p].active /\ Connected(p) /\ ~conn[p].sender.stream.end_input
    /\ conn[p].sender.stream.bytes_written < StreamLen[p]
    /\ remaining_capacity(conn[p].sender.stream) > 0
CanEndInput(p) ==
    /\ conn[p].active /\ Connected(p) /\ ~conn[p].sender.stream.end_input
    /\ conn[p].sender.stream.bytes_written = StreamLen[p]
CanTick(p) ==
    /\ Running(p) /\ conn[p].active
    /\ \A q \in Peer : net[q] = {}
    /\ \/ conn[p].sender.timer.running
       \/ conn[p].time_since_last_segment_received < LingerTime

Fairness ==
    \A p \in Peer :
        /\ p \in opener => <>(conn[p].sender.next_seqno > 0)
        /\ []<>~CanReceive(p) \/ []<><<\E seg \in net[p] : Receive(p, seg, FALSE)>>_vars
        /\ []<>~CanWrite(p) \/ []<><<\E len \in 1 .. Capacity : Write(p, len)>>_vars
        /\ []<>~CanEndInput(p) \/ []<><<EndInput(p)>>_vars
        /\ []<>(stream_out(conn[p].receiver).buffer_size = 0) \/ []<><<Read(p, 1)>>_vars
        /\ []<>~CanTick(p) \/ []<><<Tick(p)>>_vars

FairSpec == Spec /\ Fairness

-----------------------------------------------------------------------------

\* What an application can read are the bytes the other one wrote, in order and
\* each once, whatever the network does.
StreamsIntact ==
    \A p \in Peer :
        LET out == stream_out(conn[p].receiver)
        IN  /\ out.buffer = Bytes(out.bytes_read, out.bytes_written - out.bytes_read)
            /\ out.bytes_written <= conn[Other(p)].sender.stream.bytes_read
            /\ out.end_input => /\ conn[Other(p)].sender.stream.end_input
                                /\ out.bytes_written = StreamLen[Other(p)]

\* The absolute acknowledgment number a receiver has reached.
Reached(c) == IF c.receiver.syn
              THEN stream_out(c.receiver).bytes_written + 1
                       + (IF stream_out(c.receiver).end_input THEN 1 ELSE 0)
              ELSE 0

\* No sender believes more to be received than is, and no receiver has more
\* than was sent: old acknowledgments and wrapped numbers are never misread.
AcksAreTruthful ==
    \A p \in Peer :
        /\ conn[p].sender.abs_ackno <= Reached(conn[Other(p)])
        /\ Reached(conn[Other(p)]) <= conn[p].sender.next_seqno

\* An endpoint that ends without an error has had its whole stream received by
\* the other one, and has received the other's whole stream.
CleanEnd(c) == ~c.active /\ ~c.sender.stream.error
CleanEndIsComplete ==
    \A p \in Peer :
        CleanEnd(conn[p]) =>
            /\ Reached(conn[Other(p)]) = StreamLen[p] + 2
            /\ stream_out(conn[p].receiver).end_input
            /\ stream_out(conn[p].receiver).bytes_written = StreamLen[Other(p)]

\* The states of the two endpoints fit together and to RFC 793: every state has
\* a name or is one of the few between the named ones; and unless one of them
\* was reset, whoever believes its SYN or its FIN acknowledged has a peer whose
\* state says that it came, and whoever has the other's FIN has a peer whose
\* state says that it was sent.
StatesAgree ==
    \A p \in Peer :
        LET mine   == state(conn[p])
            theirs == state(conn[Other(p)])
        IN  /\ mine \in Range(Official) \cup Between
            /\ Official.RESET \notin {mine, theirs} =>
                   /\ mine.sender \in {"SYN_ACKED", "FIN_SENT"} => theirs.receiver # "LISTEN"
                   /\ mine.sender = "FIN_ACKED" => theirs.receiver = "FIN_RECV"
                   /\ mine.receiver = "FIN_RECV" => theirs.sender \in {"SYN_SENT", "FIN_SENT", "FIN_ACKED"}

\* Nobody waits for an event that cannot come: when both applications have
\* closed, nothing is under way and no timer runs, both streams are complete
\* and acknowledged, and at most the lingering is left.
QuietMeansFinished ==
    /\ \A p \in Peer : /\ conn[p].active
                       /\ conn[p].sender.stream.end_input
                       /\ net[p] = {}
                       /\ ~conn[p].sender.timer.running
    => \A p \in Peer : check_inbound_ended(conn[p]) /\ check_outbound_ended(conn[p])

\* Both streams arrive complete, with their end, and both endpoints stop.
Delivered == <>(\A p \in Peer : /\ eof(stream_out(conn[p].receiver))
                                /\ stream_out(conn[p].receiver).bytes_read = StreamLen[Other(p)])
BothStop == <>[](\A p \in Peer : ~conn[p].active)

=============================================================================
