---------------------------- MODULE SpongeSocket ----------------------------
(***************************************************************************)
(* One endpoint, Me, under the whole of TCPSpongeSocket: the thread that   *)
(* runs the event loop, the owner's thread, and the pair of local stream   *)
(* sockets between them.  The other endpoint and the network are those of  *)
(* TCPPair, without losses.  The owner connects, writes its bytes, shuts   *)
(* its side down, reads up to the end and waits for the connection to      *)
(* close; or it destroys the socket at any moment.  So do the applications *)
(* of the sponge except webget, which closes its descriptor before it      *)
(* waits: close(), and the EBADF that every later shutdown() of that       *)
(* descriptor throws in either thread, are not modelled.                   *)
(***************************************************************************)
EXTENDS TCPPair, EventLoop

CONSTANTS Me,            \* the endpoint under the socket
          LocalSockets   \* kinds of socket pairs: the bytes each direction holds
                         \* (cap), and how many must be free for poll to call it
                         \* writable (room)

ASSUME SocketAssumption ==
    /\ Me \in Peer
    /\ \A kind \in LocalSockets : kind.cap \in Nat /\ kind.room \in 1 .. kind.cap

VARIABLE sock    \* the members of TCPSpongeSocket, its threads and local sockets

svars == <<opener, conn, net, faults, sock>>

Them == Other(Me)

Nothing == [ready |-> {}, hup |-> {}]

SocketInit ==
    /\ Init /\ opener = {Me}
    /\ \E kind \in LocalSockets :
        sock = [owner |-> "new",     \* new, connecting, using, joining, gone
                up    |-> <<>>, up_shut   |-> FALSE,   \* owner to thread
                down  |-> <<>>, down_shut |-> FALSE,   \* thread to owner
                kind  |-> kind,
                wrote |-> 0, got |-> <<>>, saw_eof |-> FALSE,
                pc      |-> "wait",  \* wait, serve, tick, done, terminated
                rules   |-> 1 .. 4, revents |-> Nothing, timeout |-> FALSE,
                eof     |-> FALSE,   \* FDWrapper::_eof of _thread_data
                abort   |-> FALSE, inbound_shutdown |-> FALSE, outbound_shutdown |-> FALSE]

Inbound == stream_out(conn[Me].receiver)

\* The connection of Me becomes c; nothing leaves before rule 4.
Becomes(c) == conn' = [conn EXCEPT ![Me] = c]

-----------------------------------------------------------------------------
\* The event loop

\* Mutant of Interest: rule 3 too only while the connection is active.
Interest_OnlyActive(c, r, shut) ==
    CASE r = 1 -> c.active
      [] r = 2 -> c.active /\ ~shut /\ remaining_capacity(c.sender.stream) > 0
      [] r = 3 -> /\ c.active
                  /\ \/ stream_out(c.receiver).buffer_size > 0
                     \/ eof(stream_out(c.receiver)) /\ ~sock.inbound_shutdown
      [] r = 4 -> c.segments_out # <<>>

Interest(c, r, shut) ==
    CASE r = 1 -> c.active
      [] r = 2 -> c.active /\ ~shut /\ remaining_capacity(c.sender.stream) > 0
      [] r = 3 -> \/ stream_out(c.receiver).buffer_size > 0
                  \/ /\ eof(stream_out(c.receiver)) \/ stream_out(c.receiver).error
                     /\ ~sock.inbound_shutdown
      [] r = 4 -> c.segments_out # <<>>

\* What the descriptor of a rule is ready for.
Ready(r) ==
    CASE r = 1 -> net[Me] # {}
      [] r = 2 -> sock.up # <<>> \/ sock.up_shut
      [] r = 3 -> sock.kind.cap - Len(sock.down) >= sock.kind.room
      [] r = 4 -> TRUE

HungUp(r) == r \in {2, 3} /\ sock.up_shut /\ sock.down_shut

\* Time passes only when neither thread nor the network has anything to do, so
\* that no timeout is spurious (bound).
Quiet == net[Me] = {} /\ net[Them] = {} /\ conn[Me].segments_out = <<>>

\* The end of _tcp_loop.  In connect() the thread is started then, whatever the
\* reason; in _tcp_main the owner's end is shut down both ways, which does not
\* throw as long as the owner has not closed it, and the TCPConnection is
\* destroyed, whose RST, if it was active, goes nowhere.
EndLoop(c) ==
    IF sock.owner = "connecting"
    THEN /\ sock' = [sock EXCEPT !.owner = "using", !.pc = "wait"]
         /\ Becomes(c)
    ELSE /\ sock' = [sock EXCEPT !.pc = "done", !.up_shut = TRUE, !.down_shut = TRUE]
         /\ Becomes(DestroyTCPConnection(c))

\* wait_next_event up to poll.  Rule 2 is the one whose eof cancels it.
WaitNextEvent ==
    LET ended == Ended(sock.rules, IF sock.eof THEN {2} ELSE {})
        c     == IF 2 \in ended THEN end_input_stream(conn[Me]) ELSE conn[Me]
        shut  == sock.outbound_shutdown \/ 2 \in ended
        asked == Polled(sock.rules \ ended, {r \in 1 .. 4 : Interest(c, r, shut)})
        found == Revents(asked, {r \in asked : Ready(r)}, {r \in asked : HungUp(r)})
    IN  /\ sock.pc = "wait" /\ sock.owner \notin {"new", "gone"}
        /\ sock.owner = "connecting" => state(conn[Me]) = Official.SYN_SENT
        /\ UNCHANGED <<opener, net, faults>>
        /\ IF asked = {} THEN EndLoop(c)
           ELSE /\ AllServed(found) => Quiet
                /\ sock' = [sock EXCEPT
                               !.pc      = IF AllServed(found) THEN "tick" ELSE "serve",
                               !.timeout = AllServed(found),
                               !.rules   = @ \ ended,
                               !.revents = found,
                               !.outbound_shutdown = shut]
                /\ Becomes(c)

\* The condition of connect()'s loop: the state is no longer SYN_SENT.
ConnectReturns ==
    /\ sock.owner = "connecting" /\ sock.pc = "wait"
    /\ state(conn[Me]) # Official.SYN_SENT
    /\ EndLoop(conn[Me])
    /\ UNCHANGED <<opener, net, faults>>

\* sock after rule r has been served and changed the members as upd does.
After(r, upd) ==
    LET left == Served(sock.revents, r)
    IN  [upd EXCEPT !.revents = left, !.pc = IF AllServed(left) THEN "tick" ELSE "serve"]

Rule1 ==
    \E seg \in net[Me] :
        /\ Becomes(segment_received(conn[Me], seg))
        /\ net' = [net EXCEPT ![Me] = IF conn'[Me].active THEN @ \ {seg} ELSE {}]
        /\ sock' = After(1, sock)

\* read(limit) takes what there is up to the limit; nothing there means eof.
Rule2 ==
    LET len == LesserOf(remaining_capacity(conn[Me].sender.stream), Len(sock.up))
        c   == connection_write(conn[Me], SubSeq(sock.up, 1, len))
    IN  /\ Becomes(IF len = 0 THEN end_input_stream(c) ELSE c)
        /\ sock' = After(2, [sock EXCEPT !.up  = SubSeq(@, len + 1, Len(@)),
                                         !.eof = len = 0,
                                         !.outbound_shutdown = len = 0])
        /\ UNCHANGED net

\* Mutant of Drained: everything that was peeked, however much was written.
Drained_All(len) == pop_output(Inbound, Inbound.buffer_size)

\* The inbound stream after write() took len bytes of it.
Drained(len) == pop_output(Inbound, len)

\* Mutant of NoMoreInbound: the input has ended, whatever is still buffered.
NoMoreInbound_Buffered(stream) == stream.end_input \/ stream.error

NoMoreInbound(stream) == eof(stream) \/ stream.error

\* A hangup alone cancels rule 3.  A write to a socket that is shut down raises
\* EPIPE (and SIGPIPE): an exception that leaves the thread.  Writing no bytes
\* is no write for the kernel.
Rule3 ==
    LET len    == LesserOf(Inbound.buffer_size, sock.kind.cap - Len(sock.down))
        end    == NoMoreInbound(Drained(len))
        hangup == 3 \in sock.revents.hup
        broken == ~hangup /\ sock.down_shut /\ Inbound.buffer_size > 0
    IN  /\ UNCHANGED net
        /\ sock' = IF hangup THEN After(3, [sock EXCEPT !.rules = @ \ {3}])
                   ELSE IF broken THEN [sock EXCEPT !.pc = "terminated"]
                   ELSE After(3, [sock EXCEPT !.down = @ \o peek_output(Inbound, len),
                                              !.down_shut = @ \/ end,
                                              !.inbound_shutdown = @ \/ end])
        /\ IF hangup \/ broken THEN UNCHANGED conn
           ELSE Becomes([conn[Me] EXCEPT !.receiver.reassembler.output = Drained(len)])

Rule4 ==
    /\ net' = [net EXCEPT ![Them] = IF conn[Them].active
                                    THEN @ \cup Range(conn[Me].segments_out) ELSE {}]
    /\ Becomes([conn[Me] EXCEPT !.segments_out = <<>>])
    /\ sock' = After(4, sock)

Serve ==
    /\ sock.pc = "serve"
    /\ UNCHANGED <<opener, faults>>
    /\ LET r == NextServed(sock.revents)
       IN  \/ r = 1 /\ Rule1
           \/ r = 2 /\ Rule2
           \/ r = 3 /\ Rule3
           \/ r = 4 /\ Rule4

\* The rest of a round of _tcp_loop: _abort ends it, else the clock ticks.
LoopTick ==
    LET c == tick(conn[Me], IF sock.timeout THEN 1 ELSE 0)
    IN  /\ sock.pc = "tick"
        /\ UNCHANGED <<opener, net, faults>>
        /\ IF sock.abort THEN EndLoop(conn[Me])
           ELSE /\ sock' = [sock EXCEPT !.pc = "wait", !.timeout = FALSE]
                /\ Becomes(IF conn[Me].active THEN c ELSE conn[Me])

-----------------------------------------------------------------------------
\* The owner's thread

SocketConnect ==
    /\ sock.owner = "new"
    /\ Becomes(connect(conn[Me]))
    /\ sock' = [sock EXCEPT !.owner = "connecting"]

OwnerWrites ==
    /\ sock.owner = "using"
    /\ sock.wrote < StreamLen[Me] /\ ~sock.up_shut /\ Len(sock.up) < sock.kind.cap
    /\ sock' = [sock EXCEPT !.up = Append(@, sock.wrote), !.wrote = @ + 1]
    /\ UNCHANGED conn

\* shutdown(SHUT_WR)
OwnerShutsDown ==
    /\ sock.owner = "using"
    /\ sock.wrote = StreamLen[Me] /\ ~sock.up_shut
    /\ sock' = [sock EXCEPT !.up_shut = TRUE]
    /\ UNCHANGED conn

OwnerReads ==
    /\ sock.owner = "using" /\ ~sock.saw_eof
    /\ sock.down # <<>> \/ sock.down_shut
    /\ sock' = [sock EXCEPT !.got = @ \o sock.down, !.down = <<>>, !.saw_eof = sock.down = <<>>]
    /\ UNCHANGED conn

\* Mutant of wait_until_closed: nothing is shut down before the join.
wait_until_closed_OnlyJoins ==
    /\ sock.owner = "using" /\ sock.saw_eof
    /\ sock' = [sock EXCEPT !.owner = "joining"]
    /\ UNCHANGED conn

\* wait_until_closed(), called at the end of the input and with the descriptor
\* open, as tcp_udp, tcp_ipv4, tcp_ip_ethernet and lab7 do, whose copying loops
\* end with the input.
wait_until_closed ==
    /\ sock.owner = "using" /\ sock.saw_eof
    /\ sock' = [sock EXCEPT !.owner = "joining", !.up_shut = TRUE, !.down_shut = TRUE]
    /\ UNCHANGED conn

\* The destructor, while the thread is joinable.
Destroy ==
    /\ sock.owner = "using"
    /\ sock' = [sock EXCEPT !.owner = "joining", !.abort = TRUE]
    /\ UNCHANGED conn

\* join() returns.
Join ==
    /\ sock.owner = "joining" /\ sock.pc = "done"
    /\ sock' = [sock EXCEPT !.owner = "gone"]
    /\ UNCHANGED conn

OwnerMoves == /\ UNCHANGED <<opener, net, faults>>
              /\ \/ SocketConnect
                 \/ OwnerWrites
                 \/ OwnerShutsDown
                 \/ OwnerReads
                 \/ wait_until_closed
                 \/ Join

OwnerDestroys == Destroy /\ UNCHANGED <<opener, net, faults>>

-----------------------------------------------------------------------------
\* The other endpoint

\* It aborts the connection, with a RST that arrives.
PeerResets ==
    /\ conn[Them].active /\ Connected(Them)
    /\ LET c == send_rst_segment(passive_close(conn[Them]))
       IN  /\ conn' = [conn EXCEPT ![Them] = [c EXCEPT !.segments_out = <<>>]]
           /\ net' = [net EXCEPT ![Me] = IF conn[Me].active
                                         THEN @ \cup Range(c.segments_out) ELSE @,
                                 ![Them] = {}]
    /\ UNCHANGED <<opener, faults>>

PeerReceives == \E seg \in net[Them] : Receive(Them, seg, FALSE)
PeerWrites   == Write(Them, StreamLen[Them])
PeerTicks    == Quiet /\ Tick(Them)

\* Between poll and the end of the round the thread looks at the network only to
\* take one segment of those poll saw: what the other endpoint does meanwhile it
\* may as well do before or after the round.
PeerActs == /\ sock.pc \in {"wait", "done"}
            /\ UNCHANGED sock
            /\ \/ PeerResets
               \/ PeerReceives
               \/ PeerWrites
               \/ EndInput(Them)
               \/ PeerTicks

SocketNext == WaitNextEvent \/ ConnectReturns \/ Serve \/ LoopTick
              \/ OwnerMoves \/ OwnerDestroys \/ PeerActs

\* Fairness.  Both threads are scheduled, and poll returns after its timeout;
\* the other machine has a processor and a clock of its own, the network
\* delivers, and the other application writes and closes.  ENABLED is written
\* out.  Nothing forces the owner to destroy the socket or the other endpoint to
\* reset the connection.
ThreadStep ==
    \/ sock'.pc # sock.pc \/ sock'.revents # sock.revents
    \/ sock.owner = "connecting" /\ sock'.owner = "using"

CanThread ==
    \/ sock.pc \in {"serve", "tick"}
    \/ sock.pc = "wait" /\ sock.owner \notin {"new", "gone"} /\ Quiet
    \/ sock.pc = "wait" /\ sock.owner \notin {"new", "gone"} /\ conn[Me].segments_out # <<>>
    \/ sock.pc = "wait" /\ sock.owner \notin {"new", "gone"} /\ net[Me] # {} /\ conn[Me].active

CanOwner ==
    \/ sock.owner = "new"
    \/ sock.owner = "using" /\ (sock.down # <<>> \/ sock.down_shut)
    \/ sock.owner = "using" /\ sock.wrote < StreamLen[Me] /\ Len(sock.up) < sock.kind.cap /\ ~sock.up_shut
    \/ sock.owner = "using" /\ sock.wrote = StreamLen[Me] /\ ~sock.up_shut
    \/ sock.owner = "joining" /\ sock.pc = "done"

SocketFairness ==
    /\ []<>~CanThread \/ []<><<ThreadStep>>_svars
    /\ []<>~CanOwner \/ []<><<OwnerMoves>>_svars
    /\ <>[]~CanReceive(Them) \/ []<><<net[Them] \ net'[Them] # {}>>_svars
    /\ <>[](~CanWrite(Them) /\ ~CanEndInput(Them))
    /\ <>[]~(Quiet /\ CanTick(Them)) \/ []<><<PeerTicks>>_svars

SocketSpec == SocketInit /\ [][SocketNext]_svars /\ SocketFairness

-----------------------------------------------------------------------------

\* Rule 3 raises no exception, which would leave the thread of the connection and
\* end the whole process: it never writes bytes to a local socket that its own
\* shutdown, or that of an owner at the end of its input, has closed since poll
\* called it writable.  There is one case in which it does: a RST came while the
\* inbound stream held more than the local socket took, and rule 3 has shut that
\* down with bytes left.  (An owner that shuts its end down earlier, with bytes
\* still coming, or closes it, is outside this model.)
RunnerSurvives == sock.pc = "terminated" => Inbound.error /\ sock.inbound_shutdown

\* What the owner has read, what is in the local socket and what is in the
\* inbound stream are together the bytes the other endpoint sent, in order,
\* whatever the sizes of the writes in between; and when the owner reads the end
\* of its input, it has them all, unless the connection failed.
OwnerSeesStream ==
    /\ sock.got \o sock.down \o Inbound.buffer = Bytes(0, Inbound.bytes_written)
    /\ sock.saw_eof => sock.got = Bytes(0, StreamLen[Them]) \/ Inbound.error

\* The event loop has run out of rules to poll, and neither an error nor the
\* owner's destructor ended the connection: then nothing is left behind, and
\* the other endpoint has everything the owner wrote and its end.
ExitLeavesNothing ==
    sock.pc = "done" /\ ~sock.abort /\ ~conn[Me].sender.stream.error =>
        /\ conn[Me].segments_out = <<>> /\ ~conn[Me].active
        /\ sock.up = <<>> /\ Inbound.buffer = <<>>
        /\ Reached(conn[Them]) = sock.wrote + 2

\* connect() returns, and so does the join of wait_until_closed() and of the
\* destructor: no race of the owner's shutdown or _abort with a round of the
\* event loop leaves the thread polling for ever.  (An exception
\* in the thread ends the process, and with it the wait.)
OwnerNeverHangs ==
    /\ sock.owner = "connecting" ~> sock.owner = "using"
    /\ sock.owner = "joining" ~> sock.owner = "gone" \/ sock.pc = "terminated"

=============================================================================
