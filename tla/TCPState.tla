------------------------------ MODULE TCPState ------------------------------
(***************************************************************************)
(* The summary of a connection (libsponge/tcp_helpers/tcp_state): what the *)
(* socket layer compares to decide whether a connection is established.    *)
(* A state is not stored anywhere: it is derived from the sender, the      *)
(* receiver and two flags, and the names of RFC 793 are some of its        *)
(* values.                                                                 *)
(***************************************************************************)
EXTENDS TCPConnection

\* state_summary(const TCPReceiver &)
receiver_summary(rcv) ==
    CASE stream_out(rcv).error                            -> "ERROR"
      [] ~stream_out(rcv).error /\ ~has_ackno(rcv)        -> "LISTEN"
      [] OTHER -> IF stream_out(rcv).end_input THEN "FIN_RECV" ELSE "SYN_RECV"

\* Mutant of sender_summary: a FIN that is still in flight counts as acknowledged.
sender_summary_IgnoresFlight(snd) ==
    CASE snd.stream.error                                            -> "ERROR"
      [] ~snd.stream.error /\ snd.next_seqno = 0                     -> "CLOSED"
      [] ~snd.stream.error /\ snd.next_seqno > 0 /\ snd.next_seqno = snd.bytes_in_flight
                                                                     -> "SYN_SENT"
      [] OTHER -> IF ~eof(snd.stream) \/ snd.next_seqno < snd.stream.bytes_written + 2
                  THEN "SYN_ACKED" ELSE "FIN_ACKED"

\* state_summary(const TCPSender &)
sender_summary(snd) ==
    CASE snd.stream.error                                            -> "ERROR"
      [] ~snd.stream.error /\ snd.next_seqno = 0                     -> "CLOSED"
      [] ~snd.stream.error /\ snd.next_seqno > 0 /\ snd.next_seqno = snd.bytes_in_flight
                                                                     -> "SYN_SENT"
      [] OTHER -> IF ~eof(snd.stream) \/ snd.next_seqno < snd.stream.bytes_written + 2
                  THEN "SYN_ACKED"
                  ELSE IF snd.bytes_in_flight > 0 THEN "FIN_SENT" ELSE "FIN_ACKED"

\* TCPState(sender, receiver, active, linger): a dead connection never lingers.
state(c) ==
    [sender   |-> sender_summary(c.sender),
     receiver |-> receiver_summary(c.receiver),
     active   |-> c.active,
     linger   |-> c.active /\ c.linger_after_streams_finish]

\* TCPState(State): the tuples that have a name.
Tuple(snd, rcv, active, linger) ==
    [sender |-> snd, receiver |-> rcv, active |-> active, linger |-> linger]

Official ==
    [LISTEN      |-> Tuple("CLOSED",    "LISTEN",   TRUE,  TRUE),
     SYN_RCVD    |-> Tuple("SYN_SENT",  "SYN_RECV", TRUE,  TRUE),
     SYN_SENT    |-> Tuple("SYN_SENT",  "LISTEN",   TRUE,  TRUE),
     ESTABLISHED |-> Tuple("SYN_ACKED", "SYN_RECV", TRUE,  TRUE),
     CLOSE_WAIT  |-> Tuple("SYN_ACKED", "FIN_RECV", TRUE,  FALSE),
     LAST_ACK    |-> Tuple("FIN_SENT",  "FIN_RECV", TRUE,  FALSE),
     CLOSING     |-> Tuple("FIN_SENT",  "FIN_RECV", TRUE,  TRUE),
     FIN_WAIT_1  |-> Tuple("FIN_SENT",  "SYN_RECV", TRUE,  TRUE),
     FIN_WAIT_2  |-> Tuple("FIN_ACKED", "SYN_RECV", TRUE,  TRUE),
     TIME_WAIT   |-> Tuple("FIN_ACKED", "FIN_RECV", TRUE,  TRUE),
     RESET       |-> Tuple("ERROR",     "ERROR",    FALSE, FALSE),
     CLOSED      |-> Tuple("FIN_ACKED", "FIN_RECV", FALSE, FALSE)]

\* The tuples without a name that a connection passes through.  The first three:
\* an acknowledgment overtook the peer's SYN.  The next two: the peer's FIN
\* overtook the acknowledgment of the own SYN, which some earlier segment
\* carried.  The last: the own stream is at its end but the window has kept its
\* FIN back, so the connection will linger although the peer closed first.
Between ==
    {Tuple("SYN_ACKED", "LISTEN",   TRUE, TRUE),
     Tuple("FIN_SENT",  "LISTEN",   TRUE, TRUE),
     Tuple("FIN_ACKED", "LISTEN",   TRUE, TRUE),
     Tuple("SYN_SENT",  "FIN_RECV", TRUE, FALSE),
     Tuple("SYN_SENT",  "FIN_RECV", TRUE, TRUE),
     Tuple("SYN_ACKED", "FIN_RECV", TRUE, TRUE)}

=============================================================================
