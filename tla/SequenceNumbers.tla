--------------------------- MODULE SequenceNumbers ---------------------------
(***************************************************************************)
(* The way unwrap is used: one end keeps an absolute checkpoint that only  *)
(* grows (the receiver's next byte in TCPReceiver::segment_received, the   *)
(* last acknowledgment in TCPSender::ack_received); the other end sends    *)
(* absolute numbers near it, wrapped.  The run lets the checkpoint go      *)
(* several times around the sequence space.                                *)
(***************************************************************************)
EXTENDS WrappingIntegers

CONSTANT MaxCheckpoint     \* how far the checkpoint is followed (bound)

ASSUME MaxCheckpointAssumption == MaxCheckpoint \in Nat

VARIABLES isn,          \* the initial sequence number of the stream
          checkpoint,   \* the absolute number the decoding end works from
          header,       \* the last 32-bit number that arrived
          actual,       \* the absolute number it was made from
          decoded       \* what unwrap made of it

vars == <<isn, checkpoint, header, actual, decoded>>

Near(a, b, d) == a - b < d /\ b - a < d

Init == /\ isn \in SeqNo
        /\ checkpoint = 0
        /\ header = isn
        /\ actual = 0
        /\ decoded = 0

\* The window moves: any amount below half the sequence space.
Advance(d) == /\ checkpoint + d <= MaxCheckpoint
              /\ checkpoint' = checkpoint + d
              /\ header' = wrap(checkpoint', isn)
              /\ actual' = checkpoint'
              /\ decoded' = unwrap(header', isn, checkpoint')
              /\ UNCHANGED isn

\* The other end names an absolute number less than half the space away.
Arrive(a) == /\ Near(a, checkpoint, HalfRange)
             /\ header' = wrap(a, isn)
             /\ actual' = a
             /\ decoded' = unwrap(header', isn, checkpoint)
             /\ UNCHANGED <<isn, checkpoint>>

Next == \/ \E d \in 1 .. HalfRange - 1 : Advance(d)
        \/ \E a \in 0 .. MaxCheckpoint + SeqSpace : Arrive(a)

Spec == Init /\ [][Next]_vars

-----------------------------------------------------------------------------

\* Type invariant.
TypeOK == /\ isn \in SeqNo /\ header \in SeqNo
          /\ checkpoint \in Nat /\ actual \in Nat /\ decoded \in Nat

\* unwrap inverts wrap for every number less than half the sequence space from
\* the checkpoint, before, at and after every wrap-around, also where the
\* checkpoint itself is smaller than half the space.
DecodesExactly == decoded = actual

\* wrapping_integers.hh: unwrap returns "the absolute sequence number that wraps
\* to n and is closest to checkpoint", for every 32-bit n, also the ones exactly
\* half the space away and the ones no peer would send now.
Distance(a, b) == IF a >= b THEN a - b ELSE b - a
UnwrapIsClosest ==
    \A n \in SeqNo :
        LET u == unwrap(n, isn, checkpoint)
        IN  /\ wrap(u, isn) = n
            /\ u >= 0
            /\ \A m \in 0 .. checkpoint + SeqSpace :
                   wrap(m, isn) = n => Distance(u, checkpoint) <= Distance(m, checkpoint)

=============================================================================
