----------------------------- MODULE Reassembly -----------------------------
(***************************************************************************)
(* What a reassembler promises, without its data structures.  Of a stream  *)
(* of StreamLen bytes it has accepted a set of indices.  A pushed range    *)
(* adds exactly its indices below consumed + Capacity: nothing that fits   *)
(* is lost, nothing that does not fit is kept.  The reader can take the    *)
(* bytes up to the first index missing, and the stream ends when the end   *)
(* is known and no byte before it is missing.                              *)
(***************************************************************************)
EXTENDS Integers

CONSTANTS StreamLen, Capacity

\* The state: accepted, the indices of the bytes received and kept, read or not;
\* consumed, how many bytes the reader has taken; end_known, some substring
\* carried the end of the stream; ended, the reader is told that the stream ends.
VARIABLE abs

AbsInit == abs = [accepted |-> {}, consumed |-> 0, end_known |-> FALSE, ended |-> FALSE]

\* The state after a push of the range of len indices at index.
AbsPush(a, index, len, fin) ==
    LET kept  == a.accepted \cup ((index .. index + len - 1) \cap (0 .. a.consumed + Capacity - 1))
        known == a.end_known \/ fin
    IN  [accepted  |-> kept,
         consumed  |-> a.consumed,
         end_known |-> known,
         ended     |-> a.ended \/ (known /\ 0 .. StreamLen - 1 \subseteq kept)]

\* How many bytes the reader can take, and the state after it has taken n of them.
CanRead(a, n) == a.consumed .. a.consumed + n - 1 \subseteq a.accepted
AbsRead(a, n) == [a EXCEPT !.consumed = @ + n]

AbsNext == \/ \E index, len \in 0 .. StreamLen, fin \in BOOLEAN : abs' = AbsPush(abs, index, len, fin)
           \/ \E n \in 1 .. Capacity : CanRead(abs, n) /\ abs' = AbsRead(abs, n)

AbsSpec == AbsInit /\ [][AbsNext]_abs

=============================================================================
