--------------------------- MODULE ReassemblerSys ---------------------------
(***************************************************************************)
(* A StreamReassembler between a network that delivers any substring of    *)
(* one byte stream, in any order and any number of times, and a reader of  *)
(* its output.  The byte at index i of the stream is the number i.         *)
(***************************************************************************)
EXTENDS StreamReassembler

CONSTANTS StreamLen,   \* length of the whole stream
          Capacity     \* capacity given to the constructor

ASSUME ReassemblerAssumption ==
    /\ StreamLen \in Nat
    /\ Capacity \in Nat
    /\ StreamLen < SizeSpace

VARIABLE r             \* the reassembler

Init == r = NewStreamReassembler(Capacity)

\* The substrings of the stream that may arrive.  The flag that marks the end of
\* the stream comes with its last byte or, alone, after it.
Substring(index, len, fin) ==
    /\ index + len <= StreamLen
    /\ fin => index + len = StreamLen

\* A substring arrives.
Push(index, len, fin) ==
    /\ Substring(index, len, fin)
    /\ r' = push_substring(r, Bytes(index, len), index, fin)

\* The owner of the output stream takes up to len bytes.
Read(len) ==
    /\ r.output.buffer_size > 0
    /\ r' = [r EXCEPT !.output = pop_output(@, len)]

Next == \/ \E index, len \in 0 .. StreamLen, fin \in BOOLEAN : Push(index, len, fin)
        \/ \E len \in 1 .. Capacity : Read(len)

Spec == Init /\ [][Next]_r

-----------------------------------------------------------------------------

\* Type invariant.
TypeOK ==
    /\ r.output \in ByteStreams(0 .. StreamLen - 1, Capacity)
    /\ r.capacity = Capacity
    /\ DOMAIN r.unassemble_buffer \subseteq 0 .. StreamLen - 1
    /\ \A k \in DOMAIN r.unassemble_buffer :
           r.unassemble_buffer[k] \in Seq(0 .. StreamLen - 1)
    /\ r.next_pos \in 0 .. StreamLen
    /\ r.unassembled_bytes \in 0 .. Capacity
    /\ r.eof_index \in 0 .. StreamLen
    /\ r.eof_appear_sign \in BOOLEAN

\* The output holds the bytes of the stream from bytes_read to next_pos - 1, each
\* once and in order, and every entry of the map holds the bytes of its indices:
\* cutting, merging and moving substrings never shifts or mixes their bytes.
BytesInPlace ==
    /\ r.output.bytes_written = r.next_pos
    /\ r.output.buffer = Bytes(r.output.bytes_read, r.next_pos - r.output.bytes_read)
    /\ \A k \in DOMAIN r.unassemble_buffer :
           r.unassemble_buffer[k] = Bytes(k, Len(r.unassemble_buffer[k]))

\* The entries of the map are not empty, start after the next byte of the stream
\* (what could be delivered has been delivered), and do not overlap.
EntriesDisjoint ==
    LET buf == r.unassemble_buffer
    IN  /\ \A k \in DOMAIN buf : k > r.next_pos /\ Len(buf[k]) > 0
        /\ \A j, k \in DOMAIN buf : j < k => SegEnd(buf, j) <= k

\* stream_reassembler.hh: the capacity "limits both the bytes that have been
\* reassembled, and those that have not yet been reassembled", and the count of
\* the latter, which closes connections, counts each stored byte once.
MemoryBounded ==
    /\ r.unassembled_bytes = Cardinality(Held(r.unassemble_buffer))
    /\ r.output.buffer_size + r.unassembled_bytes <= Capacity
    /\ \A i \in Held(r.unassemble_buffer) : i < r.output.bytes_read + Capacity

\* The output is ended exactly when the end of the stream has been announced and
\* every byte before it has been written.
EndsAtTheEnd == r.output.end_input <=> (r.eof_appear_sign /\ r.next_pos = StreamLen)

\* What every merge relies on and leaves behind: the bytes in place, the entries
\* disjoint, and the end of the stream announced neither early nor late.
ReassemblerInv == TypeOK /\ BytesInPlace /\ EntriesDisjoint /\ EndsAtTheEnd

\* What Reassembly sees of a reassembler.
View(r0) ==
    [accepted  |-> 0 .. r0.next_pos - 1 \cup Held(r0.unassemble_buffer),
     consumed  |-> r0.output.bytes_read,
     end_known |-> r0.eof_appear_sign,
     ended     |-> r0.output.end_input]
Abs == INSTANCE Reassembly WITH abs <- View(r)

\* Call for call the reassembler does what Reassembly says: whichever substring
\* push_substring() is given next, it keeps exactly the indices that fit, none
\* lost and none too many, and learns and announces the end as it should; and a
\* read of any size takes only accepted bytes, as many as are there or were asked.
\* A push that keeps nothing leaves r as it is, which no formula about the steps
\* that change r could notice: this one speaks about the calls that may come.
KeepsExactly ==
    /\ \A index, len \in 0 .. StreamLen, fin \in BOOLEAN :
           Substring(index, len, fin) =>
               View(push_substring(r, Bytes(index, len), index, fin))
                   = Abs!AbsPush(View(r), index, len, fin)
    /\ \A len \in 1 .. Capacity :
           LET n == LesserOf(len, r.output.buffer_size)
           IN  /\ Abs!CanRead(View(r), n)
               /\ View([r EXCEPT !.output = pop_output(@, len)]) = Abs!AbsRead(View(r), n)

\* The reassembler implements Reassembly: its behaviours, seen through View, start
\* with nothing accepted and are pushes and reads of Reassembly.  Which push a step
\* is, is left open here (a push that loses bytes is a push of fewer of them);
\* KeepsExactly says that it is the one the code was called with.
Refines == Abs!AbsSpec

=============================================================================
