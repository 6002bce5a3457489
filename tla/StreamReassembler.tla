-------------------------- MODULE StreamReassembler --------------------------
(***************************************************************************)
(* The stream reassembler (libsponge/stream_reassembler): substrings of a  *)
(* byte stream arrive in any order, overlapping and repeated; the bytes    *)
(* that continue the stream go to the output ByteStream at once, the rest  *)
(* waits in _unassemble_buffer, a map from start index to bytes.           *)
(*                                                                         *)
(* insert_pair and write_output are loops over the ordered map in the      *)
(* code.  They are written here without recursion, by the set of entries   *)
(* each loop consumes; module ReassemblerLoops holds the loops themselves  *)
(* and its run shows that both forms agree in every reachable state.       *)
(***************************************************************************)
EXTENDS ByteStream, FiniteSets, FiniteSetsExt, Functions

CONSTANT SizeSpace    \* 2^64: index + length is computed in a size_t

ASSUME SizeSpaceAssumption == SizeSpace \in Nat \ {0}

NewStreamReassembler(capacity) ==
    [output |-> NewByteStream(capacity), capacity |-> capacity,
     unassemble_buffer |-> <<>>, next_pos |-> 0, unassembled_bytes |-> 0,
     eof_index |-> 0, eof_appear_sign |-> FALSE]

\* size_t addition of two size_t values.
SizeAdd(a, b) == IF a + b >= SizeSpace THEN a + b - SizeSpace ELSE a + b

\* One past the last index of the entry that starts at k.
SegEnd(buf, k) == k + Len(buf[k])

\* The indices of the bytes in the map.
Held(buf) == UNION {k .. SegEnd(buf, k) - 1 : k \in DOMAIN buf}

\* Mutant of Sizes: the bytes of a replaced entry are not counted off.
Sizes_Forgotten(buf, keys) == 0

\* How many bytes the entries with these keys hold, an index in two entries
\* counted twice.
Sizes(buf, keys) == Cardinality(UNION {{k} \X DOMAIN buf[k] : k \in keys})

\* std::map::emplace: an existing entry with this key stays as it is.
Emplace(buf, k, data) ==
    [i \in DOMAIN buf \cup {k} |-> IF i \in DOMAIN buf THEN buf[i] ELSE data]

\* Mutant of FirstUnacceptable: forgets the bytes the reader has not taken.
FirstUnacceptable_IgnoresOutput(r) == r.next_pos + r.capacity

\* Mutant of FirstUnacceptable: the bytes that wait take room too, so that bytes
\* inside the window are dropped.
FirstUnacceptable_CountsWaiting(r) ==
    r.next_pos + r.capacity - r.output.buffer_size - r.unassembled_bytes

\* One past the last index the capacity allows (first_unacceptable_idx).
FirstUnacceptable(r) == r.next_pos + r.capacity - r.output.buffer_size

\* Mutant of NewIndex: an entry that begins before index is not looked at.
NewIndex_IgnoresPredecessor(r, index) == GreaterOf(index, r.next_pos)

\* Where the new bytes of a substring at index start: after the entry that
\* begins at or before index, or after what is already assembled.
NewIndex(r, index) ==
    LET pre == {k \in DOMAIN r.unassemble_buffer : k <= index}
    IN  IF pre # {}
        THEN GreaterOf(index, SegEnd(r.unassemble_buffer, Max(pre)))
        ELSE GreaterOf(index, r.next_pos)

\* The entries after index that start in new_index .. end - 1, split into those
\* the new bytes cover and the one that reaches further than they do.
Covered(buf, index, new_index, end) ==
    {k \in DOMAIN buf : index < k /\ new_index <= k /\ k < end /\ SegEnd(buf, k) <= end}

Overhanging(buf, index, new_index, end) ==
    {k \in DOMAIN buf : index < k /\ new_index <= k /\ k < end /\ SegEnd(buf, k) > end}

\* The bytes new_index .. cut - 1 of a substring that starts at index.
Trim(data, index, new_index, cut) == SubSeq(data, new_index - index + 1, cut - index)

\* Store data, which starts at new_index: straight to the output when it is the
\* next byte of the stream, the rest to the map.
Place(r, new_index, data) ==
    LET direct == new_index = r.next_pos
        n      == IF direct THEN write_count(r.output, data) ELSE 0
        r1     == IF direct THEN [r EXCEPT !.output   = write(@, data),
                                           !.next_pos = @ + n]
                            ELSE r
    IN  IF direct /\ n = Len(data)
        THEN r1
        ELSE [r1 EXCEPT
                !.unassemble_buffer = Emplace(@, new_index + n, SubSeq(data, n + 1, Len(data))),
                !.unassembled_bytes = @ + Len(data)]

\* Merge a substring with the map: drop what is already there, replace the
\* entries it covers, cut it before an entry that reaches further and at the
\* capacity, and place what is left.  Two early returns: nothing is new, or
\* nothing fits.
insert_pair(r, data, index) ==
    LET buf       == r.unassemble_buffer
        end       == SizeAdd(index, Len(data))
        new_index == NewIndex(r, index)
    IN  IF new_index >= end \/ FirstUnacceptable(r) <= new_index
        THEN r
        ELSE LET covered == Covered(buf, index, new_index, end)
                 over    == Overhanging(buf, index, new_index, end)
                 stop    == IF over # {} THEN Min(over) ELSE end
                 cut     == LesserOf(FirstUnacceptable(r), stop)
                 r1      == [r EXCEPT
                               !.unassemble_buffer = Restrict(@, DOMAIN @ \ covered),
                               !.unassembled_bytes = @ - Sizes(buf, covered)]
             IN  IF stop = new_index THEN r1
                 ELSE Place(r1, new_index, Trim(data, index, new_index, cut))

\* The first index at or after next_pos whose byte has not arrived.
Frontier(buf, next_pos) ==
    CHOOSE f \in {next_pos} \cup {SegEnd(buf, k) : k \in DOMAIN buf} :
        /\ next_pos <= f
        /\ next_pos .. f - 1 \subseteq Held(buf)
        /\ f \notin Held(buf)

\* The byte of the map at an index.
HeldByte(buf, i) ==
    LET k == CHOOSE k \in DOMAIN buf : k <= i /\ i < SegEnd(buf, k)
    IN  buf[k][i - k + 1]

\* Move the entries that continue the stream to the output, as far as it has
\* room; an entry that fits only in part keeps its tail, under its new index.
write_output(r) ==
    LET buf   == r.unassemble_buffer
        p     == r.next_pos
        n     == LesserOf(Frontier(buf, p) - p, remaining_capacity(r.output))
        q     == p + n
        tails == {k \in DOMAIN buf : k < q /\ q < SegEnd(buf, k)}
        kept  == Restrict(buf, {k \in DOMAIN buf : k >= q})
    IN  IF n = 0
        THEN r
        ELSE [r EXCEPT
                !.output            = write(@, [i \in 1 .. n |-> HeldByte(buf, p + i - 1)]),
                !.unassemble_buffer = IF tails = {} THEN kept
                                      ELSE Emplace(kept, q, LET k == Min(tails)
                                                            IN SubSeq(buf[k], q - k + 1, Len(buf[k]))),
                !.unassembled_bytes = @ - n,
                !.next_pos          = q]

\* Mutant of NoteEof: the end is declared when it is announced, not reached.
NoteEof_TooEarly(r, end, fin) ==
    IF fin THEN [r EXCEPT !.eof_index = end, !.eof_appear_sign = TRUE,
                          !.output = end_input(@)]
           ELSE r

\* The last two statements of push_substring.
NoteEof(r, end, fin) ==
    LET r1 == IF fin THEN [r EXCEPT !.eof_index = end, !.eof_appear_sign = TRUE] ELSE r
    IN  IF r1.eof_appear_sign /\ r1.next_pos >= r1.eof_index
        THEN [r1 EXCEPT !.output = end_input(@)]
        ELSE r1

push_substring(r, data, index, fin) ==
    NoteEof(write_output(insert_pair(r, data, index)), SizeAdd(index, Len(data)), fin)

=============================================================================
