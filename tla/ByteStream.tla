----------------------------- MODULE ByteStream -----------------------------
(***************************************************************************)
(* The flow-controlled in-memory byte stream (libsponge/byte_stream): its  *)
(* members as a record, its methods as operators on that record.  The      *)
(* stream is the building block of the reassembler, the sender and the     *)
(* receiver, so the operators carry no state of their own.                 *)
(*                                                                         *)
(* A byte is any value; the modules that use the stream write the position *)
(* of a byte in the whole stream as its value, so that a lost, duplicated  *)
(* or reordered byte is visible.                                           *)
(***************************************************************************)
EXTENDS Integers, Sequences

LesserOf(a, b)  == IF a <= b THEN a ELSE b
GreaterOf(a, b) == IF a >= b THEN a ELSE b

\* The bytes first .. first + len - 1 of a stream, each named by its position.
Bytes(first, len) == [i \in 1 .. len |-> first + i - 1]

ByteStreams(Byte, Capacity) ==
    [capacity      : {Capacity},
     bytes_written : Nat,
     bytes_read    : Nat,
     buffer        : Seq(Byte),
     buffer_size   : 0 .. Capacity,
     end_input     : BOOLEAN,
     error         : BOOLEAN]

NewByteStream(capacity) ==
    [capacity |-> capacity, bytes_written |-> 0, bytes_read |-> 0,
     buffer |-> <<>>, buffer_size |-> 0, end_input |-> FALSE, error |-> FALSE]

remaining_capacity(s) == s.capacity - s.buffer_size

\* How much of data a call of write accepts (its return value).  The code does
\* not look at _end_input: the writer itself must stop after end_input().
write_count(s, data) == LesserOf(remaining_capacity(s), Len(data))

\* Mutant of write: compares with the capacity instead of the room left.
write_IgnoresBuffered(s, data) ==
    LET count == LesserOf(s.capacity, Len(data))
    IN  [s EXCEPT !.buffer        = @ \o SubSeq(data, 1, count),
                  !.buffer_size   = @ + count,
                  !.bytes_written = @ + count]

write(s, data) ==
    LET count == write_count(s, data)
    IN  [s EXCEPT !.buffer        = @ \o SubSeq(data, 1, count),
                  !.buffer_size   = @ + count,
                  !.bytes_written = @ + count]

peek_output(s, len) == SubSeq(s.buffer, 1, LesserOf(len, s.buffer_size))

\* Mutant of pop_output: removes the bytes and forgets _buffer_size.
pop_output_KeepsSize(s, len) ==
    LET count == LesserOf(len, s.buffer_size)
    IN  [s EXCEPT !.buffer     = SubSeq(@, count + 1, Len(@)),
                  !.bytes_read = @ + count]

pop_output(s, len) ==
    LET count == LesserOf(len, s.buffer_size)
    IN  [s EXCEPT !.buffer      = SubSeq(@, count + 1, Len(@)),
                  !.bytes_read  = @ + count,
                  !.buffer_size = @ - count]

end_input(s) == [s EXCEPT !.end_input = TRUE]

set_error(s) == [s EXCEPT !.error = TRUE]

\* Mutant of eof: the input has ended, whatever is still buffered.
eof_IgnoresBuffered(s) == s.end_input

\* Mutant of eof: an empty stream never ends.
eof_NeedsData(s) == s.end_input /\ s.buffer_size = 0 /\ s.bytes_read > 0

eof(s) == s.end_input /\ s.buffer_size = 0

=============================================================================
