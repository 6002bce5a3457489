--------------------------- MODULE BufferedStream ---------------------------
(***************************************************************************)
(* The ByteStream of ByteStreamSys on the BufferList it is really kept in: *)
(* list is the member _buffer, and every operation does to list what       *)
(* byte_stream.cc does.  In ByteStreamSys the same bytes are the sequence  *)
(* s.buffer; the two must never differ.                                    *)
(***************************************************************************)
EXTENDS ByteStreamSys, BufferList

CONSTANT MaxBuffers   \* Buffers the list may hold (bound)

VARIABLE list         \* ByteStream::_buffer

bvars == <<s, sent, got, list>>

BufferedInit == Init /\ list = <<>>

\* A write that finds the stream full still appends a Buffer, an empty one.
BufferedWrite(len) ==
    /\ Len(list) < MaxBuffers
    /\ Write(len)
    /\ LET data == Bytes(sent, len)
       IN  list' = append(list, NewBufferList(SubSeq(data, 1, write_count(s, data))))

BufferedEndInput == EndInput /\ UNCHANGED list

BufferedSetError == SetError /\ UNCHANGED list

\* pop_output(len) on the list.
Popped(len) == remove_prefix(list, LesserOf(len, s.buffer_size))

BufferedRead(len) ==
    /\ Read(len)
    /\ list' = Popped(len)

BufferedPeekAndPop(len, n) ==
    /\ PeekAndPop(len, n)
    /\ list' = Popped(n)

BufferedNext == \/ \E len \in Lengths : BufferedWrite(len)
                \/ BufferedEndInput
                \/ BufferedSetError
                \/ \E len \in Lengths : BufferedRead(len)
                \/ \E len, n \in Lengths : BufferedPeekAndPop(len, n)

BufferedSpec == /\ BufferedInit
                /\ [][BufferedNext]_bvars
                /\ WF_bvars(BufferedRead(1))

-----------------------------------------------------------------------------

\* Whatever the pieces the bytes came in and left by, the BufferList holds the
\* bytes of the stream: its size is the counter _buffer_size that pop_output
\* relies on for remove_prefix not to throw, every peek length gives the
\* stream's next bytes, and no Buffer's offset has passed its storage.
ListAgrees ==
    /\ size(list) = s.buffer_size
    /\ concatenate(list) = s.buffer
    /\ \A len \in 0 .. Capacity + 1 :
           concatenate_n(list, LesserOf(len, s.buffer_size)) = peek_output(s, len)
    /\ \A i \in 1 .. Len(list) :
           list[i].storage # <<>> => list[i].offset < Len(list[i].storage)

=============================================================================
