---------------------------- MODULE ByteStreamSys ----------------------------
(***************************************************************************)
(* One ByteStream between a writer and a reader.  Both live in the same    *)
(* thread, so every method call is atomic; what varies is the order and    *)
(* the sizes of the calls.  The writer offers the next bytes of its source *)
(* and goes on after the ones write() accepted; the reader takes bytes     *)
(* with read(), or peeks and pops only what it could pass on, as the event *)
(* loops of the socket and of the applications do.                         *)
(***************************************************************************)
EXTENDS ByteStream

CONSTANTS Capacity,     \* the capacity given to the constructor
          SourceLen,    \* bytes the writer has to write (bound)
          WriterStops   \* TRUE: no write() after end_input(), as the callers in
                        \* tcp_sponge_socket.cc arrange; FALSE: any caller

ASSUME ByteStreamAssumption ==
    Capacity \in Nat /\ SourceLen \in Nat /\ WriterStops \in BOOLEAN

VARIABLES s,      \* the stream
          sent,   \* how many bytes write() has reported as accepted
          got     \* what the reader has received, in order

vars == <<s, sent, got>>

Init == /\ s = NewByteStream(Capacity)
        /\ sent = 0
        /\ got = <<>>

Write(len) ==
    /\ WriterStops => ~s.end_input
    /\ sent + len <= SourceLen
    /\ s' = write(s, Bytes(sent, len))
    /\ sent' = sent + write_count(s, Bytes(sent, len))
    /\ UNCHANGED got

EndInput == /\ s' = end_input(s)
            /\ UNCHANGED <<sent, got>>

SetError == /\ s' = set_error(s)
            /\ UNCHANGED <<sent, got>>

\* std::string read(len): copy, then pop, the next len bytes.
Read(len) ==
    /\ got' = got \o peek_output(s, len)
    /\ s' = pop_output(s, len)
    /\ UNCHANGED sent

\* Peek at len bytes, pass n of them on, and pop exactly those n.
PeekAndPop(len, n) ==
    /\ n <= Len(peek_output(s, len))
    /\ got' = got \o SubSeq(peek_output(s, len), 1, n)
    /\ s' = pop_output(s, n)
    /\ UNCHANGED sent

\* Lengths reach one past the capacity: write and pop must clip them.
Lengths == 1 .. Capacity + 1

Next == \/ \E len \in Lengths : Write(len)
        \/ EndInput
        \/ SetError
        \/ \E len \in Lengths : Read(len)
        \/ \E len, n \in Lengths : PeekAndPop(len, n)

Spec == Init /\ [][Next]_vars

\* The reader keeps reading as long as there is something to read.
FairSpec == Spec /\ WF_vars(Read(1))

-----------------------------------------------------------------------------

\* Type invariant.
TypeOK == /\ s \in ByteStreams(0 .. SourceLen - 1, Capacity)
          /\ sent \in 0 .. SourceLen
          /\ got \in Seq(0 .. SourceLen - 1)

\* What the reader has, followed by what is buffered, is exactly the bytes that
\* write() said it accepted, in order, and the three counters agree with it:
\* clipped writes, clipped pops and partial pops lose and invent nothing.
StreamIntact ==
    /\ got \o s.buffer = Bytes(0, sent)
    /\ s.buffer_size = Len(s.buffer)
    /\ s.bytes_written = sent
    /\ s.bytes_read = Len(got)

\* Once the reader sees eof() it has seen the last byte: eof() stays and nothing
\* more arrives.  With a writer that stops after end_input().
EofIsFinal == [][eof(s) => eof(s') /\ got' = got]_vars

\* After end_input() a reader that keeps reading reaches eof().
EofReached == s.end_input ~> eof(s)

=============================================================================
