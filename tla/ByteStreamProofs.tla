--------------------------- MODULE ByteStreamProofs ---------------------------
(***************************************************************************)
(* For every capacity and every source: the stream loses, repeats and      *)
(* reorders nothing, and a reader that has seen eof() has seen everything. *)
(***************************************************************************)
EXTENDS ByteStreamSys, TCPLemmas

\* The stream by positions: what has been read and what is buffered are the
\* bytes 0 .. sent - 1 of the source, and the counters say how many they are.
Fields ==
    /\ s = [capacity      |-> s.capacity,      bytes_written |-> s.bytes_written,
            bytes_read    |-> s.bytes_read,    buffer        |-> s.buffer,
            buffer_size   |-> s.buffer_size,   end_input     |-> s.end_input,
            error         |-> s.error]
    /\ s.capacity = Capacity /\ s.end_input \in BOOLEAN /\ s.error \in BOOLEAN

Counters ==
    /\ sent \in Nat /\ s.bytes_read \in Nat /\ s.buffer_size \in Nat
    /\ s.buffer \in Seq(Int) /\ s.buffer_size = Len(s.buffer) /\ s.buffer_size <= Capacity
    /\ got \in Seq(Int) /\ s.bytes_read = Len(got)
    /\ s.bytes_written = sent
    /\ sent = s.bytes_read + s.buffer_size
    /\ sent <= SourceLen

Positions ==
    /\ \A i \in 1 .. Len(got) : got[i] = i - 1
    /\ \A i \in 1 .. Len(s.buffer) : s.buffer[i] = s.bytes_read + i - 1

IInv == Fields /\ Counters /\ Positions

-----------------------------------------------------------------------------

\* The constructor's stream satisfies the invariant.
LEMMA InitInv == Init => IInv
BY ByteStreamAssumption DEF Init, IInv, Fields, Counters, Positions, NewByteStream

\* write() appends the accepted prefix of the data and nothing else.
LEMMA WriteInv == ASSUME IInv, NEW len \in Lengths, Write(len) PROVE IInv'
<1> DEFINE data == Bytes(sent, len)
           count == write_count(s, data)
           part == SubSeq(data, 1, count)
<1>1. /\ sent \in Nat /\ len \in Nat /\ Capacity \in Nat /\ SourceLen \in Nat
      /\ s.buffer \in Seq(Int) /\ s.buffer_size = Len(s.buffer) /\ Len(s.buffer) \in Nat
      /\ s.bytes_read \in Nat /\ sent = s.bytes_read + Len(s.buffer)
  BY ByteStreamAssumption DEF IInv, Fields, Counters, Lengths
<1>2. data \in Seq(Int) /\ Len(data) = len /\ \A i \in 1 .. len : data[i] = sent + i - 1
  BY <1>1, BytesProperties
<1>3. count \in 0 .. len /\ s.buffer_size + count <= Capacity
  BY <1>1, <1>2 DEF write_count, LesserOf, remaining_capacity, IInv, Fields, Counters
<1>4. /\ part \in Seq(Int) /\ Len(part) = count
      /\ \A i \in 1 .. count : part[i] = sent + i - 1
  <2> HIDE DEF data, count
  <2> QED BY <1>2, <1>3, SubSeqProperties
<1>5. /\ s' = [s EXCEPT !.buffer        = s.buffer \o part,
                        !.buffer_size   = s.buffer_size + count,
                        !.bytes_written = s.bytes_written + count]
      /\ sent' = sent + count /\ got' = got /\ sent + len <= SourceLen
  BY DEF Write, write
<1> HIDE DEF data, count, part
<1>6. /\ s'.buffer = s.buffer \o part /\ s'.buffer_size = s.buffer_size + count
      /\ s'.bytes_written = s.bytes_written + count
      /\ s'.capacity = s.capacity /\ s'.bytes_read = s.bytes_read
      /\ s'.end_input = s.end_input /\ s'.error = s.error
      /\ Fields'
  BY <1>5 DEF IInv, Fields
<1>7. /\ s'.buffer \in Seq(Int) /\ Len(s'.buffer) = Len(s.buffer) + count
      /\ \A i \in 1 .. Len(s.buffer) : s'.buffer[i] = s.buffer[i]
      /\ \A i \in 1 .. count : s'.buffer[Len(s.buffer) + i] = part[i]
  <2> DEFINE both == s.buffer \o part
  <2>1. /\ both \in Seq(Int) /\ Len(both) = Len(s.buffer) + Len(part)
        /\ \A i \in 1 .. Len(s.buffer) : both[i] = s.buffer[i]
        /\ \A i \in 1 .. Len(part) : both[Len(s.buffer) + i] = part[i]
    BY <1>1, <1>4, ConcatIntegers
  <2>2. s'.buffer = both
    BY <1>6
  <2> HIDE DEF both
  <2> QED BY <2>1, <2>2, <1>4
<1>8. Counters'
  <2>1. count \in Nat /\ sent + count <= SourceLen /\ sent + count \in Nat
    BY <1>1, <1>3, <1>5
  <2>2. /\ s'.buffer_size = Len(s'.buffer) /\ s'.buffer_size \in Nat
        /\ s'.buffer_size <= Capacity /\ sent' = s'.bytes_read + s'.buffer_size
    <3>1. s'.buffer_size = Len(s.buffer) + count
      BY <1>1, <1>6
    <3>2. sent + count = s.bytes_read + (Len(s.buffer) + count)
      BY <1>1, <2>1
    <3>3. sent' = s'.bytes_read + s'.buffer_size
      BY <3>1, <3>2, <1>5, <1>6
    <3>4. Len(s.buffer) + count \in Nat /\ Len(s.buffer) + count <= Capacity
      BY <2>1, <1>1, <1>3
    <3>5. s'.buffer_size = Len(s'.buffer)
      BY <3>1, <1>7
    <3> QED BY <3>1, <3>3, <3>4, <3>5
  <2>3. s'.bytes_written = sent' /\ got' \in Seq(Int) /\ s'.bytes_read = Len(got')
    BY <1>5, <1>6 DEF IInv, Counters
  <2> QED BY <2>1, <2>2, <2>3, <1>1, <1>5, <1>6, <1>7 DEF Counters
<1>9. Positions'
  <2>1. \A i \in 1 .. Len(s'.buffer) : s'.buffer[i] = s'.bytes_read + i - 1
    <3> SUFFICES ASSUME NEW i \in 1 .. Len(s'.buffer)
                 PROVE  s'.buffer[i] = s'.bytes_read + i - 1
      OBVIOUS
    <3>1. CASE i <= Len(s.buffer)
      <4>1. i \in 1 .. Len(s.buffer)
        BY <3>1, <1>1
      <4>2. s'.buffer[i] = s.buffer[i]
        BY <4>1, <1>7
      <4>3. s.buffer[i] = s.bytes_read + i - 1
        BY <4>1 DEF IInv, Positions
      <4> QED BY <4>2, <4>3, <1>6
    <3>2. CASE i > Len(s.buffer)
      <4> DEFINE j == i - Len(s.buffer)
      <4>1. j \in 1 .. count /\ i = Len(s.buffer) + j
        BY <3>2, <1>1, <1>3, <1>7
      <4>2. s'.buffer[i] = sent + j - 1
        BY <4>1, <1>7, <1>4
      <4>3. sent + j - 1 = s.bytes_read + i - 1
        BY <4>1, <1>1
      <4> QED BY <4>2, <4>3, <1>6
    <3> QED BY <3>1, <3>2, <1>1, <1>7, <1>3
  <2> QED BY <2>1, <1>5 DEF IInv, Positions
<1> QED BY <1>6, <1>8, <1>9 DEF IInv

\* Positions before and after the first m of n.
LEMMA Shift ==
    ASSUME NEW n \in Nat, NEW m \in Nat, m <= n
    PROVE  /\ \A i \in 1 .. n - m : m + i \in 1 .. n /\ i \in Int
           /\ \A g \in Nat : \A i \in 1 .. g + m :
                  i > g => i - g \in 1 .. m /\ i = g + (i - g) /\ i - g \in 1 .. n
OBVIOUS

\* The counters' arithmetic when m of n buffered bytes are read: r bytes were
\* read before, and the buffer holds at most c.
LEMMA Balance ==
    ASSUME NEW n \in Nat, NEW m \in Nat, NEW r \in Nat, NEW c \in Nat,
           m <= n, n <= c
    PROVE  /\ r + m \in Nat /\ n - m \in Nat
           /\ n - m <= c
           /\ r + n = (r + m) + (n - m)
OBVIOUS

\* Moving the first m buffered bytes to the reader keeps the invariant.
LEMMA PopInv ==
    ASSUME IInv, NEW m \in 0 .. Len(s.buffer),
           s' = [s EXCEPT !.buffer      = SubSeq(s.buffer, m + 1, Len(s.buffer)),
                          !.bytes_read  = s.bytes_read + m,
                          !.buffer_size = s.buffer_size - m],
           got' = got \o SubSeq(s.buffer, 1, m),
           sent' = sent
    PROVE  IInv'
<1> DEFINE head == SubSeq(s.buffer, 1, m)
           rest == SubSeq(s.buffer, m + 1, Len(s.buffer))
           both == got \o head
<1>1. /\ sent \in Nat /\ m \in Nat /\ Capacity \in Nat /\ SourceLen \in Nat
      /\ m <= Len(s.buffer)
      /\ s.buffer \in Seq(Int) /\ s.buffer_size = Len(s.buffer) /\ Len(s.buffer) \in Nat
      /\ s.bytes_read \in Nat /\ sent = s.bytes_read + Len(s.buffer) /\ sent <= SourceLen
      /\ got \in Seq(Int) /\ Len(got) = s.bytes_read /\ Len(s.buffer) <= Capacity
      /\ s.bytes_written = sent
  BY ByteStreamAssumption DEF IInv, Fields, Counters
<1>2. /\ head \in Seq(Int) /\ Len(head) = m
      /\ \A i \in 1 .. m : head[i] = s.buffer[i]
  BY <1>1, SplitProperties
<1>3. /\ rest \in Seq(Int) /\ Len(rest) = Len(s.buffer) - m
      /\ \A i \in 1 .. Len(s.buffer) - m : rest[i] = s.buffer[m + i]
  BY <1>1, SplitProperties
<1> HIDE DEF head, rest
<1>4. /\ both \in Seq(Int) /\ Len(both) = Len(got) + Len(head)
      /\ \A i \in 1 .. Len(got) : both[i] = got[i]
      /\ \A i \in 1 .. Len(head) : both[Len(got) + i] = head[i]
  BY <1>1, <1>2, ConcatIntegers
<1>5. /\ s'.buffer = rest /\ s'.buffer_size = s.buffer_size - m
      /\ s'.bytes_read = s.bytes_read + m /\ s'.bytes_written = s.bytes_written
      /\ got' = both
  BY DEF IInv, Fields, head, rest
<1>6. Fields'
  BY DEF IInv, Fields
<1> HIDE DEF both
<1>7. Counters'
  <2>1. /\ s.bytes_read + m \in Nat /\ Len(s.buffer) - m \in Nat
        /\ Len(s.buffer) - m <= Capacity
        /\ sent = (s.bytes_read + m) + (Len(s.buffer) - m)
    BY <1>1, Balance, Zenon
  <2>2. s'.buffer_size = Len(s.buffer) - m /\ s'.buffer_size = Len(s'.buffer)
    BY <1>1, <1>3, <1>5
  <2>3. got' \in Seq(Int) /\ s'.bytes_read = Len(got')
    BY <1>1, <1>2, <1>4, <1>5
  <2> QED BY <2>1, <2>2, <2>3, <1>1, <1>3, <1>5 DEF Counters
<1>8. Positions'
  <2>1. \A i \in 1 .. Len(s.buffer) - m : rest[i] = (s.bytes_read + m) + i - 1
    <3> SUFFICES ASSUME NEW i \in 1 .. Len(s.buffer) - m
                 PROVE  rest[i] = (s.bytes_read + m) + i - 1
      OBVIOUS
    <3>1. m + i \in 1 .. Len(s.buffer) /\ i \in Int
      BY <1>1, Shift
    <3>2. s.buffer[m + i] = s.bytes_read + (m + i) - 1
      BY <3>1 DEF IInv, Positions
    <3>3. s.bytes_read + (m + i) - 1 = (s.bytes_read + m) + i - 1
      BY <3>1, <1>1
    <3> QED BY <3>1, <3>2, <3>3, <1>3
  <2>2. \A i \in 1 .. Len(got) + m : both[i] = i - 1
    <3> SUFFICES ASSUME NEW i \in 1 .. Len(got) + m PROVE both[i] = i - 1
      OBVIOUS
    <3>1. CASE i <= Len(got)
      BY <3>1, <1>1, <1>4 DEF IInv, Positions
    <3>2. CASE i > Len(got)
      <4> DEFINE j == i - Len(got)
      <4>1. j \in 1 .. m /\ i = Len(got) + j /\ j \in 1 .. Len(s.buffer)
        <5>1. Len(got) \in Nat /\ Len(s.buffer) \in Nat /\ m \in Nat /\ m <= Len(s.buffer)
          BY <1>1
        <5>2. \A g \in Nat : \A k \in 1 .. g + m :
                  k > g => k - g \in 1 .. m /\ k = g + (k - g) /\ k - g \in 1 .. Len(s.buffer)
          BY <5>1, Shift, Zenon
        <5> QED BY <5>1, <5>2, <3>2, Zenon
      <4> HIDE DEF j
      <4>2. both[i] = s.buffer[j]
        BY <4>1, <1>2, <1>4
      <4>3. s.buffer[j] = s.bytes_read + j - 1
        BY <4>1 DEF IInv, Positions
      <4> QED BY <4>1, <4>2, <4>3, <1>1
    <3> QED BY <3>1, <3>2, <1>1, <1>2, <1>4
  <2>3. /\ \A i \in 1 .. Len(got') : got'[i] = i - 1
        /\ \A i \in 1 .. Len(s'.buffer) : s'.buffer[i] = s'.bytes_read + i - 1
    BY <2>1, <2>2, <1>2, <1>3, <1>4, <1>5
  <2> QED BY <2>3 DEF Positions
<1> QED BY <1>6, <1>7, <1>8 DEF IInv

\* read() pops what it copied.
LEMMA ReadInv == ASSUME IInv, NEW len \in Lengths, Read(len) PROVE IInv'
<1> DEFINE m == LesserOf(len, s.buffer_size)
<1>1. m \in 0 .. Len(s.buffer)
  BY ByteStreamAssumption DEF IInv, Counters, Lengths, LesserOf
<1>2. /\ s' = [s EXCEPT !.buffer      = SubSeq(s.buffer, m + 1, Len(s.buffer)),
                        !.bytes_read  = s.bytes_read + m,
                        !.buffer_size = s.buffer_size - m]
      /\ got' = got \o SubSeq(s.buffer, 1, m) /\ sent' = sent
  BY DEF Read, pop_output, peek_output
<1> HIDE DEF m
<1> QED BY <1>1, <1>2, PopInv

\* Popping exactly the bytes that were passed on loses none.
LEMMA PeekAndPopInv ==
    ASSUME IInv, NEW len \in Lengths, NEW n \in Lengths, PeekAndPop(len, n)
    PROVE  IInv'
<1> DEFINE c == LesserOf(len, s.buffer_size)
           seen == SubSeq(s.buffer, 1, c)
<1>1. c \in 0 .. Len(s.buffer) /\ s.buffer \in Seq(Int) /\ s.buffer_size = Len(s.buffer)
  BY ByteStreamAssumption DEF IInv, Counters, Lengths, LesserOf
<1>2. /\ n <= Len(seen) /\ got' = got \o SubSeq(seen, 1, n)
      /\ s' = pop_output(s, n) /\ sent' = sent
  BY DEF PeekAndPop, peek_output
<1>3. seen \in Seq(Int) /\ Len(seen) = c /\ \A i \in 1 .. c : seen[i] = s.buffer[i]
  <2> HIDE DEF c
  <2> QED BY <1>1, SplitProperties
<1> HIDE DEF c, seen
<1>4. n \in Nat /\ n <= c /\ n \in 0 .. Len(seen) /\ n \in 0 .. Len(s.buffer)
  BY <1>1, <1>2, <1>3 DEF Lengths
<1>5. SubSeq(seen, 1, n) = SubSeq(s.buffer, 1, n)
  <2>1. /\ SubSeq(seen, 1, n) \in Seq(Int) /\ Len(SubSeq(seen, 1, n)) = n
        /\ \A i \in 1 .. n : SubSeq(seen, 1, n)[i] = seen[i]
    BY <1>3, <1>4, SplitProperties
  <2>2. /\ SubSeq(s.buffer, 1, n) \in Seq(Int) /\ Len(SubSeq(s.buffer, 1, n)) = n
        /\ \A i \in 1 .. n : SubSeq(s.buffer, 1, n)[i] = s.buffer[i]
    BY <1>1, <1>4, SplitProperties
  <2>3. \A i \in 1 .. n : i \in 1 .. c
    BY <1>1, <1>4
  <2> DEFINE x == SubSeq(seen, 1, n)  y == SubSeq(s.buffer, 1, n)
  <2>4. x \in Seq(Int) /\ y \in Seq(Int) /\ Len(x) = Len(y) /\ \A i \in 1 .. Len(x) : x[i] = y[i]
    BY <2>1, <2>2, <2>3, <1>3
  <2> HIDE DEF x, y
  <2>5. x = y
    BY <2>4, SeqEqual
  <2> QED BY <2>5 DEF x, y
<1>6. LesserOf(n, s.buffer_size) = n
  BY <1>1, <1>4 DEF LesserOf
<1>7. /\ s' = [s EXCEPT !.buffer      = SubSeq(s.buffer, n + 1, Len(s.buffer)),
                        !.bytes_read  = s.bytes_read + n,
                        !.buffer_size = s.buffer_size - n]
      /\ got' = got \o SubSeq(s.buffer, 1, n)
  BY <1>2, <1>5, <1>6 DEF pop_output
<1> QED BY <1>2, <1>4, <1>7, PopInv

\* end_input() and set_error() touch one flag each.
LEMMA FlagInv == ASSUME IInv, EndInput \/ SetError PROVE IInv'
BY DEF IInv, Fields, Counters, Positions, EndInput, SetError, end_input, set_error

\* Every step keeps the invariant.
LEMMA NextInv == IInv /\ [Next]_vars => IInv'
<1> SUFFICES ASSUME IInv, [Next]_vars PROVE IInv'
  OBVIOUS
<1>1. ASSUME NEW len \in Lengths, Write(len) PROVE IInv'
  BY <1>1, WriteInv
<1>2. CASE EndInput \/ SetError
  BY <1>2, FlagInv
<1>3. ASSUME NEW len \in Lengths, Read(len) PROVE IInv'
  BY <1>3, ReadInv
<1>4. ASSUME NEW len \in Lengths, NEW n \in Lengths, PeekAndPop(len, n) PROVE IInv'
  BY <1>4, PeekAndPopInv
<1>5. CASE UNCHANGED vars
  BY <1>5 DEF vars, IInv, Fields, Counters, Positions
<1> QED BY <1>1, <1>2, <1>3, <1>4, <1>5 DEF Next

-----------------------------------------------------------------------------

\* The invariant by positions gives the type invariant.
LEMMA InvType == IInv => TypeOK
<1> SUFFICES ASSUME IInv PROVE TypeOK
  OBVIOUS
<1> DEFINE Byte == 0 .. SourceLen - 1
<1>1. /\ sent \in Nat /\ SourceLen \in Nat /\ Capacity \in Nat /\ sent <= SourceLen
      /\ s.buffer \in Seq(Int) /\ got \in Seq(Int) /\ Len(s.buffer) \in Nat /\ Len(got) \in Nat
      /\ s.bytes_read = Len(got) /\ s.buffer_size = Len(s.buffer) /\ s.buffer_size <= Capacity
      /\ sent = Len(got) + Len(s.buffer) /\ s.bytes_written = sent
  BY ByteStreamAssumption DEF IInv, Counters
<1>2. \A i \in 1 .. Len(got) : got[i] \in Byte
  <2>1. \A i \in 1 .. Len(got) : got[i] = i - 1
    BY DEF IInv, Positions
  <2>2. Len(got) <= SourceLen
    BY <1>1
  <2> QED BY <2>1, <2>2, <1>1
<1>3. \A i \in 1 .. Len(s.buffer) : s.buffer[i] \in Byte
  BY <1>1 DEF IInv, Positions
<1> HIDE DEF Byte
<1>4. got \in Seq(Byte) /\ s.buffer \in Seq(Byte)
  BY <1>1, <1>2, <1>3, SeqOver
<1>5. s.buffer_size \in 0 .. Capacity /\ sent \in 0 .. SourceLen
  BY <1>1
<1>6. s \in ByteStreams(Byte, Capacity)
  BY <1>1, <1>4, <1>5 DEF ByteStreams, IInv, Fields
<1> QED BY <1>4, <1>5, <1>6 DEF TypeOK, Byte

\* The invariant by positions gives the equation of the two sequences.
LEMMA InvIntact == IInv => StreamIntact
<1> SUFFICES ASSUME IInv PROVE StreamIntact
  OBVIOUS
<1> DEFINE x == got \o s.buffer  y == Bytes(0, sent)
<1>1. /\ sent \in Nat /\ s.buffer \in Seq(Int) /\ got \in Seq(Int)
      /\ Len(s.buffer) \in Nat /\ Len(got) \in Nat
      /\ s.bytes_read = Len(got) /\ s.buffer_size = Len(s.buffer)
      /\ sent = Len(got) + Len(s.buffer) /\ s.bytes_written = sent
  BY DEF IInv, Counters
<1>2. /\ x \in Seq(Int) /\ Len(x) = sent
      /\ \A i \in 1 .. Len(got) : x[i] = got[i]
      /\ \A i \in 1 .. Len(s.buffer) : x[Len(got) + i] = s.buffer[i]
  BY <1>1, ConcatIntegers
<1>3. y \in Seq(Int) /\ Len(y) = sent /\ \A i \in 1 .. sent : y[i] = i - 1
  <2>1. y \in Seq(Int) /\ Len(y) = sent /\ \A i \in 1 .. sent : y[i] = 0 + i - 1
    <3>1. 0 \in Int
      OBVIOUS
    <3> QED BY <3>1, <1>1, BytesProperties
  <2>2. \A i \in 1 .. sent : 0 + i - 1 = i - 1
    BY <1>1
  <2> HIDE DEF y
  <2> QED BY <2>1, <2>2
<1> HIDE DEF x, y
<1>4. ASSUME NEW i \in 1 .. sent PROVE x[i] = i - 1
  <2>1. CASE i <= Len(got)
    BY <2>1, <1>1, <1>2 DEF IInv, Positions
  <2>2. CASE i > Len(got)
    <3> DEFINE j == i - Len(got)
    <3>1. j \in 1 .. Len(s.buffer) /\ i = Len(got) + j
      BY <2>2, <1>1
    <3> HIDE DEF j
    <3>2. x[i] = s.buffer[j] /\ s.buffer[j] = s.bytes_read + j - 1
      BY <3>1, <1>2 DEF IInv, Positions
    <3> QED BY <3>1, <3>2, <1>1
  <2> QED BY <2>1, <2>2, <1>1
<1>5. x = y
  BY <1>2, <1>3, <1>4, SeqEqual
<1> QED BY <1>1, <1>5 DEF StreamIntact, x, y

-----------------------------------------------------------------------------

\* For every capacity and every source, and whatever the order and the sizes of
\* the calls: ByteStream loses, repeats and reorders no byte, and its counters
\* agree with its buffer.
THEOREM StreamCorrect == Spec => [](TypeOK /\ StreamIntact)
<1>1. Spec => []IInv
  BY InitInv, NextInv, PTL DEF Spec
<1>2. IInv => TypeOK /\ StreamIntact
  BY InvType, InvIntact
<1> QED BY <1>1, <1>2, PTL

\* The members of ByteStream keep their types and ranges: the buffer never
\* exceeds the capacity, for every capacity.
THEOREM TypeCorrect == Spec => []TypeOK
BY StreamCorrect, PTL

\* If the writer stops after end_input(), as the callers in the stack do, eof()
\* is final: no step takes it back or brings the reader another byte.
THEOREM EofCorrect == ASSUME WriterStops PROVE Spec => EofIsFinal
<1>1. ASSUME IInv, [Next]_vars, eof(s) PROVE eof(s') /\ got' = got
  <2>1. s.end_input /\ s.buffer_size = 0 /\ s.buffer \in Seq(Int) /\ Len(s.buffer) = 0 /\ got \in Seq(Int)
    BY <1>1 DEF IInv, Counters, eof
  <2>2. ASSUME NEW len \in Lengths PROVE ~Write(len)
    BY <2>1 DEF Write
  <2>3. CASE EndInput \/ SetError
    BY <2>1, <2>3, <1>1 DEF IInv, Fields, eof, EndInput, SetError, end_input, set_error
  <2>4. ASSUME NEW len \in Lengths PROVE LesserOf(len, s.buffer_size) = 0
    BY <2>1, ByteStreamAssumption DEF LesserOf, Lengths
  <2>5. SubSeq(s.buffer, 1, 0) = << >>
    BY <2>1
  <2>6. ASSUME NEW len \in Lengths, Read(len) PROVE eof(s') /\ got' = got
    <3>1. got' = got \o << >>
      BY <2>4, <2>5, <2>6 DEF Read, peek_output
    <3>2. s'.end_input = s.end_input /\ s'.buffer_size = s.buffer_size - 0
      BY <2>4, <2>6, <1>1 DEF Read, pop_output, IInv, Fields
    <3> QED BY <3>1, <3>2, <2>1 DEF eof
  <2>7. ASSUME NEW len \in Lengths, NEW n \in Lengths PROVE ~PeekAndPop(len, n)
    <3>1. Len(peek_output(s, len)) = 0
      BY <2>4, <2>5 DEF peek_output
    <3>2. ~(n <= 0)
      BY ByteStreamAssumption DEF Lengths
    <3> QED BY <3>1, <3>2 DEF PeekAndPop
  <2>8. CASE UNCHANGED vars
    BY <1>1, <2>8 DEF vars, eof
  <2> QED BY <1>1, <2>2, <2>3, <2>6, <2>7, <2>8 DEF Next
<1>2. Spec => []IInv
  BY InitInv, NextInv, PTL DEF Spec
<1>3. IInv /\ [Next]_vars => [eof(s) => eof(s') /\ got' = got]_vars
  BY <1>1
<1> QED BY <1>2, <1>3, PTL DEF Spec, EofIsFinal

=============================================================================
