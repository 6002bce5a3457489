-------------------------- MODULE ReassemblerProofs --------------------------
(***************************************************************************)
(* For every stream and every capacity: the reassembler keeps its bytes in *)
(* place and counts them, and implements Reassembly.                       *)
(***************************************************************************)
EXTENDS ReassemblerSys, TCPLemmas

\* The inductive invariant: the reassembler is sound.  Beyond what the properties
\* say it bounds every entry by the stream and by what fits, which is what makes
\* the next entry acceptable.
IInv == Sound(r, Capacity, StreamLen)

\* What push_substring() makes of the reassembler, whichever substring comes.
LEMMA PushCall ==
    ASSUME IInv, NEW index \in 0 .. StreamLen, NEW len \in 0 .. StreamLen, NEW fin \in BOOLEAN,
           Substring(index, len, fin)
    PROVE  Pushed(r, push_substring(r, Bytes(index, len), index, fin), index, len, fin, Capacity, StreamLen)
<1>1. StreamLen \in Nat /\ Capacity \in Nat /\ StreamLen < SizeSpace /\ SizeSpace \in Nat
  BY ReassemblerAssumption, SizeSpaceAssumption
<1>2. /\ index \in Nat /\ len \in Nat /\ index + len < SizeSpace
      /\ (len > 0 => index + len <= StreamLen) /\ (fin => index + len = StreamLen)
  BY <1>1 DEF Substring
<1> QED BY <1>1, <1>2, PushSubstring, Zenon DEF IInv

\* How many bytes a read of len bytes takes.
LEMMA ReadSize ==
    ASSUME IInv, NEW len \in 1 .. Capacity
    PROVE  LET n == LesserOf(len, r.output.buffer_size)
           IN  /\ n \in 0 .. Capacity /\ n <= r.output.buffer_size
               /\ r.output.buffer_size > 0 => n \in 1 .. Capacity
<1>1. Capacity \in Nat
  BY ReassemblerAssumption
<1>2. r.output.buffer_size \in 0 .. Capacity
  BY DEF IInv, Sound, Tidy, InOrder
<1> QED BY <1>1, <1>2 DEF LesserOf

\* What a read makes of it.
LEMMA ReadCall ==
    ASSUME IInv, NEW len \in 1 .. Capacity
    PROVE  PoppedOutput(r, [r EXCEPT !.output = pop_output(r.output, len)],
                        LesserOf(len, r.output.buffer_size), Capacity, StreamLen)
<1>1. StreamLen \in Nat /\ Capacity \in Nat /\ len \in Nat
  BY ReassemblerAssumption
<1> QED BY <1>1, PopSound, Zenon DEF IInv

\* The invariant is inductive.
LEMMA Invariance == Spec => []IInv
<1>1. ASSUME Init PROVE IInv
  BY <1>1, NewSound, ReassemblerAssumption DEF Init, IInv
<1>2. ASSUME IInv, [Next]_r PROVE IInv'
  <2>1. ASSUME NEW index \in 0 .. StreamLen, NEW len \in 0 .. StreamLen, NEW fin \in BOOLEAN,
               Push(index, len, fin)
        PROVE  IInv'
    <3>1. Substring(index, len, fin) /\ r' = push_substring(r, Bytes(index, len), index, fin)
      BY <2>1 DEF Push
    <3>2. Sound(push_substring(r, Bytes(index, len), index, fin), Capacity, StreamLen)
      BY <1>2, <3>1, PushCall, Zenon DEF Pushed
    <3> QED BY <3>1, <3>2, Zenon DEF IInv
  <2>2. ASSUME NEW len \in 1 .. Capacity, Read(len) PROVE IInv'
    <3>1. r' = [r EXCEPT !.output = pop_output(r.output, len)]
      BY <2>2 DEF Read
    <3>2. Sound([r EXCEPT !.output = pop_output(r.output, len)], Capacity, StreamLen)
      BY <1>2, ReadCall, Zenon DEF PoppedOutput
    <3> QED BY <3>1, <3>2, Zenon DEF IInv
  <2>3. CASE UNCHANGED r
    BY <1>2, <2>3, Zenon DEF IInv
  <2> QED BY <1>2, <2>1, <2>2, <2>3, Zenon DEF Next
<1> QED BY <1>1, <1>2, PTL DEF Spec

-----------------------------------------------------------------------------

\* What soundness says about the members of the reassembler.
LEMMA Members ==
    ASSUME IInv
    PROVE  LET buf == r.unassemble_buffer
           IN  /\ StreamLen \in Nat /\ Capacity \in Nat
               /\ InOrder(r.output, Capacity) /\ r.capacity = Capacity
               /\ r.next_pos \in 0 .. StreamLen /\ r.output.bytes_written = r.next_pos
               /\ r.output.bytes_read \in Nat /\ r.output.buffer_size \in 0 .. Capacity
               /\ r.next_pos = r.output.bytes_read + r.output.buffer_size
               /\ r.output.buffer = Bytes(r.output.bytes_read, r.output.buffer_size)
               /\ r.output.bytes_read + Capacity \in Nat
               /\ Apart(buf, r.next_pos + 1, StreamLen, r.output.bytes_read + Capacity)
               /\ InPlace(buf) /\ r.unassembled_bytes = Cardinality(Held(buf))
<1>1. StreamLen \in Nat /\ Capacity \in Nat
  BY ReassemblerAssumption
<1>2. Tidy(r, r.next_pos + 1, Capacity, StreamLen)
  BY DEF IInv, Sound
<1>3. /\ InOrder(r.output, Capacity) /\ r.output.bytes_written = r.next_pos
  BY <1>2 DEF Tidy
<1>4. /\ r.output.bytes_read \in Nat /\ r.output.buffer_size \in 0 .. Capacity
      /\ r.next_pos = r.output.bytes_read + r.output.buffer_size
      /\ r.output.buffer = Bytes(r.output.bytes_read, r.output.buffer_size)
      /\ r.output.bytes_read + Capacity \in Nat
  BY <1>1, <1>3 DEF InOrder
<1> QED BY <1>1, <1>2, <1>3, <1>4 DEF Tidy

\* The bytes that wait are not more than the capacity leaves them.
LEMMA WaitingFits ==
    ASSUME IInv
    PROVE  /\ r.unassembled_bytes \in Nat
           /\ r.output.buffer_size + r.unassembled_bytes <= Capacity
           /\ \A i \in Held(r.unassemble_buffer) : i < r.output.bytes_read + Capacity
<1> DEFINE H   == Held(r.unassemble_buffer)
           p   == r.next_pos
           top == r.output.bytes_read + Capacity
<1>1. /\ StreamLen \in Nat /\ Capacity \in Nat /\ p \in Nat /\ top \in Nat /\ p + 1 \in Nat
      /\ r.output.bytes_read \in Nat /\ r.output.buffer_size \in 0 .. Capacity
      /\ p = r.output.bytes_read + r.output.buffer_size
      /\ Apart(r.unassemble_buffer, p + 1, StreamLen, top)
      /\ r.unassembled_bytes = Cardinality(H)
  BY Members
<1>2. IsFiniteSet(H) /\ \A i \in H : i \in Nat /\ p + 1 <= i /\ i < top
  BY <1>1, HeldBounded, Zenon
<1> HIDE DEF H
<1>3. Cardinality(H) \in Nat
  BY <1>2, FS_CardinalityType, Zenon
<1>4. p <= top
  BY <1>1
<1> DEFINE I == p .. top - 1
<1>5. IsFiniteSet(I) /\ Cardinality(I) = top - p
  <2>1. p \in Int /\ top - 1 \in Int
    BY <1>1
  <2>2. IsFiniteSet(I) /\ Cardinality(I) = IF p > top - 1 THEN 0 ELSE (top - 1) - p + 1
    BY <2>1, FS_Interval, Zenon
  <2> HIDE DEF I
  <2> QED BY <1>1, <1>4, <2>2, SMTT(30)
<1>6. H \in SUBSET I
  BY <1>1, <1>2
<1>7. Cardinality(H) <= Cardinality(I)
  <2> HIDE DEF I
  <2> QED BY <1>5, <1>6, FS_Subset, Zenon
<1> HIDE DEF I
<1> QED BY <1>1, <1>2, <1>3, <1>5, <1>7 DEF H

\* The invariant implies the type.
LEMMA SoundType == ASSUME IInv PROVE TypeOK
<1> DEFINE buf == r.unassemble_buffer
<1>1. /\ StreamLen \in Nat /\ Capacity \in Nat
      /\ InOrder(r.output, Capacity) /\ r.capacity = Capacity
      /\ r.next_pos \in 0 .. StreamLen /\ r.output.bytes_written = r.next_pos
      /\ r.output.buffer_size \in 0 .. Capacity
      /\ Apart(buf, r.next_pos + 1, StreamLen, r.output.bytes_read + Capacity)
      /\ InPlace(buf)
  BY Members
<1>2. r.output \in ByteStreams(0 .. StreamLen - 1, Capacity)
  <2>1. r.output.bytes_written <= StreamLen
    BY <1>1
  <2> QED BY <1>1, <2>1, InOrderType, Zenon
<1>3. DOMAIN buf \subseteq 0 .. StreamLen - 1
  BY <1>1 DEF Apart
<1>4. ASSUME NEW k \in DOMAIN buf PROVE buf[k] \in Seq(0 .. StreamLen - 1)
  <2> DEFINE n == Len(buf[k])
             b == Bytes(k, n)
  <2>1. k \in Nat /\ n \in Nat /\ SegEnd(buf, k) = k + n
    BY <1>1, EntrySize, Zenon
  <2>2. buf[k] = b
    BY <1>1 DEF InPlace
  <2>3. k + n <= StreamLen
    BY <1>1, <2>1 DEF Apart
  <2> HIDE DEF n
  <2>4. b \in Seq(Int) /\ Len(b) = n /\ \A i \in 1 .. n : b[i] = k + i - 1
    <3>1. k \in Int
      BY <2>1
    <3> QED BY <2>1, <3>1, BytesProperties, Zenon
  <2> HIDE DEF b
  <2>5. \A i \in 1 .. Len(b) : b[i] \in 0 .. StreamLen - 1
    BY <1>1, <2>1, <2>3, <2>4
  <2>6. b \in Seq(0 .. StreamLen - 1)
    BY <2>4, <2>5, SeqOver
  <2> QED BY <2>2, <2>6
<1>5. r.unassembled_bytes \in 0 .. Capacity
  BY <1>1, WaitingFits
<1>6. r.eof_index \in 0 .. StreamLen /\ r.eof_appear_sign \in BOOLEAN
  BY DEF IInv, Sound, Ends
<1> QED BY <1>1, <1>2, <1>3, <1>4, <1>5, <1>6 DEF TypeOK

\* The invariant implies the parts of ReassemblerInv about bytes, entries and end.
LEMMA SoundInPlace == ASSUME IInv PROVE BytesInPlace /\ EntriesDisjoint /\ EndsAtTheEnd
<1> DEFINE buf == r.unassemble_buffer
<1>1. /\ StreamLen \in Nat /\ Capacity \in Nat
      /\ r.next_pos \in 0 .. StreamLen /\ r.output.bytes_written = r.next_pos
      /\ r.output.bytes_read \in Nat /\ r.output.buffer_size \in 0 .. Capacity
      /\ r.next_pos = r.output.bytes_read + r.output.buffer_size
      /\ r.output.buffer = Bytes(r.output.bytes_read, r.output.buffer_size)
      /\ Apart(buf, r.next_pos + 1, StreamLen, r.output.bytes_read + Capacity)
      /\ InPlace(buf)
  BY Members
<1>2. BytesInPlace
  <2>1. r.next_pos - r.output.bytes_read = r.output.buffer_size
    BY <1>1
  <2>2. \A k \in DOMAIN buf : buf[k] = Bytes(k, Len(buf[k]))
    BY <1>1 DEF InPlace
  <2> QED BY <1>1, <2>1, <2>2 DEF BytesInPlace
<1>3. EntriesDisjoint
  <2>1. ASSUME NEW k \in DOMAIN buf PROVE k > r.next_pos /\ Len(buf[k]) > 0
    <3>1. k \in Nat /\ Len(buf[k]) \in Nat /\ SegEnd(buf, k) = k + Len(buf[k])
      BY <1>1, EntrySize, Zenon
    <3>2. r.next_pos + 1 <= k /\ k < SegEnd(buf, k)
      BY <1>1 DEF Apart
    <3> QED BY <1>1, <3>1, <3>2
  <2>2. \A j, k \in DOMAIN buf : j < k => SegEnd(buf, j) <= k
    BY <1>1 DEF Apart
  <2> QED BY <2>1, <2>2 DEF EntriesDisjoint
<1>4. EndsAtTheEnd
  BY DEF IInv, Sound, Ends, EndsAtTheEnd
<1> QED BY <1>2, <1>3, <1>4

\* Whatever substrings arrive in whatever order, push_substring() keeps every
\* byte at its index, the entries of the map disjoint and after the next byte of
\* the stream, and ends the output exactly when all of the stream has been written.
THEOREM ReassemblerCorrect == Spec => []ReassemblerInv
<1>1. IInv => ReassemblerInv
  BY SoundType, SoundInPlace DEF ReassemblerInv
<1> QED BY <1>1, Invariance, PTL

\* unassembled_bytes() counts each stored byte once, and the bytes stored, in the
\* output and in the map, are never more than the capacity.
THEOREM MemoryCorrect == Spec => []MemoryBounded
<1>1. IInv => MemoryBounded
  BY WaitingFits, Members DEF MemoryBounded
<1> QED BY <1>1, Invariance, PTL

-----------------------------------------------------------------------------

\* Every byte of the stream has been accepted exactly when the next byte to be
\* written is the end.
LEMMA AllAccepted ==
    ASSUME NEW cap \in Nat, NEW L \in Nat, NEW t, Sound(t, cap, L)
    PROVE  0 .. L - 1 \subseteq Accepted(t) <=> t.next_pos = L
<1>1. /\ t.next_pos \in 0 .. L /\ t.output.bytes_read \in Nat
      /\ Apart(t.unassemble_buffer, t.next_pos + 1, L, t.output.bytes_read + cap)
  BY DEF Sound, Tidy, InOrder
<1>2. t.next_pos + 1 \in Nat /\ t.output.bytes_read + cap \in Nat
  BY <1>1
<1>3. \A i \in Held(t.unassemble_buffer) : i \in Nat /\ t.next_pos + 1 <= i
  BY <1>1, <1>2, HeldBounded, Zenon
<1>4. \A i : i \in Accepted(t) <=> i \in 0 .. t.next_pos - 1 \/ i \in Held(t.unassemble_buffer)
  BY DEF Accepted
<1>5. t.next_pos \notin Accepted(t)
  BY <1>1, <1>3, <1>4
<1>6. ASSUME 0 .. L - 1 \subseteq Accepted(t) PROVE t.next_pos = L
  BY <1>1, <1>5, <1>6
<1>7. ASSUME t.next_pos = L PROVE 0 .. L - 1 \subseteq Accepted(t)
  BY <1>4, <1>7
<1> QED BY <1>6, <1>7

\* A push is the abstract push of the same range.
LEMMA PushExact ==
    ASSUME IInv, NEW index \in 0 .. StreamLen, NEW len \in 0 .. StreamLen, NEW fin \in BOOLEAN,
           NEW t, Pushed(r, t, index, len, fin, Capacity, StreamLen)
    PROVE  View(t) = Abs!AbsPush(View(r), index, len, fin)
<1>1. /\ Sound(t, Capacity, StreamLen)
      /\ Accepted(t) = Accepted(r) \cup Fitting(r, index, len, Capacity)
      /\ t.output.bytes_read = r.output.bytes_read /\ r.next_pos <= t.next_pos
      /\ t.eof_appear_sign <=> (r.eof_appear_sign \/ fin)
  BY DEF Pushed
<1>2. StreamLen \in Nat /\ Capacity \in Nat
  BY ReassemblerAssumption
<1>3. /\ r.eof_appear_sign \in BOOLEAN /\ r.output.end_input \in BOOLEAN
      /\ r.output.end_input <=> (r.eof_appear_sign /\ r.next_pos = StreamLen)
  BY DEF IInv, Sound, Ends, Tidy, InOrder
<1>4. /\ t.eof_appear_sign \in BOOLEAN /\ t.output.end_input \in BOOLEAN
      /\ t.output.end_input <=> (t.eof_appear_sign /\ t.next_pos = StreamLen)
  BY <1>1 DEF Sound, Ends, Tidy, InOrder
<1>5. 0 .. StreamLen - 1 \subseteq Accepted(t) <=> t.next_pos = StreamLen
  BY <1>1, <1>2, AllAccepted, Zenon
<1>6. r.next_pos \in 0 .. StreamLen /\ t.next_pos \in 0 .. StreamLen
  BY <1>1 DEF IInv, Sound, Tidy
<1>7. r.next_pos = StreamLen => t.next_pos = StreamLen
  BY <1>1, <1>2, <1>6
<1>8. t.eof_appear_sign = (r.eof_appear_sign \/ fin)
  BY <1>1, <1>3, <1>4, Zenon
<1>9. t.output.end_input = (r.output.end_input \/ (t.eof_appear_sign /\ 0 .. StreamLen - 1 \subseteq Accepted(t)))
  BY <1>1, <1>3, <1>4, <1>5, <1>7, Zenon
<1>10. Accepted(t) = Accepted(r) \cup ((index .. index + len - 1) \cap (0 .. r.output.bytes_read + Capacity - 1))
  BY <1>1 DEF Fitting
<1> DEFINE a == View(r)
<1>11. /\ a.accepted = Accepted(r) /\ a.consumed = r.output.bytes_read
       /\ a.end_known = r.eof_appear_sign /\ a.ended = r.output.end_input
  BY DEF View, Accepted
<1> HIDE DEF a
<1>12. Abs!AbsPush(a, index, len, fin) =
           [accepted  |-> Accepted(t), consumed |-> t.output.bytes_read,
            end_known |-> t.eof_appear_sign, ended |-> t.output.end_input]
  BY <1>1, <1>8, <1>9, <1>10, <1>11, Zenon DEF Abs!AbsPush
<1>13. View(t) = [accepted  |-> Accepted(t), consumed |-> t.output.bytes_read,
                  end_known |-> t.eof_appear_sign, ended |-> t.output.end_input]
  BY Zenon DEF View, Accepted
<1> QED BY <1>12, <1>13, Zenon DEF a

\* The same for a read of n bytes of the output.
LEMMA ReadExact ==
    ASSUME IInv, NEW n \in 0 .. Capacity, n <= r.output.buffer_size,
           NEW t, PoppedOutput(r, t, n, Capacity, StreamLen)
    PROVE  Abs!CanRead(View(r), n) /\ View(t) = Abs!AbsRead(View(r), n)
<1>1. /\ Accepted(t) = Accepted(r) /\ t.output.bytes_read = r.output.bytes_read + n
      /\ t.eof_appear_sign = r.eof_appear_sign /\ t.output.end_input = r.output.end_input
  BY DEF PoppedOutput
<1>2. /\ r.output.bytes_read \in Nat /\ r.output.buffer_size \in 0 .. Capacity
      /\ r.next_pos = r.output.bytes_read + r.output.buffer_size /\ Capacity \in Nat
  BY Members
<1>3. r.output.bytes_read .. r.output.bytes_read + n - 1 \subseteq 0 .. r.next_pos - 1
  BY <1>2
<1>4. r.output.bytes_read .. r.output.bytes_read + n - 1 \subseteq Accepted(r)
  BY <1>3 DEF Accepted
<1> DEFINE a == View(r)
<1>5. a = [accepted  |-> Accepted(r), consumed |-> r.output.bytes_read,
           end_known |-> r.eof_appear_sign, ended |-> r.output.end_input]
  BY Zenon DEF View, Accepted
<1>6. View(t) = [accepted  |-> Accepted(t), consumed |-> t.output.bytes_read,
                 end_known |-> t.eof_appear_sign, ended |-> t.output.end_input]
  BY Zenon DEF View, Accepted
<1> HIDE DEF a
<1>7. Abs!CanRead(a, n)
  BY <1>4, <1>5 DEF Abs!CanRead
<1>8. View(t) = Abs!AbsRead(a, n)
  BY <1>1, <1>5, <1>6 DEF Abs!AbsRead
<1> QED BY <1>7, <1>8 DEF a

\* In every state of the invariant the next call does what Reassembly says.
LEMMA CallsExact == ASSUME IInv PROVE KeepsExactly
<1>1. ASSUME NEW index \in 0 .. StreamLen, NEW len \in 0 .. StreamLen, NEW fin \in BOOLEAN,
             Substring(index, len, fin)
      PROVE  View(push_substring(r, Bytes(index, len), index, fin))
                 = Abs!AbsPush(View(r), index, len, fin)
  <2>1. Pushed(r, push_substring(r, Bytes(index, len), index, fin), index, len, fin, Capacity, StreamLen)
    BY <1>1, PushCall, Zenon
  <2> QED BY <2>1, PushExact, Zenon
<1>2. ASSUME NEW len \in 1 .. Capacity
      PROVE  LET n == LesserOf(len, r.output.buffer_size)
             IN  /\ Abs!CanRead(View(r), n)
                 /\ View([r EXCEPT !.output = pop_output(@, len)]) = Abs!AbsRead(View(r), n)
  <2> DEFINE n == LesserOf(len, r.output.buffer_size)
  <2>1. n \in 0 .. Capacity /\ n <= r.output.buffer_size
    BY ReadSize
  <2>2. PoppedOutput(r, [r EXCEPT !.output = pop_output(r.output, len)], n, Capacity, StreamLen)
    BY ReadCall
  <2> HIDE DEF n
  <2>3. /\ Abs!CanRead(View(r), n)
        /\ View([r EXCEPT !.output = pop_output(r.output, len)]) = Abs!AbsRead(View(r), n)
    BY <2>1, <2>2, ReadExact, Zenon
  <2> QED BY <2>3, Zenon DEF n
<1> QED BY <1>1, <1>2, Zenon DEF KeepsExactly

\* The code implements Reassembly call for call.  Whatever has arrived before, the
\* next push_substring() keeps, of the range it is given, all that is below
\* consumed + Capacity and nothing else, the reader gets everything up to the first
\* index missing, and the end when nothing before it is missing; and so every
\* behaviour of the code is one of Reassembly.
THEOREM RefinesReassembly == Spec => Refines /\ []KeepsExactly
<1>1. ASSUME Init PROVE Abs!AbsInit
  <2>1. Accepted(r) = {}
    BY <1>1, NewSound, ReassemblerAssumption DEF Init
  <2>2. r.output.bytes_read = 0 /\ r.eof_appear_sign = FALSE /\ r.output.end_input = FALSE
    BY <1>1 DEF Init, NewStreamReassembler, NewByteStream
  <2> QED BY <2>1, <2>2, Zenon DEF Abs!AbsInit, Accepted, View
<1>2. ASSUME IInv, [Next]_r PROVE [Abs!AbsNext]_(View(r))
  <2>1. ASSUME NEW index \in 0 .. StreamLen, NEW len \in 0 .. StreamLen, NEW fin \in BOOLEAN,
               Push(index, len, fin)
        PROVE  Abs!AbsNext
    <3>1. Substring(index, len, fin) /\ r' = push_substring(r, Bytes(index, len), index, fin)
      BY <2>1 DEF Push
    <3>2. View(push_substring(r, Bytes(index, len), index, fin))
              = Abs!AbsPush(View(r), index, len, fin)
      BY <1>2, <3>1, CallsExact, Zenon DEF KeepsExactly
    <3>3. View(r)' = Abs!AbsPush(View(r), index, len, fin)
      BY <3>1, <3>2, Zenon DEF View
    <3> QED BY <3>3, Zenon DEF Abs!AbsNext
  <2>2. ASSUME NEW len \in 1 .. Capacity, Read(len) PROVE Abs!AbsNext
    <3> DEFINE n == LesserOf(len, r.output.buffer_size)
               t == [r EXCEPT !.output = pop_output(r.output, len)]
    <3>1. n \in 1 .. Capacity
      BY <1>2, <2>2, ReadSize DEF Read
    <3>2. r' = t
      BY <2>2 DEF Read
    <3>3. Abs!CanRead(View(r), n) /\ View(t) = Abs!AbsRead(View(r), n)
      BY <1>2, CallsExact, Zenon DEF KeepsExactly
    <3> HIDE DEF n, t
    <3>4. View(r)' = Abs!AbsRead(View(r), n)
      BY <3>2, <3>3, Zenon DEF View
    <3> QED BY <3>1, <3>3, <3>4, Zenon DEF Abs!AbsNext
  <2>3. CASE UNCHANGED r
    BY <2>3, Zenon DEF View
  <2> QED BY <1>2, <2>1, <2>2, <2>3, Zenon DEF Next
<1>3. IInv => KeepsExactly
  BY CallsExact
<1> QED BY <1>1, <1>2, <1>3, Invariance, PTL DEF Spec, Refines, Abs!AbsSpec

=============================================================================
