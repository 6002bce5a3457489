----------------------------- MODULE TCPLemmas -----------------------------
(***************************************************************************)
(* What the operators of ByteStream, WrappingIntegers, StreamReassembler,  *)
(* TCPReceiver and TCPSender do to any record, for every stream, capacity, *)
(* payload size, width of the sequence numbers and initial sequence        *)
(* number.  The proofs about those components alone and about the pair of  *)
(* endpoints rest on these.                                                *)
(*                                                                         *)
(* First: the least-number principle, sequences by length and positions,   *)
(* and a ByteStream whose bytes are named by their positions.              *)
(***************************************************************************)
EXTENDS TCPReceiver, TCPSender, FiniteSetTheorems, WellFoundedInduction, TLAPS

\* A non-empty set of natural numbers has a least element.
LEMMA LeastNumber ==
    ASSUME NEW T \in SUBSET Nat, T # {}
    PROVE  \E x \in T : \A y \in T : x <= y
<1>1. \E x \in T : \A y \in T : ~(<<y, x>> \in OpToRel(<, Nat))
  BY WFMin, NatLessThanWellFounded, Zenon
<1>2. \A x, y \in T : ~(<<y, x>> \in OpToRel(<, Nat)) => x <= y
  BY DEF OpToRel
<1> QED BY <1>1, <1>2

\* A set of numbers that are all below a bound has a greatest element.
LEMMA GreatestNumber ==
    ASSUME NEW T \in SUBSET Nat, T # {}, NEW b \in Nat, \A y \in T : y <= b
    PROVE  \E x \in T : \A y \in T : y <= x
<1> DEFINE U == {u \in Nat : \A y \in T : y <= u}
<1>1. U \in SUBSET Nat /\ U # {}
  BY Zenon
<1> HIDE DEF U
<1>2. PICK x \in U : \A y \in U : x <= y
  BY <1>1, LeastNumber
<1>3. x \in Nat /\ \A y \in T : y <= x
  BY <1>2 DEF U
<1>4. ASSUME x \notin T PROVE FALSE
  <2>1. PICK t \in T : TRUE
    OBVIOUS
  <2>2. x > 0 /\ x - 1 \in Nat /\ \A y \in T : y <= x - 1
    BY <1>3, <1>4, <2>1
  <2>3. x - 1 \in U
    BY <2>2 DEF U
  <2> QED BY <1>2, <1>3, <2>2, <2>3
<1> QED BY <1>3, <1>4

-----------------------------------------------------------------------------

\* A sequence of bytes named by position, by length and positions.
LEMMA BytesProperties ==
    ASSUME NEW first \in Int, NEW len \in Nat
    PROVE  /\ Bytes(first, len) \in Seq(Int)
           /\ Len(Bytes(first, len)) = len
           /\ \A i \in 1 .. len : Bytes(first, len)[i] = first + i - 1
BY DEF Bytes

\* SubSeq, by length and positions.
LEMMA SubSeqProperties ==
    ASSUME NEW S, NEW q \in Seq(S), NEW m \in 1 .. Len(q) + 1, NEW n \in m - 1 .. Len(q)
    PROVE  /\ SubSeq(q, m, n) \in Seq(S)
           /\ Len(SubSeq(q, m, n)) = n - m + 1
           /\ \A i \in 1 .. n - m + 1 : SubSeq(q, m, n)[i] = q[m + i - 1]
OBVIOUS

\* The first m elements, and the others.
LEMMA SplitProperties ==
    ASSUME NEW S, NEW q \in Seq(S), NEW m \in 0 .. Len(q)
    PROVE  /\ SubSeq(q, 1, m) \in Seq(S)
           /\ Len(SubSeq(q, 1, m)) = m
           /\ \A i \in 1 .. m : SubSeq(q, 1, m)[i] = q[i]
           /\ SubSeq(q, m + 1, Len(q)) \in Seq(S)
           /\ Len(SubSeq(q, m + 1, Len(q))) = Len(q) - m
           /\ \A i \in 1 .. Len(q) - m : SubSeq(q, m + 1, Len(q))[i] = q[m + i]
OBVIOUS

\* Concatenation, by length and positions.
LEMMA ConcatProperties ==
    ASSUME NEW S, NEW p \in Seq(S), NEW q \in Seq(S)
    PROVE  /\ p \o q \in Seq(S)
           /\ Len(p \o q) = Len(p) + Len(q)
           /\ \A i \in 1 .. Len(p) : (p \o q)[i] = p[i]
           /\ \A i \in 1 .. Len(q) : (p \o q)[Len(p) + i] = q[i]
OBVIOUS

\* The same for sequences of integers.
LEMMA ConcatIntegers ==
    ASSUME NEW p \in Seq(Int), NEW q \in Seq(Int)
    PROVE  /\ p \o q \in Seq(Int)
           /\ Len(p \o q) = Len(p) + Len(q)
           /\ \A i \in 1 .. Len(p) : (p \o q)[i] = p[i]
           /\ \A i \in 1 .. Len(q) : (p \o q)[Len(p) + i] = q[i]
OBVIOUS

\* Two sequences with the same length and elements are equal.
LEMMA SeqEqual ==
    ASSUME NEW S, NEW p \in Seq(S), NEW q \in Seq(S), Len(p) = Len(q),
           \A i \in 1 .. Len(p) : p[i] = q[i]
    PROVE  p = q
OBVIOUS

\* A sequence whose elements lie in a set is a sequence over that set.
LEMMA SeqOver ==
    ASSUME NEW q \in Seq(Int), NEW S, \A i \in 1 .. Len(q) : q[i] \in S
    PROVE  q \in Seq(S)
OBVIOUS

\* A function on 1 .. k with values in a set is a sequence over that set.
LEMMA SeqOfFunction ==
    ASSUME NEW S, NEW k \in Nat, NEW f \in [1 .. k -> S]
    PROVE  f \in Seq(S) /\ Len(f) = k
OBVIOUS

\* A sequence is named by position exactly when each element is in its place.
LEMMA IsBytes ==
    ASSUME NEW q \in Seq(Int), NEW first \in Int, NEW len \in Nat, Len(q) = len,
           \A i \in 1 .. len : q[i] = first + i - 1
    PROVE  q = Bytes(first, len)
<1> DEFINE b == Bytes(first, len)
<1>1. b \in Seq(Int) /\ Len(b) = len /\ \A i \in 1 .. len : b[i] = first + i - 1
  BY BytesProperties
<1> HIDE DEF b
<1>2. q = b
  BY <1>1, SeqEqual
<1> QED BY <1>2 DEF b

\* Consecutive pieces of the stream make one piece.
LEMMA BytesConcat ==
    ASSUME NEW first \in Int, NEW m \in Nat, NEW n \in Nat
    PROVE  Bytes(first, m) \o Bytes(first + m, n) = Bytes(first, m + n)
<1> DEFINE p == Bytes(first, m)  q == Bytes(first + m, n)  w == p \o q
<1>1. /\ p \in Seq(Int) /\ Len(p) = m /\ \A i \in 1 .. m : p[i] = first + i - 1
      /\ q \in Seq(Int) /\ Len(q) = n /\ \A i \in 1 .. n : q[i] = first + m + i - 1
  BY BytesProperties
<1> HIDE DEF p, q
<1>2. /\ w \in Seq(Int) /\ Len(w) = m + n
      /\ \A i \in 1 .. m : w[i] = p[i]
      /\ \A i \in 1 .. n : w[m + i] = q[i]
  BY <1>1, ConcatIntegers
<1> HIDE DEF w
<1>3. ASSUME NEW i \in 1 .. m + n PROVE w[i] = first + i - 1
  <2>1. CASE i <= m
    BY <1>1, <1>2, <2>1
  <2>2. CASE i > m
    <3> DEFINE j == i - m
    <3>1. j \in 1 .. n /\ i = m + j
      BY <2>2
    <3> HIDE DEF j
    <3>2. w[i] = q[j] /\ q[j] = first + m + j - 1
      BY <1>1, <1>2, <3>1, Zenon
    <3> QED BY <3>1, <3>2
  <2> QED BY <2>1, <2>2
<1>4. w = Bytes(first, m + n)
  BY <1>2, <1>3, IsBytes
<1> QED BY <1>4 DEF w, p, q

\* A piece of a piece of the stream.
LEMMA BytesSubSeq ==
    ASSUME NEW first \in Int, NEW len \in Nat,
           NEW m \in 1 .. len + 1, NEW n \in m - 1 .. len
    PROVE  SubSeq(Bytes(first, len), m, n) = Bytes(first + m - 1, n - m + 1)
<1> DEFINE p == Bytes(first, len)  q == SubSeq(p, m, n)
<1>1. p \in Seq(Int) /\ Len(p) = len /\ \A i \in 1 .. len : p[i] = first + i - 1
  BY BytesProperties
<1> HIDE DEF p
<1>2. /\ q \in Seq(Int) /\ Len(q) = n - m + 1
      /\ \A i \in 1 .. n - m + 1 : q[i] = p[m + i - 1]
  BY <1>1, SubSeqProperties
<1> HIDE DEF q
<1>3. n - m + 1 \in Nat /\ first + m - 1 \in Int
  OBVIOUS
<1>4. \A i \in 1 .. n - m + 1 : q[i] = (first + m - 1) + i - 1
  BY <1>1, <1>2
<1>5. q = Bytes(first + m - 1, n - m + 1)
  BY <1>2, <1>3, <1>4, IsBytes
<1> QED BY <1>5 DEF q, p

-----------------------------------------------------------------------------

\* A stream of the given capacity that holds, in order, the bytes between what
\* has been read and what has been written.
InOrder(s, cap) ==
    /\ s = [capacity      |-> s.capacity,      bytes_written |-> s.bytes_written,
            bytes_read    |-> s.bytes_read,    buffer        |-> s.buffer,
            buffer_size   |-> s.buffer_size,   end_input     |-> s.end_input,
            error         |-> s.error]
    /\ s.capacity = cap /\ s.end_input \in BOOLEAN /\ s.error \in BOOLEAN
    /\ s.bytes_read \in Nat /\ s.buffer_size \in 0 .. cap
    /\ s.bytes_written = s.bytes_read + s.buffer_size
    /\ s.buffer = Bytes(s.bytes_read, s.buffer_size)

\* The constructor's stream is in order.
LEMMA NewInOrder == ASSUME NEW cap \in Nat PROVE InOrder(NewByteStream(cap), cap)
BY DEF InOrder, NewByteStream, Bytes

\* t is s after a write() of the next len bytes, of which it accepted c.
Wrote(s, t, c, len, cap) ==
    /\ InOrder(t, cap)
    /\ c \in 0 .. len /\ c = LesserOf(cap - s.buffer_size, len)
    /\ t.bytes_written = s.bytes_written + c /\ t.bytes_read = s.bytes_read
    /\ t.buffer_size = s.buffer_size + c
    /\ t.end_input = s.end_input /\ t.error = s.error

\* write() of the next len bytes appends a prefix of them.
LEMMA WriteInOrder ==
    ASSUME NEW cap \in Nat, NEW s, InOrder(s, cap), NEW len \in Nat
    PROVE  Wrote(s, write(s, Bytes(s.bytes_written, len)),
                 write_count(s, Bytes(s.bytes_written, len)), len, cap)
<1> DEFINE d == Bytes(s.bytes_written, len)
           c == write_count(s, d)
           t == write(s, d)
<1>1. /\ s.bytes_read \in Nat /\ s.buffer_size \in Nat /\ s.buffer_size <= cap
      /\ s.bytes_written = s.bytes_read + s.buffer_size /\ s.bytes_written \in Nat
      /\ s.buffer = Bytes(s.bytes_read, s.buffer_size) /\ s.capacity = cap
  BY DEF InOrder
<1>2. Len(d) = len
  BY <1>1, BytesProperties
<1>3. c \in 0 .. len /\ c = LesserOf(cap - s.buffer_size, len) /\ s.buffer_size + c <= cap
  BY <1>1, <1>2 DEF write_count, remaining_capacity, LesserOf
<1>4. t = [s EXCEPT !.buffer        = s.buffer \o SubSeq(d, 1, c),
                    !.buffer_size   = s.buffer_size + c,
                    !.bytes_written = s.bytes_written + c]
  BY DEF write
<1> HIDE DEF c, t
<1>5. SubSeq(d, 1, c) = Bytes(s.bytes_written, c)
  <2>1. SubSeq(d, 1, c) = Bytes(s.bytes_written + 1 - 1, c - 1 + 1)
    <3>1. s.bytes_written \in Int /\ 1 \in 1 .. len + 1 /\ c \in 1 - 1 .. len
      BY <1>1, <1>3
    <3> QED BY <3>1, BytesSubSeq, Zenon
  <2>2. s.bytes_written + 1 - 1 = s.bytes_written /\ c - 1 + 1 = c
    BY <1>1, <1>3
  <2> QED BY <2>1, <2>2
<1>6. s.buffer \o SubSeq(d, 1, c) = Bytes(s.bytes_read, s.buffer_size + c)
  <2>1. c \in Nat /\ s.bytes_read \in Int
    BY <1>1, <1>3
  <2>2. Bytes(s.bytes_read, s.buffer_size) \o Bytes(s.bytes_read + s.buffer_size, c)
            = Bytes(s.bytes_read, s.buffer_size + c)
    BY <1>1, <2>1, BytesConcat, Zenon
  <2> QED BY <1>1, <1>5, <2>2
<1> HIDE DEF d
<1>7. /\ t.bytes_written = s.bytes_written + c /\ t.bytes_read = s.bytes_read
      /\ t.buffer_size = s.buffer_size + c /\ t.capacity = cap
      /\ t.buffer = Bytes(s.bytes_read, s.buffer_size + c)
      /\ t.end_input = s.end_input /\ t.error = s.error
      /\ t = [capacity |-> t.capacity, bytes_written |-> t.bytes_written,
              bytes_read |-> t.bytes_read, buffer |-> t.buffer,
              buffer_size |-> t.buffer_size, end_input |-> t.end_input, error |-> t.error]
  BY <1>4, <1>6 DEF InOrder
<1>8. t.buffer_size \in 0 .. cap /\ t.bytes_written = t.bytes_read + t.buffer_size
  BY <1>1, <1>3, <1>7
<1>9. InOrder(t, cap)
  BY <1>1, <1>7, <1>8 DEF InOrder
<1> QED BY <1>3, <1>7, <1>9, Zenon DEF c, t, d, Wrote

\* pop_output() of n buffered bytes removes the first n.
LEMMA PopInOrder ==
    ASSUME NEW cap \in Nat, NEW s, InOrder(s, cap), NEW n \in 0 .. s.buffer_size
    PROVE  LET t == pop_output(s, n)
           IN  /\ InOrder(t, cap)
               /\ t.bytes_written = s.bytes_written /\ t.bytes_read = s.bytes_read + n
               /\ t.buffer_size = s.buffer_size - n
               /\ t.end_input = s.end_input /\ t.error = s.error
<1> DEFINE t == pop_output(s, n)
<1>1. /\ s.bytes_read \in Nat /\ s.buffer_size \in Nat /\ s.buffer_size <= cap
      /\ s.bytes_written = s.bytes_read + s.buffer_size /\ n \in Nat /\ n <= s.buffer_size
      /\ s.buffer = Bytes(s.bytes_read, s.buffer_size) /\ s.capacity = cap
  BY DEF InOrder
<1>2. LesserOf(n, s.buffer_size) = n
  BY <1>1 DEF LesserOf
<1>3. Len(s.buffer) = s.buffer_size
  <2> DEFINE b == Bytes(s.bytes_read, s.buffer_size)
  <2>1. s.bytes_read \in Int
    BY <1>1
  <2>2. Len(b) = s.buffer_size
    BY <1>1, <2>1, BytesProperties, Zenon
  <2> QED BY <1>1, <2>2
<1>4. SubSeq(s.buffer, n + 1, Len(s.buffer)) = Bytes(s.bytes_read + n, s.buffer_size - n)
  <2>1. SubSeq(s.buffer, n + 1, s.buffer_size)
            = Bytes(s.bytes_read + (n + 1) - 1, s.buffer_size - (n + 1) + 1)
    <3>1. n + 1 \in 1 .. s.buffer_size + 1 /\ s.buffer_size \in (n + 1) - 1 .. s.buffer_size
      BY <1>1
    <3>2. s.bytes_read \in Int
      BY <1>1
    <3> QED BY <1>1, <3>1, <3>2, BytesSubSeq, ZenonT(60)
  <2>2. /\ s.bytes_read + (n + 1) - 1 = s.bytes_read + n
        /\ s.buffer_size - (n + 1) + 1 = s.buffer_size - n
    BY <1>1
  <2> QED BY <1>3, <2>1, <2>2
<1>5. t = [s EXCEPT !.buffer      = SubSeq(s.buffer, n + 1, Len(s.buffer)),
                    !.bytes_read  = s.bytes_read + n,
                    !.buffer_size = s.buffer_size - n]
  BY <1>2 DEF pop_output
<1> HIDE DEF t
<1>6. /\ t.bytes_written = s.bytes_written /\ t.bytes_read = s.bytes_read + n
      /\ t.buffer_size = s.buffer_size - n /\ t.capacity = cap
      /\ t.buffer = Bytes(s.bytes_read + n, s.buffer_size - n)
      /\ t.end_input = s.end_input /\ t.error = s.error
      /\ t = [capacity |-> t.capacity, bytes_written |-> t.bytes_written,
              bytes_read |-> t.bytes_read, buffer |-> t.buffer,
              buffer_size |-> t.buffer_size, end_input |-> t.end_input, error |-> t.error]
  BY <1>4, <1>5 DEF InOrder
<1>7. /\ t.buffer_size \in 0 .. cap /\ t.bytes_written = t.bytes_read + t.buffer_size
      /\ t.bytes_read \in Nat
  BY <1>1, <1>6
<1>8. InOrder(t, cap)
  BY <1>1, <1>6, <1>7 DEF InOrder
<1> QED BY <1>6, <1>8 DEF t

\* peek_output() of n buffered bytes returns the first n.
LEMMA PeekInOrder ==
    ASSUME NEW cap \in Nat, NEW s, InOrder(s, cap), NEW n \in 0 .. s.buffer_size
    PROVE  peek_output(s, n) = Bytes(s.bytes_read, n)
<1>1. /\ s.bytes_read \in Nat /\ s.buffer_size \in Nat /\ n \in Nat /\ n <= s.buffer_size
      /\ s.buffer = Bytes(s.bytes_read, s.buffer_size)
  BY DEF InOrder
<1>2. peek_output(s, n) = SubSeq(s.buffer, 1, n)
  BY <1>1 DEF peek_output, LesserOf
<1>3. SubSeq(s.buffer, 1, n) = Bytes(s.bytes_read + 1 - 1, n - 1 + 1)
  <2>1. s.bytes_read \in Int /\ 1 \in 1 .. s.buffer_size + 1 /\ n \in 1 - 1 .. s.buffer_size
    BY <1>1
  <2> QED BY <1>1, <2>1, BytesSubSeq, ZenonT(60)
<1>4. s.bytes_read + 1 - 1 = s.bytes_read /\ n - 1 + 1 = n
  BY <1>1
<1> QED BY <1>2, <1>3, <1>4

\* end_input() sets its flag and nothing else.
LEMMA EndInOrder ==
    ASSUME NEW cap \in Nat, NEW s, InOrder(s, cap)
    PROVE  LET t == end_input(s)
           IN  /\ InOrder(t, cap) /\ t.end_input
               /\ t.bytes_written = s.bytes_written /\ t.bytes_read = s.bytes_read
               /\ t.buffer_size = s.buffer_size /\ t.error = s.error
<1> DEFINE t == end_input(s)
<1>0. t = [s EXCEPT !.end_input = TRUE]
  BY DEF end_input
<1> HIDE DEF t
<1>1. /\ t.end_input = TRUE
      /\ t.bytes_written = s.bytes_written /\ t.bytes_read = s.bytes_read
      /\ t.buffer_size = s.buffer_size /\ t.error = s.error
      /\ t.buffer = s.buffer /\ t.capacity = s.capacity
      /\ t = [capacity |-> t.capacity, bytes_written |-> t.bytes_written,
              bytes_read |-> t.bytes_read, buffer |-> t.buffer,
              buffer_size |-> t.buffer_size, end_input |-> t.end_input, error |-> t.error]
  BY <1>0 DEF InOrder
<1>2. InOrder(t, cap)
  BY <1>1 DEF InOrder
<1> QED BY <1>1, <1>2 DEF t

\* A stream in order whose bytes are below a bound satisfies its type.
LEMMA InOrderType ==
    ASSUME NEW cap \in Nat, NEW s, InOrder(s, cap), NEW bound \in Nat, s.bytes_written <= bound
    PROVE  s \in ByteStreams(0 .. bound - 1, cap)
<1>1. /\ s.bytes_read \in Nat /\ s.buffer_size \in Nat
      /\ s.bytes_written = s.bytes_read + s.buffer_size /\ s.bytes_written \in Nat
      /\ s.buffer = Bytes(s.bytes_read, s.buffer_size)
  BY DEF InOrder
<1>2. /\ s.buffer \in Seq(Int) /\ Len(s.buffer) = s.buffer_size
      /\ \A i \in 1 .. s.buffer_size : s.buffer[i] = s.bytes_read + i - 1
  <2> DEFINE b == Bytes(s.bytes_read, s.buffer_size)
  <2>1. s.bytes_read \in Int
    BY <1>1
  <2>2. /\ b \in Seq(Int) /\ Len(b) = s.buffer_size
        /\ \A i \in 1 .. s.buffer_size : b[i] = s.bytes_read + i - 1
    BY <1>1, <2>1, BytesProperties, Zenon
  <2> HIDE DEF b
  <2>3. s.buffer = b
    BY <1>1 DEF b
  <2> QED BY <2>2, <2>3
<1>3. ASSUME NEW i \in 1 .. Len(s.buffer) PROVE s.buffer[i] \in 0 .. bound - 1
  <2>1. i \in 1 .. s.buffer_size
    BY <1>2
  <2>2. s.buffer[i] = s.bytes_read + i - 1
    BY <1>2, <2>1
  <2> QED BY <1>1, <2>1, <2>2
<1>4. s.buffer \in Seq(0 .. bound - 1)
  BY <1>2, <1>3, SeqOver
<1> QED BY <1>1, <1>4 DEF InOrder, ByteStreams

-----------------------------------------------------------------------------
\* Sequence numbers: unwrap inverts wrap around the checkpoint, returns a number
\* with the given header, and never goes below zero.

\* The sequence space is twice its half and not empty.
LEMMA SpaceType == SeqSpace \in Nat /\ SeqSpace > 0 /\ HalfRange < SeqSpace /\ SeqSpace = HalfRange + HalfRange
BY HalfRangeAssumption DEF SeqSpace

\* A remainder lies below the modulus (32-bit arithmetic of WrappingInt32).
LEMMA ModRange == ASSUME NEW S \in Nat, S > 0, NEW x \in Int
                  PROVE  x % S \in 0 .. S - 1
OBVIOUS

\* Division with remainder, by the integer quotient.
LEMMA ModQuotient == ASSUME NEW S \in Nat, S > 0, NEW x \in Int
                  PROVE  \E q \in Int : x = q * S + (x % S)
<1>1. x = (x \div S) * S + (x % S)
  OBVIOUS
<1>2. x \div S \in Int
  OBVIOUS
<1> QED BY <1>1, <1>2

\* The only multiple of S strictly between -S and S is zero.
LEMMA SmallMultiple == ASSUME NEW S \in Nat, S > 0, NEW k \in Int, -S < k * S, k * S < S
                       PROVE  k = 0
OBVIOUS

\* A number r below S that differs from x by a multiple of S is x modulo S.
LEMMA ModUnique == ASSUME NEW S \in Nat, S > 0, NEW x \in Int, NEW k \in Int,
                          NEW r \in 0 .. S - 1, x = k * S + r
                   PROVE  x % S = r
<1>1. PICK q \in Int : x = q * S + (x % S)
  BY ModQuotient
<1>2. x % S \in 0 .. S - 1
  BY ModRange
<1>3. (q - k) * S = r - (x % S)
  <2>1. (q - k) * S = q * S - k * S
    OBVIOUS
  <2> QED BY <1>1, <1>2, <2>1
<1>4. q - k = 0
  <2>1. -S < (q - k) * S /\ (q - k) * S < S
    BY <1>2, <1>3
  <2> QED BY <2>1, SmallMultiple
<1> QED BY <1>2, <1>3, <1>4

\* Distributivity, which the arithmetic of the provers does not use by itself.
LEMMA Distribute == ASSUME NEW S \in Int, NEW k \in Int, NEW p \in Int, NEW q \in Int
                    PROVE  /\ (k - p + q) * S = k * S - p * S + q * S
                           /\ k * S \in Int /\ p * S \in Int /\ q * S \in Int
OBVIOUS

\* An absolute number a that lies k sequence spaces and r after c has offset r.
LEMMA OffsetOf ==
    ASSUME NEW i \in SeqNo, NEW c \in Nat, NEW a \in Nat, NEW k \in Int,
           NEW r \in 0 .. SeqSpace - 1, a - c = k * SeqSpace + r
    PROVE  Offset(wrap(a, i), i, c) = r
<1> DEFINE S == SeqSpace  x == i + a  y == i + c  u == x % S  v == y % S
<1>1. S \in Nat /\ S > 0 /\ x \in Int /\ y \in Int
  BY SpaceType DEF SeqNo
<1>2. x - y = k * S + r /\ r \in 0 .. S - 1
  <2>1. x - y = a - c
    BY SpaceType DEF SeqNo
  <2> QED BY <2>1, Zenon
<1>3. Offset(wrap(a, i), i, c) = (u - v) % S
  BY DEF Offset, wrap
<1> HIDE DEF S, x, y
<1>4. PICK p \in Int : x = p * S + u
  BY <1>1, ModQuotient
<1>5. PICK q \in Int : y = q * S + v
  BY <1>1, ModQuotient
<1>6. u \in Int /\ v \in Int /\ r \in Int
  BY <1>1, <1>2, ModRange
<1> HIDE DEF u, v
<1>7. /\ (k - p + q) * S = k * S - p * S + q * S
      /\ k * S \in Int /\ p * S \in Int /\ q * S \in Int
  BY <1>1, Distribute
<1>8. u - v = (k - p + q) * S + r
  <2> DEFINE kS == k * S  pS == p * S  qS == q * S
  <2>1. kS \in Int /\ pS \in Int /\ qS \in Int
    BY <1>7
  <2>2. x = pS + u /\ y = qS + v /\ x - y = kS + r
    BY <1>2, <1>4, <1>5
  <2> HIDE DEF kS, pS, qS
  <2>3. u - v = (kS - pS + qS) + r
    BY <1>1, <1>6, <2>1, <2>2
  <2> QED BY <1>7, <2>3, Zenon DEF kS, pS, qS
<1>9. k - p + q \in Int /\ u - v \in Int
  BY <1>6
<1>10. (u - v) % S = r
  <2> DEFINE d == u - v  m == k - p + q
  <2>1. d \in Int /\ m \in Int /\ d = m * S + r
    BY <1>8, <1>9, Zenon
  <2> HIDE DEF d, m
  <2>2. d % S = r
    BY <1>1, <1>2, <2>1, ModUnique, ZenonT(60)
  <2> QED BY <2>2 DEF d
<1> QED BY <1>3, <1>10, Zenon

\* The 32-bit difference in unwrap is a header number.
LEMMA OffsetRange == ASSUME NEW n \in SeqNo, NEW i \in SeqNo, NEW c \in Nat
                     PROVE  Offset(n, i, c) \in 0 .. SeqSpace - 1
<1>1. SeqSpace \in Nat /\ SeqSpace > 0 /\ i + c \in Int /\ n \in Int
  BY SpaceType DEF SeqNo
<1>2. wrap(c, i) \in Int
  BY <1>1, ModRange DEF wrap
<1> QED BY <1>1, <1>2, ModRange DEF Offset

\* wrap returns a 32-bit number.
LEMMA WrapType == ASSUME NEW i \in SeqNo, NEW a \in Nat
                  PROVE  wrap(a, i) \in SeqNo
<1>1. SeqSpace \in Nat /\ SeqSpace > 0 /\ i + a \in Int
  BY SpaceType DEF SeqNo
<1> QED BY <1>1, ModRange DEF wrap, SeqNo

\* unwrap never returns a negative number: its 64-bit subtraction never wraps.
LEMMA UnwrapType == ASSUME NEW n \in SeqNo, NEW i \in SeqNo, NEW c \in Nat
                    PROVE  unwrap(n, i, c) \in Nat
BY OffsetRange, SpaceType DEF unwrap

\* unwrap(wrap(a)) = a for every absolute number a less than half the sequence
\* space from the checkpoint: what TCPReceiver::segment_received and
\* TCPSender::ack_received rely on, for every width of the header field.
THEOREM UnwrapInvertsWrap ==
    ASSUME NEW i \in SeqNo, NEW c \in Nat, NEW a \in Nat,
           a - c < HalfRange, c - a < HalfRange
    PROVE  unwrap(wrap(a, i), i, c) = a
<1>1. CASE a >= c
  <2>1. a - c \in 0 .. SeqSpace - 1 /\ a - c < HalfRange
    BY <1>1, SpaceType, HalfRangeAssumption
  <2>2. a - c = 0 * SeqSpace + (a - c)
    BY SpaceType
  <2>3. Offset(wrap(a, i), i, c) = a - c
    BY <2>1, <2>2, OffsetOf
  <2> QED BY <2>1, <2>3, HalfRangeAssumption DEF unwrap
<1>2. CASE a < c
  <2> DEFINE r == a - c + SeqSpace
  <2>1. r \in 0 .. SeqSpace - 1 /\ r >= HalfRange /\ c + r = a + SeqSpace
    BY <1>2, SpaceType, HalfRangeAssumption
  <2>2. a - c = (-1) * SeqSpace + r
    BY SpaceType
  <2> HIDE DEF r
  <2>3. Offset(wrap(a, i), i, c) = r
    BY <2>1, <2>2, OffsetOf
  <2> QED BY <2>1, <2>3, SpaceType DEF unwrap
<1> QED BY <1>1, <1>2

\* The two outcomes of unwrap.
LEMMA UnwrapCases ==
    ASSUME NEW n \in SeqNo, NEW i \in SeqNo, NEW c \in Nat, NEW o, o = Offset(n, i, c)
    PROVE  /\ o >= HalfRange /\ c + o >= SeqSpace => unwrap(n, i, c) = c + o - SeqSpace
           /\ ~(o >= HalfRange /\ c + o >= SeqSpace) => unwrap(n, i, c) = c + o
BY OffsetRange, SpaceType DEF unwrap

\* The sign of a multiple of S; a negative one is at most -S.
LEMMA MultipleSign == ASSUME NEW S \in Nat, NEW k \in Int
                      PROVE  /\ k * S \in Int
                             /\ k >= 0 => k * S >= 0
                             /\ k < 0 => k * S <= -S
<1>1. k >= 0 => k * S >= 0
  OBVIOUS
<1>2. ASSUME k < 0 PROVE k * S <= -S
  <2>1. (-1 - k) * S >= 0
    BY <1>2
  <2>2. (-1 - k) * S = -S - k * S
    OBVIOUS
  <2> QED BY <2>1, <2>2
<1> QED BY <1>1, <1>2

\* Every absolute number with header n lies a whole number of sequence spaces
\* from checkpoint + Offset.
LEMMA Candidates ==
    ASSUME NEW n \in SeqNo, NEW i \in SeqNo, NEW c \in Nat, NEW m \in Nat, wrap(m, i) = n
    PROVE  \E k \in Int : m - c = k * SeqSpace + Offset(n, i, c)
<1>1. SeqSpace \in Nat /\ SeqSpace > 0 /\ m - c \in Int
  BY SpaceType
<1>2. PICK k \in Int : m - c = k * SeqSpace + ((m - c) % SeqSpace)
  BY <1>1, ModQuotient
<1>3. (m - c) % SeqSpace \in 0 .. SeqSpace - 1
  BY <1>1, ModRange
<1>4. Offset(n, i, c) = (m - c) % SeqSpace
  <2> DEFINE r == (m - c) % SeqSpace
  <2>1. r \in 0 .. SeqSpace - 1 /\ m - c = k * SeqSpace + r
    BY <1>2, <1>3
  <2> HIDE DEF r
  <2>2. Offset(wrap(m, i), i, c) = r
    BY <2>1, OffsetOf
  <2> QED BY <2>2 DEF r
<1> QED BY <1>2, <1>4

\* unwrap returns a number with the given header.
LEMMA UnwrapWraps == ASSUME NEW n \in SeqNo, NEW i \in SeqNo, NEW c \in Nat
                     PROVE  wrap(unwrap(n, i, c), i) = n
<1> DEFINE S == SeqSpace  w == wrap(c, i)  o == Offset(n, i, c)
<1>1. S \in Nat /\ S > 0 /\ i + c \in Int /\ n \in Int /\ i \in Int /\ n \in 0 .. S - 1
  BY SpaceType DEF SeqNo
<1>2. unwrap(n, i, c) \in {c + o - S, c + o}
  BY UnwrapCases
<1>3. \A z : wrap(z, i) = (i + z) % S
  BY DEF wrap
<1>b. w = (i + c) % S /\ o = (n - w) % S
  BY DEF wrap, Offset
<1> HIDE DEF S, w, o
<1>4. PICK q \in Int : i + c = q * S + w
  BY <1>1, <1>b, ModQuotient
<1>5. w \in Int
  BY <1>1, <1>b, ModRange
<1>6. PICK p \in Int : n - w = p * S + o
  <2> DEFINE d == n - w
  <2>1. d \in Int /\ o = d % S
    BY <1>1, <1>5, <1>b
  <2> HIDE DEF d
  <2>2. \E p \in Int : d = p * S + o
    BY <1>1, <2>1, ModQuotient
  <2> QED BY <2>2 DEF d
<1>7. o \in Int
  BY <1>1, <1>5, <1>b, ModRange
<1>8. /\ (q - p) * S = q * S - p * S /\ (q - p - 1) * S = q * S - p * S - S
      /\ p * S \in Int /\ q * S \in Int
  BY <1>1
<1>9. i + (c + o) = (q - p) * S + n /\ i + (c + o - S) = (q - p - 1) * S + n
  <2> DEFINE pS == p * S  qS == q * S
  <2>1. pS \in Int /\ qS \in Int /\ i + c = qS + w /\ n - w = pS + o
    BY <1>4, <1>6, <1>8
  <2> HIDE DEF pS, qS
  <2>2. i + (c + o) = qS - pS + n /\ i + (c + o - S) = qS - pS - S + n
    BY <1>1, <1>5, <1>7, <2>1
  <2> QED BY <1>8, <2>2, Zenon DEF pS, qS
<1>10. (i + (c + o)) % S = n /\ (i + (c + o - S)) % S = n
  <2> DEFINE x == i + (c + o)  y == i + (c + o - S)  k == q - p  l == q - p - 1
  <2>1. x \in Int /\ y \in Int /\ k \in Int /\ l \in Int
    BY <1>1, <1>7
  <2>2. x = k * S + n /\ y = l * S + n
    BY <1>9, Zenon
  <2> HIDE DEF x, y, k, l
  <2>3. x % S = n
    BY <1>1, <2>1, <2>2, ModUnique, Zenon
  <2>4. y % S = n
    BY <1>1, <2>1, <2>2, ModUnique, Zenon
  <2> QED BY <2>3, <2>4 DEF x, y
<1> QED BY <1>2, <1>3, <1>10, Zenon

-----------------------------------------------------------------------------
\* What push_substring does to a reassembler whose map is in order.

\* The entries of the map are not empty, start at lo or later, end at L and at
\* top at the latest, and do not overlap.
Apart(buf, lo, L, top) ==
    /\ DOMAIN buf \subseteq Nat
    /\ \A k \in DOMAIN buf :
           /\ SegEnd(buf, k) \in Nat /\ lo <= k /\ k < SegEnd(buf, k)
           /\ SegEnd(buf, k) <= L /\ SegEnd(buf, k) <= top
    /\ \A j, k \in DOMAIN buf : j < k => SegEnd(buf, j) <= k

\* Every entry holds the bytes of its indices.
InPlace(buf) ==
    \A k \in DOMAIN buf : Len(buf[k]) \in Nat /\ buf[k] = Bytes(k, Len(buf[k]))

-----------------------------------------------------------------------------

\* The greatest of a bounded set of numbers.
LEMMA MaxOf ==
    ASSUME NEW S \in SUBSET Nat, S # {}, NEW b \in Nat, \A x \in S : x <= b
    PROVE  Max(S) \in S /\ \A x \in S : x <= Max(S)
<1>1. \E x \in S : \A y \in S : y <= x
  BY GreatestNumber, Zenon
<1>2. \E x \in S : \A y \in S : x >= y
  BY <1>1
<1> DEFINE m == CHOOSE x \in S : \A y \in S : x >= y
<1>3. m \in S /\ \A y \in S : m >= y
  BY <1>2
<1>4. m = Max(S)
  BY DEF Max
<1> HIDE DEF m
<1> QED BY <1>3, <1>4

\* The least of a set of numbers.
LEMMA MinOf ==
    ASSUME NEW S \in SUBSET Nat, S # {}
    PROVE  Min(S) \in S /\ \A x \in S : Min(S) <= x
<1>1. \E x \in S : \A y \in S : x <= y
  BY LeastNumber, Zenon
<1> DEFINE m == CHOOSE x \in S : \A y \in S : x =< y
<1>3. m \in S /\ \A y \in S : m <= y
  BY <1>1
<1>4. m = Min(S)
  BY DEF Min
<1> HIDE DEF m
<1> QED BY <1>3, <1>4

\* An index is held when it lies in some entry.
LEMMA HeldMember ==
    ASSUME NEW buf, NEW lo, NEW L, NEW top, Apart(buf, lo, L, top), NEW i
    PROVE  i \in Held(buf) <=> /\ i \in Nat
                               /\ \E k \in DOMAIN buf : k <= i /\ i < SegEnd(buf, k)
<1>1. ASSUME NEW k \in DOMAIN buf
      PROVE  i \in k .. SegEnd(buf, k) - 1 <=> i \in Nat /\ k <= i /\ i < SegEnd(buf, k)
  <2>1. k \in Nat /\ SegEnd(buf, k) \in Nat
    BY DEF Apart
  <2> QED BY <2>1
<1>2. i \in Held(buf) <=> \E k \in DOMAIN buf : i \in k .. SegEnd(buf, k) - 1
  BY Zenon DEF Held
<1> QED BY <1>1, <1>2, Zenon

\* Nothing is held above the bounds, and the held indices are finitely many.
LEMMA HeldBounded ==
    ASSUME NEW buf, NEW lo \in Nat, NEW L \in Nat, NEW top \in Nat, Apart(buf, lo, L, top)
    PROVE  /\ \A i \in Held(buf) : i \in Nat /\ lo <= i /\ i < L /\ i < top
           /\ IsFiniteSet(Held(buf))
<1>1. ASSUME NEW i \in Held(buf) PROVE i \in Nat /\ lo <= i /\ i < L /\ i < top
  <2>1. i \in Nat /\ \E k \in DOMAIN buf : k <= i /\ i < SegEnd(buf, k)
    BY HeldMember, Zenon
  <2>2. PICK k \in DOMAIN buf : k <= i /\ i < SegEnd(buf, k)
    BY <2>1
  <2>3. k \in Nat /\ SegEnd(buf, k) \in Nat /\ lo <= k /\ SegEnd(buf, k) <= L /\ SegEnd(buf, k) <= top
    BY DEF Apart
  <2> QED BY <2>1, <2>2, <2>3
<1>2. Held(buf) \in SUBSET Nat /\ \A i \in Held(buf) : i <= L
  BY <1>1
<1>3. IsFiniteSet(Held(buf))
  BY <1>2, FS_BoundedSetOfNaturals, Zenon
<1> QED BY <1>1, <1>3

-----------------------------------------------------------------------------

\* Where the new bytes of a substring at index start: everything between index
\* and there has arrived, and no entry reaches across that place.
Starts(buf, p, index, new) ==
    /\ new \in Nat /\ index <= new /\ p <= new
    /\ \A i \in index .. new - 1 : i < p \/ i \in Held(buf)
    /\ \A k \in DOMAIN buf : \/ k <= index /\ SegEnd(buf, k) <= new
                             \/ index < k /\ new <= k

\* new_index in insert_pair() is such a place.
LEMMA NewIndexStarts ==
    ASSUME NEW r, NEW index \in Nat, NEW L \in Nat, NEW top \in Nat, r.next_pos \in Nat,
           Apart(r.unassemble_buffer, r.next_pos + 1, L, top)
    PROVE  Starts(r.unassemble_buffer, r.next_pos, index, NewIndex(r, index))
<1> DEFINE buf == r.unassemble_buffer
           p   == r.next_pos
           pre == {k \in DOMAIN buf : k <= index}
           new == NewIndex(r, index)
<1>0. new = IF pre # {} THEN GreaterOf(index, SegEnd(buf, Max(pre))) ELSE GreaterOf(index, p)
  BY Zenon DEF NewIndex
<1>1. /\ DOMAIN buf \subseteq Nat /\ p \in Nat
      /\ \A k \in DOMAIN buf : SegEnd(buf, k) \in Nat /\ p + 1 <= k /\ k < SegEnd(buf, k)
      /\ \A j, k \in DOMAIN buf : j < k => SegEnd(buf, j) <= k
  BY DEF Apart
<1>a. Apart(buf, p + 1, L, top)
  OBVIOUS
<1>2. \A i : i \in Held(buf) <=> /\ i \in Nat
                                 /\ \E k \in DOMAIN buf : k <= i /\ i < SegEnd(buf, k)
  BY <1>a, HeldMember, Zenon
<1> HIDE DEF buf, p, new
<1>3. CASE pre # {}
  <2> DEFINE m == Max(pre)
  <2>1. m \in pre /\ \A x \in pre : x <= m
    <3>1. pre \in SUBSET Nat /\ \A x \in pre : x <= index
      BY <1>1
    <3> HIDE DEF pre
    <3> QED BY <1>3, <3>1, MaxOf, Zenon
  <2>2. new = GreaterOf(index, SegEnd(buf, m))
    BY <1>0, <1>3
  <2> HIDE DEF m
  <2>3. m \in DOMAIN buf /\ m \in Nat /\ m <= index /\ SegEnd(buf, m) \in Nat /\ p + 1 <= m
    BY <1>1, <2>1
  <2>4. new \in Nat /\ index <= new /\ p <= new /\ SegEnd(buf, m) <= new
    BY <1>1, <2>2, <2>3 DEF GreaterOf
  <2>5. ASSUME NEW i \in index .. new - 1 PROVE i \in Held(buf)
    <3>1. i \in Nat /\ m <= i /\ i < SegEnd(buf, m)
      BY <2>2, <2>3, <2>4 DEF GreaterOf
    <3> QED BY <1>2, <2>3, <3>1, Zenon
  <2>6. ASSUME NEW k \in DOMAIN buf
        PROVE  \/ k <= index /\ SegEnd(buf, k) <= new
               \/ index < k /\ new <= k
    <3>1. CASE k <= index
      <4>1. k = m \/ k < m
        BY <1>1, <2>1, <2>3, <3>1
      <4>2. SegEnd(buf, k) <= new
        BY <1>1, <2>3, <2>4, <4>1
      <4> QED BY <3>1, <4>2
    <3>2. CASE index < k
      <4>1. SegEnd(buf, m) <= k
        BY <1>1, <2>3, <3>2
      <4> QED BY <1>1, <2>2, <2>3, <3>2, <4>1 DEF GreaterOf
    <3> QED BY <1>1, <3>1, <3>2
  <2> QED BY <2>4, <2>5, <2>6, Zenon DEF Starts, new, p, buf
<1>4. CASE pre = {}
  <2>1. new = GreaterOf(index, p)
    BY <1>0, <1>4
  <2>2. new \in Nat /\ index <= new /\ p <= new /\ \A i \in index .. new - 1 : i < p
    BY <1>1, <2>1 DEF GreaterOf
  <2>3. ASSUME NEW k \in DOMAIN buf PROVE index < k /\ new <= k
    <3>1. ~(k <= index)
      BY <1>4, Zenon
    <3> QED BY <1>1, <2>1, <3>1 DEF GreaterOf
  <2> QED BY <2>2, <2>3, Zenon DEF Starts, new, p, buf
<1> QED BY <1>3, <1>4

-----------------------------------------------------------------------------

\* Where the new bytes stop: before the entry that reaches further than end.
StopOf(buf, index, new, end) ==
    IF Overhanging(buf, index, new, end) # {} THEN Min(Overhanging(buf, index, new, end)) ELSE end

\* What the new bytes new .. cut - 1 replace, and what they leave: the covered
\* entries lie between new and cut, the others outside of new .. stop - 1, and
\* what is cut off behind has arrived or does not fit.
Cuts(buf, index, new, end, top, stop, cut) ==
    LET covered == Covered(buf, index, new, end)
    IN  /\ stop \in Nat /\ new <= stop /\ stop <= end /\ cut = LesserOf(top, stop)
        /\ \A k \in covered : k \in DOMAIN buf /\ new <= k /\ SegEnd(buf, k) <= cut
        /\ \A k \in DOMAIN buf \ covered : SegEnd(buf, k) <= new \/ stop <= k
        /\ \A i \in cut .. end - 1 : i < top => i \in Held(buf)

\* The cut of insert_pair() is such a cut.
LEMMA StopCuts ==
    ASSUME NEW buf, NEW p \in Nat, NEW L \in Nat, NEW top \in Nat, Apart(buf, p + 1, L, top),
           NEW index \in Nat, NEW new \in Nat, Starts(buf, p, index, new),
           NEW end \in Nat, new < end
    PROVE  Cuts(buf, index, new, end, top, StopOf(buf, index, new, end),
                LesserOf(top, StopOf(buf, index, new, end)))
<1> DEFINE covered == Covered(buf, index, new, end)
           over    == Overhanging(buf, index, new, end)
           stop    == StopOf(buf, index, new, end)
           cut     == LesserOf(top, stop)
<1>1. /\ DOMAIN buf \subseteq Nat
      /\ \A k \in DOMAIN buf : SegEnd(buf, k) \in Nat /\ k < SegEnd(buf, k) /\ SegEnd(buf, k) <= top
      /\ \A j, k \in DOMAIN buf : j < k => SegEnd(buf, j) <= k
  BY DEF Apart
<1>2. \A i : i \in Held(buf) <=> /\ i \in Nat
                                 /\ \E k \in DOMAIN buf : k <= i /\ i < SegEnd(buf, k)
  BY HeldMember, Zenon
<1>3. \A k \in DOMAIN buf : \/ k <= index /\ SegEnd(buf, k) <= new
                            \/ index < k /\ new <= k
  BY Zenon DEF Starts
<1>4. \A k : k \in covered <=> k \in DOMAIN buf /\ index < k /\ new <= k /\ k < end /\ SegEnd(buf, k) <= end
  BY Zenon DEF Covered
<1>5. \A k : k \in over <=> k \in DOMAIN buf /\ index < k /\ new <= k /\ k < end /\ SegEnd(buf, k) > end
  BY Zenon DEF Overhanging
<1>6. stop = IF over # {} THEN Min(over) ELSE end
  BY Zenon DEF StopOf
<1>c. cut = LesserOf(top, stop)
  OBVIOUS
<1> HIDE DEF covered, over, stop, cut
<1> DEFINE Q == /\ stop \in Nat /\ new <= stop /\ stop <= end /\ cut = LesserOf(top, stop)
                /\ \A k \in covered : k \in DOMAIN buf /\ new <= k /\ SegEnd(buf, k) <= cut
                /\ \A k \in DOMAIN buf \ covered : SegEnd(buf, k) <= new \/ stop <= k
                /\ \A i \in cut .. end - 1 : i < top => i \in Held(buf)
<1>7. ASSUME over # {} PROVE Q
  <2>1. stop \in over
    <3>1. over \in SUBSET Nat
      BY <1>1, <1>5
    <3> QED BY <1>6, <1>7, <3>1, MinOf, Zenon
  <2>2. stop \in DOMAIN buf /\ stop \in Nat /\ new <= stop /\ stop < end /\ SegEnd(buf, stop) > end
    BY <1>1, <1>5, <2>1
  <2>3. SegEnd(buf, stop) \in Nat /\ SegEnd(buf, stop) <= top /\ cut = stop
    BY <1>1, <1>c, <2>2 DEF LesserOf
  <2>4. ASSUME NEW k \in covered PROVE k \in DOMAIN buf /\ new <= k /\ SegEnd(buf, k) <= cut
    BY <1>1, <1>4, <2>2, <2>3
  <2>5. ASSUME NEW k \in DOMAIN buf \ covered PROVE SegEnd(buf, k) <= new \/ stop <= k
    <3>1. SegEnd(buf, k) <= new \/ (index < k /\ new <= k /\ k \in Nat)
      BY <1>1, <1>3
    <3>2. CASE index < k /\ new <= k /\ k < stop
      <4>1. SegEnd(buf, k) <= stop /\ SegEnd(buf, k) \in Nat /\ k \in Nat
        BY <1>1, <2>2, <3>2
      <4>2. k \in covered
        BY <1>4, <2>2, <3>2, <4>1
      <4> QED BY <4>2
    <3> QED BY <2>2, <3>1, <3>2
  <2>6. ASSUME NEW i \in cut .. end - 1 PROVE i \in Held(buf)
    <3>1. i \in Nat /\ stop <= i /\ i < SegEnd(buf, stop)
      BY <2>2, <2>3
    <3> QED BY <1>2, <2>2, <3>1, Zenon
  <2>7. stop \in Nat /\ new <= stop /\ stop <= end
    BY <2>2
  <2> QED BY <1>c, <2>7, <2>4, <2>5, <2>6, Zenon
<1>8. ASSUME over = {} PROVE Q
  <2>1. stop = end
    BY <1>6, <1>8
  <2>2. ASSUME NEW k \in covered PROVE k \in DOMAIN buf /\ new <= k /\ SegEnd(buf, k) <= cut
    BY <1>1, <1>4, <1>c, <2>1 DEF LesserOf
  <2>3. ASSUME NEW k \in DOMAIN buf \ covered PROVE SegEnd(buf, k) <= new \/ stop <= k
    <3>1. k \notin over
      BY <1>8
    <3> QED BY <1>1, <1>3, <1>4, <1>5, <2>1, <3>1
  <2>4. ASSUME NEW i \in cut .. end - 1, i < top PROVE FALSE
    BY <1>c, <2>1, <2>4 DEF LesserOf
  <2>5. stop \in Nat /\ new <= stop /\ stop <= end
    BY <2>1
  <2> QED BY <1>c, <2>5, <2>2, <2>3, <2>4, Zenon
<1>9. Q
  BY <1>7, <1>8, Zenon
<1> QED BY <1>9 DEF Cuts, covered, stop, cut

-----------------------------------------------------------------------------

\* A map restricted to some of its keys.
LEMMA RestrictMap ==
    ASSUME NEW buf, NEW S, S \subseteq DOMAIN buf
    PROVE  /\ DOMAIN Restrict(buf, S) = S
           /\ \A k \in S : /\ Restrict(buf, S)[k] = buf[k]
                           /\ SegEnd(Restrict(buf, S), k) = SegEnd(buf, k)
<1>1. DOMAIN Restrict(buf, S) = S /\ \A k \in S : Restrict(buf, S)[k] = buf[k]
  BY DEF Restrict
<1> QED BY <1>1 DEF SegEnd

\* new is the map buf with data under key.
Emplaced(buf, new, key, data) ==
    /\ DOMAIN new = DOMAIN buf \cup {key}
    /\ new[key] = data /\ SegEnd(new, key) = key + Len(data)
    /\ \A k \in DOMAIN buf : new[k] = buf[k] /\ SegEnd(new, k) = SegEnd(buf, k)

\* emplace() under a key that is not in the map adds the entry.
LEMMA EmplaceMap ==
    ASSUME NEW buf, NEW key, NEW data, key \notin DOMAIN buf
    PROVE  Emplaced(buf, Emplace(buf, key, data), key, data)
<1>1. /\ DOMAIN Emplace(buf, key, data) = DOMAIN buf \cup {key}
      /\ Emplace(buf, key, data)[key] = data
      /\ \A k \in DOMAIN buf : Emplace(buf, key, data)[k] = buf[k]
  BY DEF Emplace
<1>2. /\ SegEnd(Emplace(buf, key, data), key) = key + Len(data)
      /\ \A k \in DOMAIN buf : SegEnd(Emplace(buf, key, data), k) = SegEnd(buf, k)
  BY <1>1 DEF SegEnd
<1> QED BY <1>1, <1>2, Zenon DEF Emplaced

\* Some of the entries of a map in order are in order.
LEMMA RestrictApart ==
    ASSUME NEW buf, NEW lo, NEW L, NEW top, Apart(buf, lo, L, top), InPlace(buf),
           NEW S, S \subseteq DOMAIN buf
    PROVE  Apart(Restrict(buf, S), lo, L, top) /\ InPlace(Restrict(buf, S))
<1> DEFINE b == Restrict(buf, S)
<1>1. DOMAIN b = S /\ \A k \in S : b[k] = buf[k] /\ SegEnd(b, k) = SegEnd(buf, k)
  BY RestrictMap, Zenon
<1> HIDE DEF b
<1>2. Apart(b, lo, L, top)
  BY <1>1 DEF Apart
<1>3. InPlace(b)
  BY <1>1 DEF InPlace
<1> QED BY <1>2, <1>3 DEF b

\* The size of an entry is the distance between its ends.
LEMMA EntrySize ==
    ASSUME NEW buf, NEW lo, NEW L, NEW top, Apart(buf, lo, L, top), InPlace(buf),
           NEW k \in DOMAIN buf
    PROVE  /\ k \in Nat /\ Len(buf[k]) \in Nat /\ SegEnd(buf, k) = k + Len(buf[k])
           /\ DOMAIN buf[k] = 1 .. Len(buf[k])
           /\ \A i \in 1 .. Len(buf[k]) : buf[k][i] = k + i - 1
<1>1. k \in Nat /\ Len(buf[k]) \in Nat /\ buf[k] = Bytes(k, Len(buf[k]))
  BY DEF Apart, InPlace
<1>2. SegEnd(buf, k) = k + Len(buf[k])
  BY DEF SegEnd
<1> DEFINE n == Len(buf[k])  b == Bytes(k, n)
<1>3. DOMAIN b = 1 .. n /\ \A i \in 1 .. n : b[i] = k + i - 1
  BY <1>1 DEF Bytes
<1>4. buf[k] = b /\ n = Len(buf[k])
  BY <1>1
<1> HIDE DEF b, n
<1> QED BY <1>1, <1>2, <1>3, <1>4

\* In a map without overlaps the sizes of some entries count their indices.
LEMMA SizesCount ==
    ASSUME NEW buf, NEW lo \in Nat, NEW L \in Nat, NEW top \in Nat,
           Apart(buf, lo, L, top), InPlace(buf), NEW C, C \subseteq DOMAIN buf
    PROVE  Sizes(buf, C) = Cardinality(Held(Restrict(buf, C)))
<1> DEFINE b == Restrict(buf, C)
           H == Held(b)
           P == UNION {{k} \X DOMAIN buf[k] : k \in C}
           g == [x \in P |-> x[1] + x[2] - 1]
<1>1. DOMAIN b = C /\ \A k \in C : SegEnd(b, k) = SegEnd(buf, k)
  BY RestrictMap, Zenon
<1>2. Apart(b, lo, L, top)
  BY RestrictApart, Zenon
<1>3. \A i : i \in H <=> i \in Nat /\ \E k \in DOMAIN b : k <= i /\ i < SegEnd(b, k)
  BY <1>2, HeldMember, Zenon
<1>4. IsFiniteSet(H)
  BY <1>2, HeldBounded, Zenon
<1>5. \A k \in C : /\ k \in Nat /\ Len(buf[k]) \in Nat /\ SegEnd(buf, k) = k + Len(buf[k])
                   /\ DOMAIN buf[k] = 1 .. Len(buf[k])
  BY EntrySize, Zenon
<1>6. \A j, k \in C : j < k => SegEnd(buf, j) <= k
  BY DEF Apart
<1> HIDE DEF b, H
<1>7. \A k, i : <<k, i>> \in P <=> k \in C /\ i \in 1 .. Len(buf[k])
  BY <1>5
<1>8. \A x \in P : x = <<x[1], x[2]>>
  OBVIOUS
<1>p. P = UNION {{k} \X DOMAIN buf[k] : k \in C}
  OBVIOUS
<1> HIDE DEF P
<1>9. ASSUME NEW x \in P
      PROVE  /\ x[1] \in C /\ x[1] \in Nat /\ x[2] \in Nat /\ 1 <= x[2] /\ x = <<x[1], x[2]>>
             /\ x[1] + x[2] - 1 \in Nat /\ x[1] <= x[1] + x[2] - 1
             /\ x[1] + x[2] - 1 < SegEnd(buf, x[1]) /\ SegEnd(buf, x[1]) \in Nat
  <2>1. x[1] \in C /\ x[2] \in 1 .. Len(buf[x[1]]) /\ x = <<x[1], x[2]>>
    BY <1>7, <1>8, Zenon
  <2>2. x[1] \in Nat /\ Len(buf[x[1]]) \in Nat /\ SegEnd(buf, x[1]) = x[1] + Len(buf[x[1]])
    BY <1>5, <2>1, Zenon
  <2> QED BY <2>1, <2>2
<1>10. \A x \in P : g[x] = x[1] + x[2] - 1
  OBVIOUS
<1>11. g \in [P -> H]
  <2>1. ASSUME NEW x \in P PROVE x[1] + x[2] - 1 \in H
    BY <1>1, <1>3, <1>9, Zenon
  <2> QED BY <2>1
<1> HIDE DEF g
<1>12. ASSUME NEW x \in P, NEW y \in P, g[x] = g[y] PROVE x = y
  <2>1. x[1] + x[2] - 1 = y[1] + y[2] - 1
    BY <1>10, <1>12
  <2>2. /\ ~(x[1] < y[1]) /\ ~(y[1] < x[1])
        /\ x[1] \in Nat /\ y[1] \in Nat /\ x[2] \in Nat /\ y[2] \in Nat
    BY <1>6, <1>9, <2>1
  <2>3. x[1] = y[1] /\ x[2] = y[2]
    BY <2>1, <2>2
  <2>4. x = <<x[1], x[2]>> /\ y = <<y[1], y[2]>>
    BY <1>9
  <2> QED BY <2>3, <2>4, Zenon
<1>13. ASSUME NEW i \in H PROVE \E x \in P : g[x] = i
  <2>1. PICK k \in C : k <= i /\ i < SegEnd(buf, k)
    BY <1>1, <1>3, Zenon
  <2>2. i \in Nat /\ k \in Nat /\ SegEnd(buf, k) = k + Len(buf[k]) /\ Len(buf[k]) \in Nat
    BY <1>3, <1>5, Zenon
  <2>3. i - k + 1 \in 1 .. Len(buf[k]) /\ k + (i - k + 1) - 1 = i
    BY <2>1, <2>2
  <2>4. <<k, i - k + 1>> \in P
    BY <1>7, <2>3, Zenon
  <2>5. g[<<k, i - k + 1>>] = i
    BY <1>10, <2>3, <2>4
  <2> QED BY <2>4, <2>5, Zenon
<1>14. g \in Injection(P, H)
  <2>1. DOMAIN g = P
    BY <1>11
  <2>2. IsInjective(g)
    BY <1>12, <2>1, Zenon DEF IsInjective
  <2> QED BY <1>11, <2>2, Zenon DEF Injection
<1>15. g \in Surjection(P, H)
  BY <1>11, <1>13, Zenon DEF Surjection
<1>16. Cardinality(P) = Cardinality(H)
  BY <1>4, <1>14, <1>15, FS_Injection, Zenon
<1> QED BY <1>16 DEF Sizes, P, H, b

\* Splitting a map in two splits the count of its indices.
LEMMA RemoveCounts ==
    ASSUME NEW buf, NEW lo \in Nat, NEW L \in Nat, NEW top \in Nat,
           Apart(buf, lo, L, top), InPlace(buf), NEW C, C \subseteq DOMAIN buf
    PROVE  /\ Held(buf) = Held(Restrict(buf, C)) \cup Held(Restrict(buf, DOMAIN buf \ C))
           /\ Cardinality(Held(Restrict(buf, DOMAIN buf \ C)))
                  = Cardinality(Held(buf)) - Sizes(buf, C)
<1> DEFINE D == DOMAIN buf \ C
           b == Restrict(buf, C)
           c == Restrict(buf, D)
<1>0. D \subseteq DOMAIN buf
  OBVIOUS
<1>1. /\ DOMAIN b = C /\ \A k \in C : SegEnd(b, k) = SegEnd(buf, k)
      /\ DOMAIN c = D /\ \A k \in D : SegEnd(c, k) = SegEnd(buf, k)
  BY <1>0, RestrictMap, Zenon
<1>2. Apart(b, lo, L, top) /\ Apart(c, lo, L, top)
  BY <1>0, RestrictApart, Zenon
<1>3. /\ \A i : i \in Held(b) <=> i \in Nat /\ \E k \in DOMAIN b : k <= i /\ i < SegEnd(b, k)
      /\ \A i : i \in Held(c) <=> i \in Nat /\ \E k \in DOMAIN c : k <= i /\ i < SegEnd(c, k)
      /\ \A i : i \in Held(buf) <=> i \in Nat /\ \E k \in DOMAIN buf : k <= i /\ i < SegEnd(buf, k)
  BY <1>2, HeldMember, Zenon
<1>4. IsFiniteSet(Held(b)) /\ IsFiniteSet(Held(c))
  BY <1>2, HeldBounded, Zenon
<1>5. Sizes(buf, C) = Cardinality(Held(b))
  BY SizesCount, Zenon
<1>6. /\ DOMAIN buf \subseteq Nat /\ \A k \in DOMAIN buf : SegEnd(buf, k) \in Nat
      /\ \A j, k \in DOMAIN buf : j < k => SegEnd(buf, j) <= k
  BY DEF Apart
<1> HIDE DEF b, c
<1>7. Held(buf) = Held(b) \cup Held(c)
  <2>1. ASSUME NEW i PROVE i \in Held(buf) <=> i \in Held(b) \/ i \in Held(c)
    <3>1. CASE i \in Held(buf)
      <4>1. PICK k \in DOMAIN buf : i \in Nat /\ k <= i /\ i < SegEnd(buf, k)
        BY <1>3, <3>1, Zenon
      <4>2. k \in C \/ k \in D
        OBVIOUS
      <4> HIDE DEF D
      <4> QED BY <1>1, <1>3, <3>1, <4>1, <4>2, Zenon
    <3>2. CASE i \in Held(b)
      BY <1>1, <1>3, <3>2, Zenon
    <3>3. CASE i \in Held(c)
      BY <1>1, <1>3, <3>3, Zenon
    <3> QED BY <3>1, <3>2, <3>3, Zenon
  <2> QED BY <2>1
<1>8. Held(b) \cap Held(c) = {}
  <2>1. ASSUME NEW i \in Held(b), i \in Held(c) PROVE FALSE
    <3>1. PICK j \in C : i \in Nat /\ j <= i /\ i < SegEnd(buf, j)
      BY <1>1, <1>3, Zenon
    <3>2. PICK k \in D : k <= i /\ i < SegEnd(buf, k)
      BY <1>1, <1>3, <2>1, Zenon
    <3>3. j # k /\ j \in DOMAIN buf /\ k \in DOMAIN buf
      OBVIOUS
    <3> QED BY <1>6, <3>1, <3>2, <3>3
  <2> QED BY <2>1
<1>9. Cardinality(Held(buf)) = Cardinality(Held(b)) + Cardinality(Held(c)) - 0
  <2>1. Cardinality(Held(b) \cup Held(c))
            = Cardinality(Held(b)) + Cardinality(Held(c)) - Cardinality(Held(b) \cap Held(c))
    BY <1>4, FS_Union, Zenon
  <2>2. Cardinality({}) = 0
    BY FS_EmptySet, Zenon
  <2> QED BY <1>7, <1>8, <2>1, <2>2
<1>10. Cardinality(Held(b)) \in Nat /\ Cardinality(Held(c)) \in Nat
  BY <1>4, FS_CardinalityType, Zenon
<1>11. Cardinality(Held(c)) = Cardinality(Held(buf)) - Sizes(buf, C)
  BY <1>5, <1>9, <1>10
<1> QED BY <1>7, <1>11 DEF b, c

\* Adding an interval apart from the others adds its length to the count.
LEMMA IntervalCounts ==
    ASSUME NEW S, IsFiniteSet(S), NEW a \in Nat, NEW b \in Nat, a <= b,
           \A i \in a .. b - 1 : i \notin S
    PROVE  Cardinality(S \cup (a .. b - 1)) = Cardinality(S) + (b - a)
<1> DEFINE I == a .. b - 1
<1>1. IsFiniteSet(I) /\ Cardinality(I) = IF a > b - 1 THEN 0 ELSE (b - 1) - a + 1
  <2>1. a \in Int /\ b - 1 \in Int
    OBVIOUS
  <2> QED BY <2>1, FS_Interval, Zenon
<1>2. Cardinality(I) = b - a
  BY <1>1
<1>3. S \cap I = {}
  OBVIOUS
<1> HIDE DEF I
<1>4. Cardinality(S \cup I) = Cardinality(S) + Cardinality(I) - Cardinality(S \cap I)
  BY <1>1, FS_Union, Zenon
<1>5. Cardinality({}) = 0 /\ Cardinality(S) \in Nat
  BY FS_EmptySet, FS_CardinalityType, Zenon
<1>6. Cardinality(S \cup I) = Cardinality(S) + (b - a)
  <2>1. Cardinality(S \cap I) = 0
    BY <1>3, <1>5, Zenon
  <2> QED BY <1>2, <1>4, <1>5, <2>1
<1> QED BY <1>6 DEF I

\* d is the map c with one entry more, which holds the indices new .. cut - 1.
OneMore(c, d, new, cut, lo, L, top) ==
    /\ Apart(d, lo, L, top) /\ InPlace(d)
    /\ Held(d) = Held(c) \cup (new .. cut - 1)
    /\ Cardinality(Held(d)) = Cardinality(Held(c)) + (cut - new)

\* emplace() of bytes that lie apart from the entries adds exactly those.
LEMMA EmplaceOneMore ==
    ASSUME NEW c, NEW lo \in Nat, NEW L \in Nat, NEW top \in Nat,
           Apart(c, lo, L, top), InPlace(c),
           NEW new \in Nat, NEW cut \in Nat, lo <= new, new < cut, cut <= L, cut <= top,
           \A k \in DOMAIN c : SegEnd(c, k) <= new \/ cut <= k
    PROVE  OneMore(c, Emplace(c, new, Bytes(new, cut - new)), new, cut, lo, L, top)
<1> DEFINE w == Bytes(new, cut - new)
           d == Emplace(c, new, w)
<1>1. /\ DOMAIN c \subseteq Nat
      /\ \A k \in DOMAIN c : /\ SegEnd(c, k) \in Nat /\ lo <= k /\ k < SegEnd(c, k)
                             /\ SegEnd(c, k) <= L /\ SegEnd(c, k) <= top
      /\ \A j, k \in DOMAIN c : j < k => SegEnd(c, j) <= k
  BY DEF Apart
<1>2. new \notin DOMAIN c
  BY <1>1
<1>3. cut - new \in Nat /\ new \in Int /\ new + (cut - new) = cut
  OBVIOUS
<1>4. Len(w) = cut - new
  BY <1>3, BytesProperties, Zenon
<1> HIDE DEF w
<1>5. /\ DOMAIN d = DOMAIN c \cup {new} /\ d[new] = w
      /\ SegEnd(d, new) = new + Len(w)
      /\ \A k \in DOMAIN c : d[k] = c[k] /\ SegEnd(d, k) = SegEnd(c, k)
  <2>1. Emplaced(c, d, new, w)
    BY <1>2, EmplaceMap, Zenon
  <2> QED BY <2>1, Zenon DEF Emplaced
<1>6. SegEnd(d, new) = cut
  BY <1>3, <1>4, <1>5
<1> HIDE DEF d
<1>7. ASSUME NEW k \in DOMAIN d
      PROVE  /\ k \in Nat /\ SegEnd(d, k) \in Nat /\ lo <= k /\ k < SegEnd(d, k)
             /\ SegEnd(d, k) <= L /\ SegEnd(d, k) <= top
  BY <1>1, <1>5, <1>6
<1>8. ASSUME NEW j \in DOMAIN d, NEW k \in DOMAIN d, j < k PROVE SegEnd(d, j) <= k
  <2>1. CASE j = new /\ k \in DOMAIN c
    BY <1>1, <1>5, <1>6, <1>8, <2>1
  <2>2. CASE k = new /\ j \in DOMAIN c
    BY <1>1, <1>5, <1>6, <1>8, <2>2
  <2>3. CASE j \in DOMAIN c /\ k \in DOMAIN c
    BY <1>1, <1>5, <1>8, <2>3
  <2>4. ~(j = new /\ k = new)
    BY <1>8
  <2> QED BY <1>5, <2>1, <2>2, <2>3, <2>4
<1>9. Apart(d, lo, L, top)
  BY <1>7, <1>8 DEF Apart
<1>10. InPlace(d)
  <2>1. ASSUME NEW k \in DOMAIN d PROVE Len(d[k]) \in Nat /\ d[k] = Bytes(k, Len(d[k]))
    <3>1. CASE k = new
      BY <1>3, <1>4, <1>5, <3>1 DEF w
    <3>2. CASE k \in DOMAIN c
      BY <1>5, <3>2 DEF InPlace
    <3> QED BY <1>5, <3>1, <3>2
  <2> QED BY <2>1 DEF InPlace
<1>11. /\ \A i : i \in Held(c) <=> i \in Nat /\ \E k \in DOMAIN c : k <= i /\ i < SegEnd(c, k)
       /\ \A i : i \in Held(d) <=> i \in Nat /\ \E k \in DOMAIN d : k <= i /\ i < SegEnd(d, k)
  BY <1>9, HeldMember, Zenon
<1>12. \A i : i \in new .. cut - 1 <=> i \in Nat /\ new <= i /\ i < cut
  OBVIOUS
<1>13. Held(d) = Held(c) \cup (new .. cut - 1)
  <2>1. ASSUME NEW i PROVE i \in Held(d) <=> i \in Held(c) \/ i \in new .. cut - 1
    <3>1. CASE i \in Held(d)
      <4>1. PICK k \in DOMAIN d : i \in Nat /\ k <= i /\ i < SegEnd(d, k)
        BY <1>11, <3>1, Zenon
      <4> QED BY <1>5, <1>6, <1>11, <1>12, <3>1, <4>1, Zenon
    <3>2. CASE i \in Held(c)
      BY <1>5, <1>11, <3>2, Zenon
    <3>3. CASE i \in new .. cut - 1
      BY <1>5, <1>6, <1>11, <1>12, <3>3, Zenon
    <3> QED BY <3>1, <3>2, <3>3, Zenon
  <2> QED BY <2>1
<1>14. \A i \in new .. cut - 1 : i \notin Held(c)
  <2>1. ASSUME NEW i \in new .. cut - 1, i \in Held(c) PROVE FALSE
    <3>1. PICK k \in DOMAIN c : k <= i /\ i < SegEnd(c, k)
      BY <1>11, <2>1, Zenon
    <3> QED BY <1>1, <3>1
  <2> QED BY <2>1
<1>15. IsFiniteSet(Held(c))
  BY HeldBounded, Zenon
<1>16. Cardinality(Held(c) \cup (new .. cut - 1)) = Cardinality(Held(c)) + (cut - new)
  <2>1. new <= cut
    OBVIOUS
  <2> QED BY <1>14, <1>15, <2>1, IntervalCounts, Zenon
<1> QED BY <1>9, <1>10, <1>13, <1>16 DEF OneMore, d, w

-----------------------------------------------------------------------------

\* A reassembler of the given capacity with bytes of a stream of L bytes: the
\* output in order, the map in order above lo, each stored byte counted once,
\* nothing beyond what the reader has taken plus the capacity.
Tidy(r, lo, cap, L) ==
    /\ DOMAIN r = {"output", "capacity", "unassemble_buffer", "next_pos",
                   "unassembled_bytes", "eof_index", "eof_appear_sign"}
    /\ InOrder(r.output, cap) /\ r.capacity = cap
    /\ r.next_pos \in 0 .. L /\ r.output.bytes_written = r.next_pos
    /\ Apart(r.unassemble_buffer, lo, L, r.output.bytes_read + cap)
    /\ InPlace(r.unassemble_buffer)
    /\ r.unassembled_bytes = Cardinality(Held(r.unassemble_buffer))

\* The indices that have arrived and were kept.
Accepted(r) == (0 .. r.next_pos - 1) \cup Held(r.unassemble_buffer)

\* t has taken in the indices of N, and nothing else has happened to it.
Grown(r, t, N) ==
    /\ Accepted(t) = Accepted(r) \cup N
    /\ t.output.bytes_read = r.output.bytes_read /\ r.next_pos <= t.next_pos
    /\ t.eof_index = r.eof_index /\ t.eof_appear_sign = r.eof_appear_sign
    /\ t.output.end_input = r.output.end_input

\* Place() of new bytes that lie apart from the entries of the map.
LEMMA PlaceGrows ==
    ASSUME NEW cap \in Nat, NEW L \in Nat, NEW r, Tidy(r, r.next_pos + 1, cap, L),
           NEW new \in Nat, NEW cut \in Nat, r.next_pos <= new, new < cut,
           cut <= L, cut <= r.output.bytes_read + cap,
           \A k \in DOMAIN r.unassemble_buffer :
               SegEnd(r.unassemble_buffer, k) <= new \/ cut <= k
    PROVE  LET t == Place(r, new, Bytes(new, cut - new))
           IN  Tidy(t, t.next_pos, cap, L) /\ Grown(r, t, new .. cut - 1)
<1> DEFINE data == Bytes(new, cut - new)
           t    == Place(r, new, data)
           buf  == r.unassemble_buffer
           p    == r.next_pos
           top  == r.output.bytes_read + cap
<1>1. /\ DOMAIN r = {"output", "capacity", "unassemble_buffer", "next_pos",
                     "unassembled_bytes", "eof_index", "eof_appear_sign"}
      /\ InOrder(r.output, cap) /\ r.capacity = cap /\ p \in Nat /\ p <= L
      /\ r.output.bytes_written = p
      /\ Apart(buf, p + 1, L, top) /\ InPlace(buf)
      /\ r.unassembled_bytes = Cardinality(Held(buf))
  BY DEF Tidy
<1>2. /\ r.output.bytes_read \in Nat /\ r.output.buffer_size \in 0 .. cap /\ top \in Nat
      /\ p = r.output.bytes_read + r.output.buffer_size
  BY <1>1 DEF InOrder
<1>3. cut - new \in Nat /\ new \in Int
  OBVIOUS
<1>4. Len(data) = cut - new
  BY <1>3, BytesProperties, Zenon
<1>5. CASE new = p
  <2> DEFINE c == write_count(r.output, data)
             o == write(r.output, data)
  <2>1. Wrote(r.output, o, c, cut - new, cap)
    <3>1. data = Bytes(r.output.bytes_written, cut - new)
      BY <1>1, <1>5, Zenon
    <3>2. Wrote(r.output, write(r.output, Bytes(r.output.bytes_written, cut - new)),
                write_count(r.output, Bytes(r.output.bytes_written, cut - new)), cut - new, cap)
      BY <1>1, <1>3, WriteInOrder, Zenon
    <3> HIDE DEF data
    <3> QED BY <3>1, <3>2, Zenon
  <2> HIDE DEF data
  <2>2. c = cut - new
    BY <1>2, <1>5, <2>1 DEF Wrote, LesserOf
  <2>3. t = [r EXCEPT !.output = o, !.next_pos = p + c]
    BY <1>4, <1>5, <2>2 DEF Place
  <2> HIDE DEF c, o, t
  <2>4. /\ DOMAIN t = DOMAIN r /\ t.output = o /\ t.next_pos = cut
        /\ t.unassemble_buffer = buf /\ t.unassembled_bytes = r.unassembled_bytes
        /\ t.capacity = r.capacity /\ t.eof_index = r.eof_index
        /\ t.eof_appear_sign = r.eof_appear_sign
    BY <1>1, <1>5, <2>2, <2>3
  <2>5. /\ InOrder(o, cap) /\ o.bytes_written = cut /\ o.bytes_read = r.output.bytes_read
        /\ o.end_input = r.output.end_input
    BY <1>1, <1>5, <2>1, <2>2 DEF Wrote
  <2> HIDE DEF buf, top, p
  <2>6. Apart(buf, cut, L, top)
    BY <1>1, <1>5 DEF Apart, buf
  <2>7. Tidy(t, t.next_pos, cap, L)
    BY <1>1, <2>4, <2>5, <2>6 DEF Tidy, top
  <2>8. Accepted(t) = Accepted(r) \cup (new .. cut - 1)
    <3>1. 0 .. cut - 1 = (0 .. p - 1) \cup (new .. cut - 1)
      BY <1>1, <1>5
    <3> QED BY <2>4, <3>1, Zenon DEF Accepted, buf, p
  <2>9. Grown(r, t, new .. cut - 1)
    BY <1>5, <2>4, <2>5, <2>8 DEF Grown, p
  <2> QED BY <2>7, <2>9 DEF t, data
<1>6. CASE new # p
  <2> DEFINE d == Emplace(buf, new, data)
  <2>1. OneMore(buf, d, new, cut, p + 1, L, top)
    <3>1. p + 1 \in Nat /\ p + 1 <= new
      BY <1>1, <1>6
    <3>2. \A k \in DOMAIN buf : SegEnd(buf, k) <= new \/ cut <= k
      OBVIOUS
    <3>3. cut <= top
      OBVIOUS
    <3> HIDE DEF top, buf, p
    <3> QED BY <1>1, <1>2, <3>1, <3>2, <3>3, EmplaceOneMore, Zenon
  <2>2. t = [r EXCEPT !.unassemble_buffer = d, !.unassembled_bytes = r.unassembled_bytes + (cut - new)]
    <3>1. data \in Seq(Int)
      BY <1>3, BytesProperties, Zenon
    <3> HIDE DEF data
    <3>2. new + 0 = new /\ SubSeq(data, 0 + 1, Len(data)) = data
      BY <3>1
    <3> QED BY <1>4, <1>6, <3>2 DEF Place
  <2> HIDE DEF t, d, data
  <2>3. /\ DOMAIN t = DOMAIN r /\ t.output = r.output /\ t.next_pos = p
        /\ t.unassemble_buffer = d /\ t.unassembled_bytes = r.unassembled_bytes + (cut - new)
        /\ t.capacity = r.capacity /\ t.eof_index = r.eof_index
        /\ t.eof_appear_sign = r.eof_appear_sign
    BY <1>1, <2>2
  <2>4. /\ Apart(d, p + 1, L, top) /\ InPlace(d) /\ Held(d) = Held(buf) \cup (new .. cut - 1)
        /\ Cardinality(Held(d)) = Cardinality(Held(buf)) + (cut - new)
    BY <2>1, Zenon DEF OneMore
  <2> HIDE DEF buf, top, p
  <2>5. Apart(d, p, L, top)
    BY <1>1, <2>4 DEF Apart
  <2>6. Tidy(t, t.next_pos, cap, L)
    BY <1>1, <2>3, <2>4, <2>5 DEF Tidy, top
  <2>7. Accepted(t) = Accepted(r) \cup (new .. cut - 1)
    BY <2>3, <2>4, Zenon DEF Accepted, buf, p
  <2>8. Grown(r, t, new .. cut - 1)
    BY <1>1, <2>3, <2>7 DEF Grown, p
  <2> QED BY <2>6, <2>8 DEF t, data
<1> QED BY <1>5, <1>6

\* The indices of a substring that the capacity admits.
Fitting(r, index, len, cap) == (index .. index + len - 1) \cap (0 .. r.output.bytes_read + cap - 1)

\* A reassembler that has taken in nothing new.
LEMMA NothingNew ==
    ASSUME NEW cap \in Nat, NEW L \in Nat, NEW r, Tidy(r, r.next_pos + 1, cap, L),
           NEW N, \A i \in N : i \in Accepted(r)
    PROVE  Tidy(r, r.next_pos, cap, L) /\ Grown(r, r, N)
<1>1. r.next_pos \in Nat
  BY DEF Tidy
<1>2. Apart(r.unassemble_buffer, r.next_pos, L, r.output.bytes_read + cap)
  BY <1>1 DEF Tidy, Apart
<1>3. Tidy(r, r.next_pos, cap, L)
  BY <1>2 DEF Tidy
<1>4. Accepted(r) = Accepted(r) \cup N
  OBVIOUS
<1>5. r.next_pos <= r.next_pos
  BY <1>1
<1> QED BY <1>3, <1>4, <1>5 DEF Grown

\* insert_pair() takes in exactly the indices that the capacity admits.
LEMMA InsertPair ==
    ASSUME NEW cap \in Nat, NEW L \in Nat, NEW r, Tidy(r, r.next_pos + 1, cap, L),
           NEW index \in Nat, NEW len \in Nat, index + len < SizeSpace,
           len > 0 => index + len <= L
    PROVE  LET t == insert_pair(r, Bytes(index, len), index)
           IN  Tidy(t, t.next_pos, cap, L) /\ Grown(r, t, Fitting(r, index, len, cap))
<1> DEFINE data    == Bytes(index, len)
           t       == insert_pair(r, data, index)
           buf     == r.unassemble_buffer
           p       == r.next_pos
           top     == r.output.bytes_read + cap
           end     == index + len
           new     == NewIndex(r, index)
           N       == Fitting(r, index, len, cap)
           covered == Covered(buf, index, new, end)
           stop    == StopOf(buf, index, new, end)
           cut     == LesserOf(top, stop)
           c       == Restrict(buf, DOMAIN buf \ covered)
           r1      == [r EXCEPT !.unassemble_buffer = c,
                                !.unassembled_bytes = r.unassembled_bytes - Sizes(buf, covered)]
           G(u)    == Tidy(u, u.next_pos, cap, L) /\ Grown(r, u, N)
<1>1. /\ DOMAIN r = {"output", "capacity", "unassemble_buffer", "next_pos",
                     "unassembled_bytes", "eof_index", "eof_appear_sign"}
      /\ InOrder(r.output, cap) /\ r.capacity = cap /\ p \in Nat /\ p <= L
      /\ r.output.bytes_written = p
      /\ Apart(buf, p + 1, L, top) /\ InPlace(buf)
      /\ r.unassembled_bytes = Cardinality(Held(buf))
  BY DEF Tidy
<1>2. /\ r.output.bytes_read \in Nat /\ r.output.buffer_size \in 0 .. cap /\ top \in Nat
      /\ p = r.output.bytes_read + r.output.buffer_size
  BY <1>1 DEF InOrder
<1>3. FirstUnacceptable(r) = top
  BY <1>1, <1>2 DEF FirstUnacceptable
<1>4. Len(data) = len /\ end \in Nat
  BY BytesProperties
<1>5. SizeAdd(index, Len(data)) = end
  BY <1>4, SizeSpaceAssumption DEF SizeAdd
<1>6. Starts(buf, p, index, new)
  BY <1>1, <1>2, NewIndexStarts, Zenon
<1>7. /\ new \in Nat /\ index <= new /\ p <= new
      /\ \A i \in index .. new - 1 : i < p \/ i \in Held(buf)
  BY <1>6, Zenon DEF Starts
<1>8. t = IF new >= end \/ top <= new THEN r
          ELSE IF stop = new THEN r1 ELSE Place(r1, new, Trim(data, index, new, cut))
  <2> DEFINE e   == SizeAdd(index, Len(data))
             fu  == FirstUnacceptable(r)
             cv  == Covered(buf, index, new, e)
             st  == StopOf(buf, index, new, e)
             cu  == LesserOf(fu, st)
             s1  == [r EXCEPT !.unassemble_buffer = Restrict(buf, DOMAIN buf \ cv),
                              !.unassembled_bytes = r.unassembled_bytes - Sizes(buf, cv)]
  <2>1. t = IF new >= e \/ fu <= new THEN r
            ELSE IF st = new THEN s1 ELSE Place(s1, new, Trim(data, index, new, cu))
    BY Zenon DEF insert_pair, StopOf
  <2>2. e = end /\ fu = top
    BY <1>3, <1>5
  <2> HIDE DEF e, fu, data, new, end, top
  <2> QED BY <2>1, <2>2
<1> HIDE DEF t
<1>9. \A i : i \in Accepted(r) <=> i \in 0 .. p - 1 \/ i \in Held(buf)
  BY DEF Accepted
<1>10. \A i : i \in N <=> i \in Nat /\ index <= i /\ i < end /\ i < top
  BY <1>2 DEF Fitting
<1> HIDE DEF data, buf, p, top, end, new, N
<1>11. \A i \in Nat : index <= i /\ i < new => i \in Accepted(r)
  <2>1. ASSUME NEW i \in Nat, index <= i, i < new PROVE i \in 0 .. p - 1 \/ i \in Held(buf)
    <3>1. i \in index .. new - 1
      BY <1>7, <2>1
    <3>2. i < p \/ i \in Held(buf)
      BY <1>7, <3>1, Zenon
    <3>3. i < p => i \in 0 .. p - 1
      BY <1>1
    <3> QED BY <3>2, <3>3, Zenon
  <2> QED BY <1>9, <2>1, Zenon
<1>12. ASSUME new >= end \/ top <= new PROVE G(r)
  <2>1. ASSUME NEW i \in N PROVE i \in Accepted(r)
    <3>1. i \in Nat /\ index <= i /\ i < new
      BY <1>2, <1>4, <1>7, <1>10, <1>12
    <3> QED BY <1>11, <3>1, Zenon
  <2> QED BY <2>1, NothingNew, Zenon
<1>13. ASSUME new < end, new < top
       PROVE  G(IF stop = new THEN r1 ELSE Place(r1, new, Trim(data, index, new, cut)))
  <2>1. Cuts(buf, index, new, end, top, stop, cut)
    BY <1>1, <1>2, <1>4, <1>6, <1>7, <1>13, StopCuts, Zenon
  <2>2. /\ stop \in Nat /\ new <= stop /\ stop <= end
        /\ \A k \in covered : k \in DOMAIN buf /\ new <= k /\ SegEnd(buf, k) <= cut
        /\ \A k \in DOMAIN buf \ covered : SegEnd(buf, k) <= new \/ stop <= k
        /\ \A i \in cut .. end - 1 : i < top => i \in Held(buf)
    BY <2>1, Zenon DEF Cuts
  <2>3. cut \in Nat /\ cut <= top /\ cut <= stop /\ (new < stop => new < cut)
    BY <1>2, <1>7, <1>13, <2>2 DEF LesserOf
  <2>4. len > 0 /\ end <= L
    BY <1>4, <1>7, <1>13 DEF end
  <2>5. covered \subseteq DOMAIN buf
    BY <2>2
  <2> HIDE DEF covered, stop, cut
  <2>6. /\ Held(buf) = Held(Restrict(buf, covered)) \cup Held(c)
        /\ Cardinality(Held(c)) = Cardinality(Held(buf)) - Sizes(buf, covered)
    <3>1. p + 1 \in Nat
      BY <1>1
    <3> QED BY <1>1, <1>2, <2>5, <3>1, RemoveCounts, Zenon
  <2>7. Apart(c, p + 1, L, top) /\ InPlace(c)
    <3>1. DOMAIN buf \ covered \subseteq DOMAIN buf
      OBVIOUS
    <3> QED BY <1>1, <3>1, RestrictApart, Zenon
  <2>8. DOMAIN c = DOMAIN buf \ covered /\ \A k \in DOMAIN c : SegEnd(c, k) = SegEnd(buf, k)
    <3>1. DOMAIN buf \ covered \subseteq DOMAIN buf
      OBVIOUS
    <3> QED BY <3>1, RestrictMap, Zenon
  <2>d. \A i \in Held(Restrict(buf, covered)) : i \in Nat /\ new <= i /\ i < cut
    <3> DEFINE b == Restrict(buf, covered)
    <3>1. DOMAIN b = covered /\ \A k \in covered : SegEnd(b, k) = SegEnd(buf, k)
      BY <2>5, RestrictMap, Zenon
    <3>2. Apart(b, p + 1, L, top)
      BY <1>1, <2>5, RestrictApart, Zenon
    <3>3. ASSUME NEW i \in Held(b) PROVE i \in Nat /\ new <= i /\ i < cut
      <4>1. i \in Nat /\ \E k \in DOMAIN b : k <= i /\ i < SegEnd(b, k)
        BY <3>2, HeldMember, Zenon
      <4>2. PICK k \in covered : k <= i /\ i < SegEnd(buf, k)
        BY <3>1, <4>1, Zenon
      <4>3. k \in Nat /\ SegEnd(buf, k) \in Nat /\ new <= k /\ SegEnd(buf, k) <= cut
        BY <1>1, <2>2 DEF Apart
      <4> QED BY <1>7, <2>3, <4>1, <4>2, <4>3
    <3> QED BY <3>3
  <2> HIDE DEF c
  <2>9. /\ DOMAIN r1 = DOMAIN r /\ r1.output = r.output /\ r1.next_pos = p
        /\ r1.unassemble_buffer = c /\ r1.unassembled_bytes = r.unassembled_bytes - Sizes(buf, covered)
        /\ r1.capacity = r.capacity /\ r1.eof_index = r.eof_index
        /\ r1.eof_appear_sign = r.eof_appear_sign
    BY <1>1 DEF p
  <2> HIDE DEF r1
  <2>10. Tidy(r1, r1.next_pos + 1, cap, L)
    BY <1>1, <2>6, <2>7, <2>9 DEF Tidy, top
  <2>11. /\ \A i : i \in Accepted(r1) <=> i \in 0 .. p - 1 \/ i \in Held(c)
         /\ \A i \in Held(c) : i \in Held(buf)
         /\ \A i \in Held(buf) : i \in Held(c) \/ (i \in Nat /\ new <= i /\ i < cut)
    BY <2>6, <2>9, <2>d DEF Accepted
  <2>12. \A i \in Nat : cut <= i /\ i < end /\ i < top => i \in Held(buf)
    <3>1. ASSUME NEW i \in Nat, cut <= i, i < end, i < top PROVE i \in Held(buf)
      <4>1. i \in cut .. end - 1
        BY <1>4, <2>3, <3>1
      <4> QED BY <2>2, <3>1, <4>1, Zenon
    <3> QED BY <3>1
  <2>13. ASSUME stop = new PROVE G(r1)
    <3>1. cut <= new /\ new < end
      BY <1>13, <2>3, <2>13
    <3>2. ASSUME NEW i \in Held(buf) PROVE i \in Held(c)
      BY <1>7, <2>3, <2>11, <3>1
    <3>3. Held(c) = Held(buf)
      BY <2>11, <3>2
    <3>4. ASSUME NEW i \in N PROVE i \in Accepted(r1)
      <4>1. CASE i < new
        BY <1>9, <1>10, <1>11, <2>11, <3>3, <4>1, Zenon
      <4>2. CASE i >= new
        <5>1. i \in Nat /\ cut <= i /\ i < end /\ i < top
          BY <1>7, <1>10, <2>3, <3>1, <4>2
        <5> QED BY <2>11, <2>12, <3>3, <5>1, Zenon
      <4>3. i \in Nat
        BY <1>10
      <4> QED BY <1>7, <4>1, <4>2, <4>3
    <3>5. Tidy(r1, r1.next_pos, cap, L) /\ Grown(r1, r1, N)
      BY <2>10, <3>4, NothingNew, Zenon
    <3>6. Accepted(r1) = Accepted(r)
      BY <2>9, <3>3 DEF Accepted, p, buf
    <3> QED BY <2>9, <3>5, <3>6 DEF Grown, p
  <2>14. ASSUME stop # new PROVE G(Place(r1, new, Trim(data, index, new, cut)))
    <3>1. new < cut /\ cut <= end /\ new \in Nat
      BY <1>4, <1>7, <2>2, <2>3, <2>14
    <3>2. Trim(data, index, new, cut) = Bytes(new, cut - new)
      <4> DEFINE m == new - index + 1  n == cut - index
      <4>1. /\ index \in Int /\ m \in 1 .. len + 1 /\ n \in m - 1 .. len
            /\ index + m - 1 = new /\ n - m + 1 = cut - new
        BY <1>7, <2>3, <3>1 DEF end
      <4>2. SubSeq(Bytes(index, len), m, n) = Bytes(index + m - 1, n - m + 1)
        BY <4>1, BytesSubSeq, Zenon
      <4> HIDE DEF m, n
      <4>3. SubSeq(Bytes(index, len), m, n) = Bytes(new, cut - new)
        BY <4>1, <4>2, Zenon
      <4> QED BY <4>3 DEF m, n, Trim, data
    <3> DEFINE u == Place(r1, new, Bytes(new, cut - new))
    <3>3. Tidy(u, u.next_pos, cap, L) /\ Grown(r1, u, new .. cut - 1)
      <4>1. \A k \in DOMAIN r1.unassemble_buffer :
                SegEnd(r1.unassemble_buffer, k) <= new \/ cut <= k
        <5>1. ASSUME NEW k \in DOMAIN c PROVE SegEnd(c, k) <= new \/ cut <= k
          <6>1. k \in DOMAIN buf \ covered /\ SegEnd(c, k) = SegEnd(buf, k) /\ k \in Nat
            BY <1>1, <2>8 DEF Apart
          <6>2. SegEnd(buf, k) <= new \/ stop <= k
            BY <2>2, <6>1, Zenon
          <6> QED BY <2>2, <2>3, <6>1, <6>2
        <5> QED BY <2>9, <5>1, Zenon
      <4>2. r1.next_pos <= new /\ cut <= L /\ cut <= r1.output.bytes_read + cap
        BY <1>1, <1>4, <1>7, <2>3, <2>4, <2>9, <3>1 DEF top
      <4> QED BY <2>3, <2>10, <3>1, <4>1, <4>2, PlaceGrows, Zenon
    <3> HIDE DEF u
    <3>4. Accepted(u) = Accepted(r) \cup N
      <4>1. Accepted(u) = Accepted(r1) \cup (new .. cut - 1)
        BY <3>3, Zenon DEF Grown
      <4>2. \A i : i \in new .. cut - 1 <=> i \in Nat /\ new <= i /\ i < cut
        BY <1>7, <2>3
      <4>3. ASSUME NEW i \in Accepted(u) PROVE i \in Accepted(r) \/ i \in N
        <5>1. CASE i \in Accepted(r1)
          BY <1>9, <2>11, <5>1, Zenon
        <5>2. CASE i \in new .. cut - 1
          <6>1. i \in Nat /\ index <= i /\ i < end /\ i < top
            BY <1>2, <1>4, <1>7, <2>3, <3>1, <4>2, <5>2
          <6> QED BY <1>10, <6>1, Zenon
        <5> QED BY <4>1, <5>1, <5>2
      <4>4. ASSUME NEW i \in Accepted(r) PROVE i \in Accepted(u)
        <5>1. i \in 0 .. p - 1 \/ i \in Held(c) \/ i \in new .. cut - 1
          BY <1>9, <2>11, <4>2, Zenon
        <5> QED BY <2>11, <4>1, <5>1
      <4>5. ASSUME NEW i \in N PROVE i \in Accepted(u)
        <5>1. i \in Nat /\ index <= i /\ i < end /\ i < top
          BY <1>10, Zenon
        <5>2. CASE i < new
          BY <1>11, <4>4, <5>1, <5>2, Zenon
        <5>3. CASE new <= i /\ i < cut
          BY <4>1, <4>2, <5>1, <5>3
        <5>4. CASE cut <= i
          <6>1. i \in Held(buf)
            BY <2>12, <5>1, <5>4, Zenon
          <6>2. i \in Accepted(r)
            BY <1>9, <6>1, Zenon
          <6> QED BY <4>4, <6>2
        <5> QED BY <1>7, <2>3, <5>1, <5>2, <5>3, <5>4
      <4> QED BY <4>3, <4>4, <4>5
    <3>5. Grown(r, u, N)
      BY <2>9, <3>3, <3>4 DEF Grown, p
    <3>6. G(u)
      BY <3>3, <3>5, Zenon
    <3> QED BY <3>2, <3>6 DEF u
  <2> QED BY <2>13, <2>14
<1>14. G(t)
  <2>1. CASE new >= end \/ top <= new
    BY <1>8, <1>12, <2>1
  <2>2. CASE ~(new >= end \/ top <= new)
    <3>1. new < end /\ new < top
      BY <1>2, <1>4, <1>7, <2>2
    <3> QED BY <1>8, <1>13, <2>2, <3>1
  <2> QED BY <2>1, <2>2
<1> QED BY <1>14 DEF t, data, N

-----------------------------------------------------------------------------

\* f is the first index at or after p whose byte has not arrived.
IsFrontier(buf, p, top, f) ==
    /\ f \in Nat /\ p <= f /\ f <= top
    /\ \A i \in Nat : p <= i /\ i < f => i \in Held(buf)
    /\ f \notin Held(buf)

\* There is such an index, and Frontier is it.
LEMMA FrontierFirst ==
    ASSUME NEW buf, NEW p \in Nat, NEW L \in Nat, NEW top \in Nat, Apart(buf, p, L, top), p <= top
    PROVE  IsFrontier(buf, p, top, Frontier(buf, p))
<1> DEFINE Cand == {p} \cup {SegEnd(buf, k) : k \in DOMAIN buf}
           W(f) == /\ p <= f
                   /\ p .. f - 1 \subseteq Held(buf)
                   /\ f \notin Held(buf)
           U    == {u \in Nat : p <= u /\ u \notin Held(buf)}
<1>1. \A i : i \in Held(buf) <=> /\ i \in Nat
                                 /\ \E k \in DOMAIN buf : k <= i /\ i < SegEnd(buf, k)
  BY HeldMember, Zenon
<1>2. \A i \in Held(buf) : i \in Nat /\ p <= i /\ i < top
  BY HeldBounded, Zenon
<1>3. \A k \in DOMAIN buf : k \in Nat /\ SegEnd(buf, k) \in Nat
  BY DEF Apart
<1>4. \E f \in U : \A u \in U : f <= u
  <2>1. top \in U
    BY <1>2
  <2>2. U \in SUBSET Nat /\ U # {}
    BY <2>1, Zenon
  <2> HIDE DEF U
  <2> QED BY <2>2, LeastNumber, Zenon
<1>5. PICK f \in U : \A u \in U : f <= u
  BY <1>4
<1>6. f \in Nat /\ p <= f /\ f \notin Held(buf)
  BY <1>5
<1>7. \A i \in Nat : p <= i /\ i < f => i \in Held(buf)
  BY <1>5
<1> HIDE DEF U
<1>8. f \in Cand
  <2>1. CASE f = p
    BY <2>1
  <2>2. CASE f # p
    <3>1. f - 1 \in Nat /\ p <= f - 1 /\ f - 1 < f
      BY <1>6, <2>2
    <3>2. f - 1 \in Held(buf)
      BY <1>7, <3>1, Zenon
    <3>3. PICK k \in DOMAIN buf : k <= f - 1 /\ f - 1 < SegEnd(buf, k)
      BY <1>1, <3>2, Zenon
    <3>4. ~(k <= f /\ f < SegEnd(buf, k))
      BY <1>1, <1>6, Zenon
    <3>5. f = SegEnd(buf, k)
      BY <1>3, <1>6, <3>3, <3>4
    <3> QED BY <3>5
  <2> QED BY <2>1, <2>2
<1>9. W(f)
  <2>1. \A i \in p .. f - 1 : i \in Nat /\ p <= i /\ i < f
    BY <1>6
  <2> QED BY <1>6, <1>7, <2>1
<1> DEFINE g == CHOOSE g \in Cand : W(g)
<1>10. g \in Cand /\ W(g)
  <2> HIDE DEF Cand, W
  <2> QED BY <1>8, <1>9, Zenon
<1>11. g = Frontier(buf, p)
  BY DEF Frontier
<1>12. \A x \in Cand : x \in Nat
  BY <1>3
<1> HIDE DEF g, Cand
<1>13. g \in Nat /\ p <= g /\ g \notin Held(buf) /\ \A i \in p .. g - 1 : i \in Held(buf)
  BY <1>10, <1>12
<1>14. \A i \in Nat : p <= i /\ i < g => i \in Held(buf)
  BY <1>13
<1>15. g <= top
  <2>1. ASSUME g > top PROVE FALSE
    <3>1. top \in Held(buf)
      BY <1>14, <2>1
    <3> QED BY <1>2, <3>1
  <2> QED BY <1>13, <2>1
<1>16. IsFrontier(buf, p, top, g)
  BY <1>13, <1>14, <1>15 DEF IsFrontier
<1> QED BY <1>11, <1>16, Zenon

\* The byte of the map at a held index is the byte of that index.
LEMMA HeldByteInPlace ==
    ASSUME NEW buf, NEW lo, NEW L, NEW top, Apart(buf, lo, L, top), InPlace(buf),
           NEW i, i \in Held(buf)
    PROVE  HeldByte(buf, i) = i
<1>1. i \in Nat /\ \E k \in DOMAIN buf : k <= i /\ i < SegEnd(buf, k)
  BY HeldMember, Zenon
<1> DEFINE k == CHOOSE k \in DOMAIN buf : k <= i /\ i < SegEnd(buf, k)
<1>2. k \in DOMAIN buf /\ k <= i /\ i < SegEnd(buf, k)
  BY <1>1, Zenon
<1>3. HeldByte(buf, i) = buf[k][i - k + 1]
  BY Zenon DEF HeldByte
<1> HIDE DEF k
<1>4. /\ k \in Nat /\ Len(buf[k]) \in Nat /\ SegEnd(buf, k) = k + Len(buf[k])
      /\ \A j \in 1 .. Len(buf[k]) : buf[k][j] = k + j - 1
  BY <1>2, EntrySize, Zenon
<1>5. i - k + 1 \in 1 .. Len(buf[k])
  BY <1>1, <1>2, <1>4
<1>6. buf[k][i - k + 1] = k + (i - k + 1) - 1
  BY <1>4, <1>5, Zenon
<1> QED BY <1>1, <1>3, <1>4, <1>6

\* write_output() moves what continues the stream and forgets nothing: after it
\* no entry starts at or before the next byte of the stream.
LEMMA WriteOutput ==
    ASSUME NEW cap \in Nat, NEW L \in Nat, NEW r, Tidy(r, r.next_pos, cap, L)
    PROVE  LET t == write_output(r)
           IN  Tidy(t, t.next_pos + 1, cap, L) /\ Grown(r, t, {})
<1> DEFINE buf  == r.unassemble_buffer
           p    == r.next_pos
           top  == r.output.bytes_read + cap
           f    == Frontier(buf, p)
           n    == f - p
           data == [i \in 1 .. n |-> HeldByte(buf, p + i - 1)]
           kept == Restrict(buf, {k \in DOMAIN buf : k >= f})
           t    == write_output(r)
           G(u) == Tidy(u, u.next_pos + 1, cap, L) /\ Grown(r, u, {})
<1>1. /\ DOMAIN r = {"output", "capacity", "unassemble_buffer", "next_pos",
                     "unassembled_bytes", "eof_index", "eof_appear_sign"}
      /\ InOrder(r.output, cap) /\ r.capacity = cap /\ p \in Nat /\ p <= L
      /\ r.output.bytes_written = p
      /\ Apart(buf, p, L, top) /\ InPlace(buf)
      /\ r.unassembled_bytes = Cardinality(Held(buf))
  BY DEF Tidy
<1>2. /\ r.output.bytes_read \in Nat /\ r.output.buffer_size \in 0 .. cap /\ top \in Nat
      /\ p = r.output.bytes_read + r.output.buffer_size /\ r.output.capacity = cap
  BY <1>1 DEF InOrder
<1>3. remaining_capacity(r.output) = top - p /\ p <= top
  BY <1>2 DEF remaining_capacity
<1>4. IsFrontier(buf, p, top, f)
  BY <1>1, <1>2, <1>3, FrontierFirst, Zenon
<1>5. /\ f \in Nat /\ p <= f /\ f <= top /\ f \notin Held(buf)
      /\ \A i \in Nat : p <= i /\ i < f => i \in Held(buf)
  BY <1>4, Zenon DEF IsFrontier
<1>6. LesserOf(f - p, remaining_capacity(r.output)) = n /\ n \in Nat /\ p + n = f
  BY <1>1, <1>2, <1>3, <1>5 DEF LesserOf
<1>7. \A i : i \in Held(buf) <=> /\ i \in Nat
                                 /\ \E k \in DOMAIN buf : k <= i /\ i < SegEnd(buf, k)
  BY <1>1, HeldMember, Zenon
<1>8. \A k \in DOMAIN buf : k \in Nat /\ SegEnd(buf, k) \in Nat /\ k < SegEnd(buf, k) /\ p <= k
  BY <1>1 DEF Apart
<1>9. \A k \in DOMAIN buf : SegEnd(buf, k) <= f \/ f < k
  <2>1. ASSUME NEW k \in DOMAIN buf PROVE ~(k <= f /\ f < SegEnd(buf, k))
    BY <1>5, <1>7, Zenon
  <2> QED BY <1>5, <1>8, <2>1
<1>10. {k \in DOMAIN buf : k < f /\ f < SegEnd(buf, k)} = {}
  BY <1>5, <1>8, <1>9
<1>t. t = IF n = 0 THEN r
          ELSE [r EXCEPT !.output            = write(r.output, data),
                         !.unassemble_buffer = kept,
                         !.unassembled_bytes = r.unassembled_bytes - n,
                         !.next_pos          = f]
  <2> DEFINE m     == LesserOf(f - p, remaining_capacity(r.output))
             q     == p + m
             tails == {k \in DOMAIN buf : k < q /\ q < SegEnd(buf, k)}
             kp    == Restrict(buf, {k \in DOMAIN buf : k >= q})
             tl    == LET k == Min(tails) IN SubSeq(buf[k], q - k + 1, Len(buf[k]))
  <2>1. t = IF m = 0 THEN r
            ELSE [r EXCEPT !.output            = write(r.output, [i \in 1 .. m |-> HeldByte(buf, p + i - 1)]),
                           !.unassemble_buffer = IF tails = {} THEN kp ELSE Emplace(kp, q, tl),
                           !.unassembled_bytes = r.unassembled_bytes - m,
                           !.next_pos          = q]
    BY DEF write_output
  <2>2. m = n /\ q = f
    BY <1>6
  <2>3. tails = {}
    BY <1>10, <2>2
  <2>4. kp = kept
    BY <2>2
  <2>5. [i \in 1 .. m |-> HeldByte(buf, p + i - 1)] = data
    BY <2>2
  <2> HIDE DEF m, q, tails, kp, tl, kept, data, n, f, buf
  <2> QED BY <2>1, <2>2, <2>3, <2>4, <2>5
<1>11. data = Bytes(r.output.bytes_written, n)
  <2>1. \A i \in 1 .. n : HeldByte(buf, p + i - 1) = p + i - 1
    <3>1. ASSUME NEW i \in 1 .. n PROVE HeldByte(buf, p + i - 1) = p + i - 1
      <4>1. p + i - 1 \in Nat /\ p <= p + i - 1 /\ p + i - 1 < f
        BY <1>1, <1>5, <1>6
      <4>2. p + i - 1 \in Held(buf)
        BY <1>5, <4>1, Zenon
      <4> QED BY <1>1, <4>2, HeldByteInPlace, Zenon
    <3> QED BY <3>1
  <2> HIDE DEF n, p, buf
  <2> QED BY <1>1, <2>1 DEF Bytes
<1>12. ASSUME n = 0 PROVE G(r)
  <2>1. f = p
    BY <1>1, <1>5, <1>12
  <2>2. \A k \in DOMAIN buf : p + 1 <= k
    BY <1>5, <1>8, <1>9, <2>1
  <2>3. Apart(buf, p + 1, L, top)
    BY <1>1, <2>2 DEF Apart
  <2>4. Tidy(r, p + 1, cap, L)
    BY <1>1, <2>3 DEF Tidy
  <2>5. Grown(r, r, {})
    BY <1>1 DEF Grown
  <2> QED BY <2>4, <2>5
<1>13. ASSUME n # 0
       PROVE  G([r EXCEPT !.output            = write(r.output, data),
                          !.unassemble_buffer = kept,
                          !.unassembled_bytes = r.unassembled_bytes - n,
                          !.next_pos          = f])
  <2> DEFINE u == [r EXCEPT !.output            = write(r.output, data),
                            !.unassemble_buffer = kept,
                            !.unassembled_bytes = r.unassembled_bytes - n,
                            !.next_pos          = f]
             o == write(r.output, data)
  <2> HIDE DEF n
  <2>1. Wrote(r.output, o, write_count(r.output, data), n, cap)
    <3> HIDE DEF data
    <3>1. Wrote(r.output, write(r.output, Bytes(r.output.bytes_written, n)),
                write_count(r.output, Bytes(r.output.bytes_written, n)), n, cap)
      BY <1>1, <1>6, WriteInOrder, Zenon
    <3> QED BY <1>11, <3>1, Zenon
  <2> HIDE DEF o, data
  <2>2. /\ InOrder(o, cap) /\ o.bytes_written = f /\ o.bytes_read = r.output.bytes_read
        /\ o.end_input = r.output.end_input
    <3>1. LesserOf(cap - r.output.buffer_size, n) = n
      BY <1>2, <1>5, <1>6 DEF LesserOf
    <3> QED BY <1>1, <1>6, <2>1, <3>1 DEF Wrote
  <2>u. /\ DOMAIN u = DOMAIN r /\ u.output = o /\ u.next_pos = f
        /\ u.unassemble_buffer = kept /\ u.unassembled_bytes = r.unassembled_bytes - n
        /\ u.capacity = r.capacity /\ u.eof_index = r.eof_index
        /\ u.eof_appear_sign = r.eof_appear_sign
    <3> HIDE DEF kept, f
    <3> QED BY <1>1 DEF o
  <2> HIDE DEF u
  <2> DEFINE K == {k \in DOMAIN buf : k >= f}
  <2>3. K \subseteq DOMAIN buf /\ \A k \in DOMAIN buf : k \in K <=> f < k
    BY <1>5, <1>8, <1>9
  <2>k. kept = Restrict(buf, K)
    OBVIOUS
  <2> HIDE DEF K, kept, buf, top, p, f
  <2>4. Apart(kept, p, L, top) /\ InPlace(kept)
    BY <1>1, <2>3, <2>k, RestrictApart, Zenon
  <2>5. DOMAIN kept = K /\ \A k \in K : SegEnd(kept, k) = SegEnd(buf, k)
    BY <2>3, <2>k, RestrictMap, Zenon
  <2>6. Apart(kept, f + 1, L, top)
    <3>1. \A k \in DOMAIN kept : f + 1 <= k
      BY <1>5, <1>8, <2>3, <2>5
    <3> QED BY <2>4, <3>1 DEF Apart
  <2>7. \A i : i \in Held(kept) <=> /\ i \in Nat
                                    /\ \E k \in DOMAIN kept : k <= i /\ i < SegEnd(kept, k)
    BY <2>4, HeldMember, Zenon
  <2>8. \A i \in Held(kept) : i \in Nat /\ f + 1 <= i
    <3>1. f + 1 \in Nat
      BY <1>5
    <3> QED BY <1>2, <2>6, <3>1, HeldBounded, Zenon
  <2>9. Held(buf) = Held(kept) \cup (p .. f - 1)
    <3>1. ASSUME NEW i \in Held(buf) PROVE i \in Held(kept) \/ i \in p .. f - 1
      <4>1. PICK k \in DOMAIN buf : i \in Nat /\ k <= i /\ i < SegEnd(buf, k)
        BY <1>7, Zenon
      <4>2. CASE f < k
        BY <2>3, <2>5, <2>7, <4>1, <4>2, Zenon
      <4>3. CASE SegEnd(buf, k) <= f
        BY <1>1, <1>5, <1>8, <4>1, <4>3
      <4> QED BY <1>9, <4>2, <4>3, Zenon
    <3>2. ASSUME NEW i \in Held(kept) PROVE i \in Held(buf)
      BY <1>7, <2>3, <2>5, <2>7, Zenon
    <3>3. ASSUME NEW i \in p .. f - 1 PROVE i \in Held(buf)
      BY <1>1, <1>5
    <3> QED BY <3>1, <3>2, <3>3
  <2>10. Cardinality(Held(buf)) = Cardinality(Held(kept)) + (f - p)
    <3>1. IsFiniteSet(Held(kept))
      BY <1>1, <1>2, <2>4, HeldBounded, Zenon
    <3>2. \A i \in p .. f - 1 : i \notin Held(kept)
      BY <1>1, <1>5, <2>8
    <3>3. Cardinality(Held(kept) \cup (p .. f - 1)) = Cardinality(Held(kept)) + (f - p)
      <4>1. p \in Nat /\ f \in Nat /\ p <= f
        BY <1>1, <1>5
      <4> QED BY <3>1, <3>2, <4>1, IntervalCounts, Zenon
    <3> QED BY <2>9, <3>3
  <2>11. u.unassembled_bytes = Cardinality(Held(kept))
    <3>1. Cardinality(Held(kept)) \in Nat
      BY <1>1, <1>2, <2>4, HeldBounded, FS_CardinalityType, Zenon
    <3> QED BY <1>1, <1>5, <2>10, <2>u, <3>1 DEF n
  <2>12. f <= L
    <3>1. f - 1 \in Nat /\ p <= f - 1 /\ f - 1 < f
      BY <1>1, <1>5, <1>13 DEF n
    <3>2. f - 1 \in Held(buf)
      BY <1>5, <3>1, Zenon
    <3>3. f - 1 < L
      BY <1>1, <1>2, <3>2, HeldBounded, Zenon
    <3> QED BY <1>5, <3>3
  <2>13. Tidy(u, u.next_pos + 1, cap, L)
    BY <1>1, <1>5, <2>u, <2>2, <2>4, <2>6, <2>11, <2>12 DEF Tidy, top
  <2>14. Accepted(u) = Accepted(r) \cup {}
    <3>1. 0 .. f - 1 = (0 .. p - 1) \cup (p .. f - 1)
      BY <1>1, <1>5
    <3>2. Accepted(u) = (0 .. f - 1) \cup Held(kept) /\ Accepted(r) = (0 .. p - 1) \cup Held(buf)
      BY <2>u, Zenon DEF Accepted, p, buf
    <3> QED BY <2>9, <3>1, <3>2
  <2>15. Grown(r, u, {})
    BY <1>5, <2>2, <2>u, <2>14 DEF Grown, p
  <2> QED BY <2>13, <2>15, Zenon DEF u, o, kept
<1>14. G(t)
  BY <1>t, <1>12, <1>13, Zenon
<1> QED BY <1>14 DEF t

-----------------------------------------------------------------------------

\* The end of the stream is known only where it is, and the output is ended
\* exactly when it is known and every byte before it has been written.
Ends(r, L) ==
    /\ r.eof_appear_sign \in BOOLEAN /\ r.eof_index \in 0 .. L
    /\ r.eof_appear_sign => r.eof_index = L
    /\ r.eof_appear_sign = FALSE => r.eof_index = 0
    /\ r.output.end_input <=> (r.eof_appear_sign /\ r.next_pos = L)

\* What holds between two calls of push_substring().
Sound(r, cap, L) == Tidy(r, r.next_pos + 1, cap, L) /\ Ends(r, L)

\* t is r after push_substring() of the bytes at index .. index + len - 1.
Pushed(r, t, index, len, fin, cap, L) ==
    /\ Sound(t, cap, L)
    /\ Accepted(t) = Accepted(r) \cup Fitting(r, index, len, cap)
    /\ t.output.bytes_read = r.output.bytes_read /\ r.next_pos <= t.next_pos
    /\ t.eof_appear_sign <=> (r.eof_appear_sign \/ fin)

\* Setting members that Tidy and Accepted do not look at.
LEMMA TidyEof ==
    ASSUME NEW lo, NEW cap \in Nat, NEW L \in Nat, NEW r, Tidy(r, lo, cap, L), NEW e
    PROVE  LET t == [r EXCEPT !.eof_index = e, !.eof_appear_sign = TRUE]
           IN  /\ Tidy(t, lo, cap, L) /\ Accepted(t) = Accepted(r)
               /\ t.output = r.output /\ t.next_pos = r.next_pos
               /\ t.eof_index = e /\ t.eof_appear_sign = TRUE
<1> DEFINE t == [r EXCEPT !.eof_index = e, !.eof_appear_sign = TRUE]
<1>1. DOMAIN r = {"output", "capacity", "unassemble_buffer", "next_pos",
                  "unassembled_bytes", "eof_index", "eof_appear_sign"}
  BY DEF Tidy
<1>2. /\ DOMAIN t = DOMAIN r /\ t.output = r.output /\ t.next_pos = r.next_pos
      /\ t.unassemble_buffer = r.unassemble_buffer /\ t.unassembled_bytes = r.unassembled_bytes
      /\ t.capacity = r.capacity /\ t.eof_index = e /\ t.eof_appear_sign = TRUE
  BY <1>1
<1> HIDE DEF t
<1>3. Tidy(t, lo, cap, L) /\ Accepted(t) = Accepted(r)
  BY <1>2 DEF Tidy, Accepted
<1> QED BY <1>2, <1>3 DEF t

\* t is r with its output ended.
HasEnded(r, t, lo, cap, L) ==
    /\ Tidy(t, lo, cap, L) /\ Accepted(t) = Accepted(r)
    /\ t.output.end_input = TRUE /\ t.output.bytes_read = r.output.bytes_read
    /\ t.next_pos = r.next_pos
    /\ t.eof_index = r.eof_index /\ t.eof_appear_sign = r.eof_appear_sign

\* end_input() on the output disturbs nothing else of the reassembler.
LEMMA TidyEnd ==
    ASSUME NEW lo, NEW cap \in Nat, NEW L \in Nat, NEW r, Tidy(r, lo, cap, L)
    PROVE  HasEnded(r, [r EXCEPT !.output = end_input(r.output)], lo, cap, L)
<1> DEFINE o == end_input(r.output)
           t == [r EXCEPT !.output = o]
<1>1. /\ DOMAIN r = {"output", "capacity", "unassemble_buffer", "next_pos",
                     "unassembled_bytes", "eof_index", "eof_appear_sign"}
      /\ InOrder(r.output, cap)
  BY DEF Tidy
<1>2. /\ InOrder(o, cap) /\ o.bytes_written = r.output.bytes_written
      /\ o.bytes_read = r.output.bytes_read
  BY <1>1, EndInOrder
<1>3. o.end_input = TRUE
  BY <1>1 DEF InOrder, end_input
<1> HIDE DEF o
<1>4. /\ DOMAIN t = DOMAIN r /\ t.output = o /\ t.next_pos = r.next_pos
      /\ t.unassemble_buffer = r.unassemble_buffer /\ t.unassembled_bytes = r.unassembled_bytes
      /\ t.capacity = r.capacity /\ t.eof_index = r.eof_index
      /\ t.eof_appear_sign = r.eof_appear_sign
  BY <1>1
<1> HIDE DEF t
<1>5. Tidy(t, lo, cap, L) /\ Accepted(t) = Accepted(r)
  BY <1>2, <1>4 DEF Tidy, Accepted
<1> QED BY <1>2, <1>3, <1>4, <1>5 DEF HasEnded, t, o

\* push_substring() takes in exactly the bytes that the capacity admits, keeps
\* the reassembler sound, and ends the output neither early nor late.
LEMMA PushSubstring ==
    ASSUME NEW cap \in Nat, NEW L \in Nat, NEW r, Sound(r, cap, L),
           NEW index \in Nat, NEW len \in Nat, index + len < SizeSpace,
           len > 0 => index + len <= L,
           NEW fin \in BOOLEAN, fin => index + len = L
    PROVE  Pushed(r, push_substring(r, Bytes(index, len), index, fin), index, len, fin, cap, L)
<1> DEFINE data == Bytes(index, len)
           a    == insert_pair(r, data, index)
           b    == write_output(a)
           end  == index + len
           c    == IF fin THEN [b EXCEPT !.eof_index = end, !.eof_appear_sign = TRUE] ELSE b
           t    == push_substring(r, data, index, fin)
           N    == Fitting(r, index, len, cap)
<1>1. Tidy(a, a.next_pos, cap, L) /\ Grown(r, a, N)
  BY InsertPair DEF Sound
<1>2. Tidy(b, b.next_pos + 1, cap, L) /\ Grown(a, b, {})
  <2> HIDE DEF a
  <2> QED BY <1>1, WriteOutput
<1>3. SizeAdd(index, Len(data)) = end
  <2>1. Len(data) = len
    BY BytesProperties
  <2> HIDE DEF data
  <2> QED BY <2>1, SizeSpaceAssumption DEF SizeAdd
<1>4. t = IF c.eof_appear_sign /\ c.next_pos >= c.eof_index
          THEN [c EXCEPT !.output = end_input(c.output)] ELSE c
  <2>1. t = NoteEof(b, end, fin)
    <3> HIDE DEF end, data
    <3> QED BY <1>3 DEF push_substring
  <2> HIDE DEF b, end, t
  <2> QED BY <2>1 DEF NoteEof
<1> HIDE DEF a, b, t, data, N
<1>5. /\ b.output.bytes_read = r.output.bytes_read /\ r.next_pos <= b.next_pos
      /\ b.eof_index = r.eof_index /\ b.eof_appear_sign = r.eof_appear_sign
      /\ b.output.end_input = r.output.end_input /\ Accepted(b) = Accepted(r) \cup N
      /\ r.next_pos \in Nat /\ b.next_pos \in 0 .. L
  BY <1>1, <1>2 DEF Grown, Tidy, Sound
<1>6. /\ r.eof_appear_sign \in BOOLEAN /\ r.eof_index \in 0 .. L
      /\ r.eof_appear_sign => r.eof_index = L
      /\ r.eof_appear_sign = FALSE => r.eof_index = 0
      /\ r.output.end_input <=> (r.eof_appear_sign /\ r.next_pos = L)
  BY DEF Sound, Ends
<1>7. /\ Tidy(c, c.next_pos + 1, cap, L) /\ Accepted(c) = Accepted(b)
      /\ c.output = b.output /\ c.next_pos = b.next_pos
      /\ c.eof_appear_sign \in BOOLEAN /\ (c.eof_appear_sign <=> (r.eof_appear_sign \/ fin))
      /\ c.eof_index \in 0 .. L /\ (c.eof_appear_sign => c.eof_index = L)
      /\ (c.eof_appear_sign = FALSE => c.eof_index = 0)
  <2>1. CASE fin = TRUE
    <3> DEFINE d == [b EXCEPT !.eof_index = end, !.eof_appear_sign = TRUE]
    <3>1. /\ Tidy(d, b.next_pos + 1, cap, L) /\ Accepted(d) = Accepted(b)
          /\ d.output = b.output /\ d.next_pos = b.next_pos
          /\ d.eof_index = end /\ d.eof_appear_sign = TRUE
      BY <1>2, TidyEof
    <3>2. c = d /\ end = L
      BY <2>1
    <3> HIDE DEF c, d, end
    <3>3. /\ c.eof_appear_sign \in BOOLEAN /\ (c.eof_appear_sign <=> (r.eof_appear_sign \/ fin))
          /\ (c.eof_appear_sign => c.eof_index = L)
          /\ (c.eof_appear_sign = FALSE => c.eof_index = 0)
      BY <2>1, <3>1, <3>2, Zenon
    <3>4. c.eof_index \in 0 .. L
      BY <3>1, <3>2
    <3> QED BY <3>1, <3>2, <3>3, <3>4
  <2>2. CASE fin = FALSE
    <3>1. c = b
      BY <2>2
    <3> HIDE DEF c
    <3> QED BY <1>2, <1>5, <1>6, <2>2, <3>1
  <2> QED BY <2>1, <2>2
<1> HIDE DEF c, end
<1>8. CASE c.eof_appear_sign = TRUE /\ c.next_pos >= c.eof_index
  <2> DEFINE d == [c EXCEPT !.output = end_input(c.output)]
  <2>1. t = d
    BY <1>4, <1>8
  <2>2. /\ Tidy(d, c.next_pos + 1, cap, L) /\ Accepted(d) = Accepted(c)
        /\ d.output.end_input = TRUE /\ d.output.bytes_read = c.output.bytes_read
        /\ d.next_pos = c.next_pos
        /\ d.eof_index = c.eof_index /\ d.eof_appear_sign = c.eof_appear_sign
    <3>1. HasEnded(c, d, c.next_pos + 1, cap, L)
      BY <1>7, TidyEnd, Zenon
    <3> QED BY <3>1, Zenon DEF HasEnded
  <2> HIDE DEF d
  <2>3. c.next_pos = L
    BY <1>5, <1>7, <1>8
  <2>4. Ends(d, L)
    BY <1>7, <1>8, <2>2, <2>3 DEF Ends
  <2>5. Sound(t, cap, L)
    BY <2>1, <2>2, <2>4 DEF Sound
  <2>6. /\ Accepted(t) = Accepted(r) \cup N /\ t.output.bytes_read = r.output.bytes_read
        /\ r.next_pos <= t.next_pos /\ (t.eof_appear_sign <=> (r.eof_appear_sign \/ fin))
    BY <1>5, <1>7, <2>1, <2>2
  <2> QED BY <2>5, <2>6 DEF Pushed, t, N, data
<1>9. CASE ~(c.eof_appear_sign = TRUE /\ c.next_pos >= c.eof_index)
  <2>1. t = c
    BY <1>4, <1>7, <1>9
  <2>2. ~(c.eof_appear_sign /\ c.next_pos = L)
    BY <1>7, <1>9
  <2>3. ~(r.eof_appear_sign /\ r.next_pos = L)
    BY <1>5, <1>6, <1>7, <2>2
  <2>4. Ends(c, L)
    BY <1>5, <1>6, <1>7, <2>2, <2>3 DEF Ends
  <2>5. Sound(t, cap, L)
    BY <1>7, <2>1, <2>4 DEF Sound
  <2>6. /\ Accepted(t) = Accepted(r) \cup N /\ t.output.bytes_read = r.output.bytes_read
        /\ r.next_pos <= t.next_pos /\ (t.eof_appear_sign <=> (r.eof_appear_sign \/ fin))
    BY <1>5, <1>7, <2>1
  <2> QED BY <2>5, <2>6 DEF Pushed, t, N, data
<1> QED BY <1>8, <1>9

\* The constructor's reassembler is sound and empty.
LEMMA NewSound ==
    ASSUME NEW cap \in Nat, NEW L \in Nat
    PROVE  /\ Sound(NewStreamReassembler(cap), cap, L)
           /\ Accepted(NewStreamReassembler(cap)) = {}
<1> DEFINE r == NewStreamReassembler(cap)
           o == NewByteStream(cap)
           e == <<>>
<1>1. InOrder(o, cap) /\ o.bytes_written = 0 /\ o.bytes_read = 0 /\ o.end_input = FALSE
  BY NewInOrder DEF NewByteStream
<1>2. DOMAIN e = {}
  OBVIOUS
<1>3. /\ DOMAIN r = {"output", "capacity", "unassemble_buffer", "next_pos",
                     "unassembled_bytes", "eof_index", "eof_appear_sign"}
      /\ r.output = o /\ r.capacity = cap /\ r.unassemble_buffer = e /\ r.next_pos = 0
      /\ r.unassembled_bytes = 0 /\ r.eof_index = 0 /\ r.eof_appear_sign = FALSE
  BY DEF NewStreamReassembler
<1> HIDE DEF r, o, e
<1>4. Held(e) = {}
  BY <1>2 DEF Held
<1>5. Cardinality(Held(e)) = 0
  BY <1>4, FS_EmptySet, Zenon
<1>6. Apart(e, r.next_pos + 1, L, r.output.bytes_read + cap) /\ InPlace(e)
  BY <1>2 DEF Apart, InPlace
<1>7. Tidy(r, r.next_pos + 1, cap, L)
  BY <1>1, <1>3, <1>5, <1>6 DEF Tidy
<1>8. Ends(r, L)
  <2>1. r.eof_index \in 0 .. L /\ r.eof_index = 0
    BY <1>3
  <2>2. r.eof_appear_sign = FALSE /\ r.output.end_input = FALSE
    BY <1>1, <1>3, Zenon
  <2> QED BY <2>1, <2>2, Zenon DEF Ends
<1>9. Sound(r, cap, L)
  BY <1>3, <1>7, <1>8 DEF Sound
<1>10. Accepted(r) = {}
  BY <1>3, <1>4 DEF Accepted
<1> QED BY <1>9, <1>10 DEF r

\* t is r after the reader has taken n bytes.
PoppedOutput(r, t, n, cap, L) ==
    /\ Sound(t, cap, L) /\ Accepted(t) = Accepted(r)
    /\ t.output.bytes_read = r.output.bytes_read + n
    /\ t.output.bytes_written = r.output.bytes_written /\ t.next_pos = r.next_pos
    /\ t.unassemble_buffer = r.unassemble_buffer
    /\ t.output.end_input = r.output.end_input /\ t.eof_appear_sign = r.eof_appear_sign

\* Reading from the output keeps the reassembler sound.
LEMMA PopSound ==
    ASSUME NEW cap \in Nat, NEW L \in Nat, NEW r, Sound(r, cap, L), NEW len \in Nat
    PROVE  PoppedOutput(r, [r EXCEPT !.output = pop_output(r.output, len)],
                  LesserOf(len, r.output.buffer_size), cap, L)
<1> DEFINE n == LesserOf(len, r.output.buffer_size)
           o == pop_output(r.output, len)
           t == [r EXCEPT !.output = o]
<1>1. /\ DOMAIN r = {"output", "capacity", "unassemble_buffer", "next_pos",
                     "unassembled_bytes", "eof_index", "eof_appear_sign"}
      /\ InOrder(r.output, cap) /\ r.capacity = cap /\ r.next_pos \in 0 .. L
      /\ r.output.bytes_written = r.next_pos
      /\ Apart(r.unassemble_buffer, r.next_pos + 1, L, r.output.bytes_read + cap)
      /\ InPlace(r.unassemble_buffer)
      /\ r.unassembled_bytes = Cardinality(Held(r.unassemble_buffer))
  BY DEF Sound, Tidy
<1>2. r.output.bytes_read \in Nat /\ r.output.buffer_size \in Nat
  BY <1>1 DEF InOrder
<1>3. n \in 0 .. r.output.buffer_size /\ n \in Nat /\ n <= r.output.buffer_size
  BY <1>2 DEF LesserOf
<1>4. o = pop_output(r.output, n)
  <2>1. LesserOf(n, r.output.buffer_size) = n
    BY <1>2, <1>3 DEF LesserOf
  <2> QED BY <2>1 DEF pop_output
<1> DEFINE q == pop_output(r.output, n)
<1>5. /\ InOrder(q, cap) /\ q.bytes_written = r.output.bytes_written
      /\ q.bytes_read = r.output.bytes_read + n /\ q.end_input = r.output.end_input
  <2> HIDE DEF n
  <2> QED BY <1>1, <1>3, PopInOrder
<1> HIDE DEF n, o, q
<1>6. /\ DOMAIN t = DOMAIN r /\ t.output = o /\ t.next_pos = r.next_pos
      /\ t.unassemble_buffer = r.unassemble_buffer /\ t.unassembled_bytes = r.unassembled_bytes
      /\ t.capacity = r.capacity /\ t.eof_index = r.eof_index
      /\ t.eof_appear_sign = r.eof_appear_sign
  BY <1>1
<1>7. o = q
  BY <1>4 DEF q
<1> HIDE DEF t
<1>8. Apart(r.unassemble_buffer, r.next_pos + 1, L, o.bytes_read + cap)
  BY <1>1, <1>2, <1>3, <1>5, <1>7 DEF Apart
<1>9. Tidy(t, t.next_pos + 1, cap, L)
  BY <1>1, <1>5, <1>6, <1>7, <1>8 DEF Tidy
<1>10. Ends(t, L)
  BY <1>5, <1>6, <1>7 DEF Sound, Ends
<1>11. Accepted(t) = Accepted(r)
  BY <1>6 DEF Accepted
<1> QED BY <1>5, <1>6, <1>7, <1>9, <1>10, <1>11 DEF PoppedOutput, Sound, t, o, n

-----------------------------------------------------------------------------
\* What a receiver does with a segment of its peer.

\* A reassembler with all its members, whose output has the error flag e and
\* has been read up to k.
Flagged(r, e, k) ==
    /\ DOMAIN r = {"output", "capacity", "unassemble_buffer", "next_pos",
                   "unassembled_bytes", "eof_index", "eof_appear_sign"}
    /\ DOMAIN r.output = {"capacity", "bytes_written", "bytes_read", "buffer",
                          "buffer_size", "end_input", "error"}
    /\ r.output.error = e /\ r.output.bytes_read = k

\* push_substring() reports no error, clears none, and reads nothing.
LEMMA PushKeeps ==
    ASSUME NEW r, NEW e, NEW k, Flagged(r, e, k), NEW data, NEW index, NEW fin
    PROVE  Flagged(push_substring(r, data, index, fin), e, k)
<1>1. ASSUME NEW q, Flagged(q, e, k), NEW d
      PROVE  Flagged([q EXCEPT !.output = write(q.output, d)], e, k)
  BY <1>1 DEF Flagged, write
<1>2. ASSUME NEW q, Flagged(q, e, k), NEW new, NEW d PROVE Flagged(Place(q, new, d), e, k)
  <2> DEFINE direct == new = q.next_pos
             n  == IF direct THEN write_count(q.output, d) ELSE 0
             q1 == IF direct THEN [q EXCEPT !.output = write(@, d), !.next_pos = @ + n] ELSE q
             q2 == [q1 EXCEPT
                      !.unassemble_buffer = Emplace(@, new + n, SubSeq(d, n + 1, Len(d))),
                      !.unassembled_bytes = @ + Len(d)]
  <2>1. Place(q, new, d) = q1 \/ Place(q, new, d) = q2
    BY Zenon DEF Place
  <2>2. Flagged(q1, e, k)
    <3>1. CASE direct
      <4> DEFINE s == write(q.output, d)  m == n
      <4>1. Flagged([q EXCEPT !.output = s], e, k)
        BY <1>1, <1>2, Zenon
      <4>2. q1 = [q EXCEPT !.output = s, !.next_pos = q.next_pos + m]
        BY <3>1
      <4> HIDE DEF s, m, q1
      <4> QED BY <1>2, <4>1, <4>2 DEF Flagged
    <3>2. CASE ~direct
      BY <1>2, <3>2
    <3> QED BY <3>1, <3>2
  <2>3. Flagged(q2, e, k)
    <3> HIDE DEF q1, n
    <3> QED BY <2>2 DEF Flagged
  <2> QED BY <2>1, <2>2, <2>3, Zenon
<1>3. Flagged(insert_pair(r, data, index), e, k)
  <2> DEFINE end  == SizeAdd(index, Len(data))
             new  == NewIndex(r, index)
             buf  == r.unassemble_buffer
             cov  == Covered(buf, index, new, end)
             over == Overhanging(buf, index, new, end)
             stop == IF over # {} THEN Min(over) ELSE end
             cut  == LesserOf(FirstUnacceptable(r), stop)
             r1   == [r EXCEPT !.unassemble_buffer = Restrict(@, DOMAIN @ \ cov),
                               !.unassembled_bytes = @ - Sizes(buf, cov)]
             t    == insert_pair(r, data, index)
  <2>1. t = r \/ t = r1 \/ t = Place(r1, new, Trim(data, index, new, cut))
    BY Zenon DEF insert_pair
  <2>2. Flagged(r1, e, k)
    <3> HIDE DEF buf, cov
    <3> QED BY DEF Flagged
  <2>3. Flagged(Place(r1, new, Trim(data, index, new, cut)), e, k)
    BY <1>2, <2>2, Zenon
  <2> QED BY <2>1, <2>2, <2>3, Zenon
<1>4. ASSUME NEW q, Flagged(q, e, k) PROVE Flagged(write_output(q), e, k)
  <2> DEFINE d  == [i \in 1 .. LesserOf(Frontier(q.unassemble_buffer, q.next_pos) - q.next_pos,
                                        remaining_capacity(q.output))
                       |-> HeldByte(q.unassemble_buffer, q.next_pos + i - 1)]
             t  == write_output(q)
  <2>1. t = q \/ \E b, u, p : t = [q EXCEPT !.output = write(@, d), !.unassemble_buffer = b,
                                            !.unassembled_bytes = u, !.next_pos = p]
    BY Zenon DEF write_output
  <2>2. Flagged([q EXCEPT !.output = write(q.output, d)], e, k)
    BY <1>1, <1>4, Zenon
  <2> HIDE DEF d, t
  <2>3. CASE t = q
    BY <1>4, <2>3 DEF t
  <2>4. CASE t # q
    <3>1. PICK b, u, p : t = [q EXCEPT !.output = write(@, d), !.unassemble_buffer = b,
                                       !.unassembled_bytes = u, !.next_pos = p]
      BY <2>1, <2>4, Zenon
    <3>2. Flagged(t, e, k)
      BY <1>4, <2>2, <3>1 DEF Flagged
    <3> QED BY <3>2 DEF t
  <2> QED BY <2>3, <2>4
<1>5. ASSUME NEW q, Flagged(q, e, k), NEW end PROVE Flagged(NoteEof(q, end, fin), e, k)
  <2> DEFINE q1 == IF fin THEN [q EXCEPT !.eof_index = end, !.eof_appear_sign = TRUE] ELSE q
  <2>1. Flagged(q1, e, k)
    BY <1>5 DEF Flagged
  <2>2. NoteEof(q, end, fin) = q1 \/ NoteEof(q, end, fin) = [q1 EXCEPT !.output = end_input(@)]
    BY Zenon DEF NoteEof
  <2> HIDE DEF q1
  <2>3. Flagged([q1 EXCEPT !.output = end_input(@)], e, k)
    BY <2>1 DEF Flagged, end_input
  <2> QED BY <2>1, <2>2, <2>3, Zenon
<1> QED BY <1>3, <1>4, <1>5, Zenon DEF push_substring

\* The first absolute sequence number that has not arrived.
FirstMissing(out) == 1 + out.bytes_written + (IF out.end_input THEN 1 ELSE 0)

\* The first sequence number of a stream is the isn.
LEMMA WrapZero == ASSUME NEW i \in SeqNo PROVE wrap(0, i) = i
<1>1. SeqSpace \in Nat /\ SeqSpace > 0
  BY SpaceType
<1>2. i \in 0 .. SeqSpace - 1 /\ i + 0 \in Int /\ i + 0 = 0 * SeqSpace + i
  BY <1>1 DEF SeqNo
<1>3. (i + 0) % SeqSpace = i
  <2>1. 0 \in Int
    OBVIOUS
  <2> QED BY <1>1, <1>2, <2>1, ModUnique, Zenon
<1> QED BY <1>3 DEF wrap

\* The counters of a sound reassembler.
LEMMA SoundCounts ==
    ASSUME NEW cap \in Nat, NEW L \in Nat, NEW r, Sound(r, cap, L)
    PROVE  /\ r.output.bytes_read \in Nat /\ r.output.buffer_size \in 0 .. cap
           /\ r.output.bytes_written \in 0 .. L
           /\ r.output.bytes_written = r.output.bytes_read + r.output.buffer_size
           /\ r.output.bytes_written = r.next_pos
           /\ r.output.buffer = Bytes(r.output.bytes_read, r.output.buffer_size)
           /\ r.output.capacity = cap
           /\ r.output.end_input \in BOOLEAN
           /\ r.output.end_input = TRUE => r.output.bytes_written = L
           /\ FirstMissing(r.output) \in Nat /\ r.output.bytes_written < FirstMissing(r.output)
           /\ FirstMissing(r.output) <= r.output.bytes_written + 2
           /\ FirstMissing(r.output) <= L + 2
<1>1. /\ InOrder(r.output, cap) /\ r.output.bytes_written = r.next_pos
      /\ r.next_pos \in 0 .. L /\ Ends(r, L)
  BY DEF Sound, Tidy
<1>2. /\ r.output.bytes_read \in Nat /\ r.output.buffer_size \in 0 .. cap
      /\ r.output.bytes_written = r.output.bytes_read + r.output.buffer_size
      /\ r.output.buffer = Bytes(r.output.bytes_read, r.output.buffer_size)
      /\ r.output.capacity = cap /\ r.output.end_input \in BOOLEAN
  BY <1>1 DEF InOrder
<1>3. r.output.end_input = TRUE => r.output.bytes_written = L
  BY <1>1, Zenon DEF Ends
<1>4. /\ FirstMissing(r.output) \in Nat /\ r.output.bytes_written < FirstMissing(r.output)
      /\ FirstMissing(r.output) <= r.output.bytes_written + 2
      /\ FirstMissing(r.output) <= L + 2
  <2>1. CASE r.output.end_input = TRUE
    <3>1. FirstMissing(r.output) = 1 + r.output.bytes_written + 1
      BY <2>1 DEF FirstMissing
    <3> QED BY <1>1, <3>1
  <2>2. CASE r.output.end_input = FALSE
    <3>1. FirstMissing(r.output) = 1 + r.output.bytes_written + 0
      BY <2>2 DEF FirstMissing
    <3> QED BY <1>1, <3>1
  <2> QED BY <1>2, <2>1, <2>2
<1> QED BY <1>1, <1>2, <1>3, <1>4

\* A receiver: a sound reassembler and, after the SYN, the peer's isn.
ReceiverSound(v, cap, L, isn) ==
    /\ DOMAIN v = {"reassembler", "capacity", "syn", "isn"}
    /\ Sound(v.reassembler, cap, L)
    /\ v.syn \in BOOLEAN
    /\ v.syn = TRUE => v.isn = isn

\* v has handed the bytes at index .. index + len - 1 to its reassembler and is x.
TookIn(v, x, index, len, fin, cap, L, isn) ==
    /\ DOMAIN x = {"reassembler", "capacity", "syn", "isn"}
    /\ Pushed(v.reassembler, x.reassembler, index, len, fin, cap, L)
    /\ x.syn = TRUE /\ x.isn = isn
    /\ x.reassembler.output.error = v.reassembler.output.error

\* seg comes after the SYN or with it, holds len bytes that belong at index, and
\* its number is read as that index.
Arriving(v, seg, index, len, fin, L, isn) ==
    /\ index \in Nat /\ len \in Nat /\ fin \in BOOLEAN
    /\ seg.payload = Bytes(index, len) /\ seg.fin = fin /\ seg.syn \in BOOLEAN
    /\ v.syn = FALSE => seg.syn = TRUE /\ seg.seqno = isn
    /\ StreamIndex(unwrap(seg.seqno, isn, CheckPoint(v)), seg.syn) = index
    /\ index + len < SizeSpace
    /\ len > 0 => index + len <= L
    /\ fin => index + len = L

\* A segment that arrives after the SYN, or with it, is pushed at its index.
LEMMA ReceiverPushes ==
    ASSUME NEW cap \in Nat, NEW L \in Nat, NEW isn \in SeqNo, NEW v,
           ReceiverSound(v, cap, L, isn),
           NEW seg, NEW index, NEW len, NEW fin, Arriving(v, seg, index, len, fin, L, isn)
    PROVE  TookIn(v, receiver_segment_received(v, seg), index, len, fin, cap, L, isn)
<1>0. /\ index \in Nat /\ len \in Nat /\ fin \in BOOLEAN
      /\ seg.payload = Bytes(index, len) /\ seg.fin = fin /\ seg.syn \in BOOLEAN
      /\ (v.syn = FALSE => seg.syn = TRUE /\ seg.seqno = isn)
      /\ StreamIndex(unwrap(seg.seqno, isn, CheckPoint(v)), seg.syn) = index
      /\ index + len < SizeSpace /\ (len > 0 => index + len <= L) /\ (fin => index + len = L)
  BY DEF Arriving
<1> DEFINE x == receiver_segment_received(v, seg)
           r1 == IF v.syn THEN v ELSE [v EXCEPT !.syn = TRUE, !.isn = seg.seqno]
           ix == StreamIndex(unwrap(seg.seqno, r1.isn, CheckPoint(r1)), seg.syn)
           ps == push_substring(r1.reassembler, seg.payload, ix, seg.fin)
           q  == v.reassembler
<1>1. /\ DOMAIN v = {"reassembler", "capacity", "syn", "isn"} /\ v.syn \in BOOLEAN
      /\ Sound(q, cap, L) /\ (v.syn = TRUE => v.isn = isn)
  BY Zenon DEF ReceiverSound
<1>2. ~(~v.syn /\ ~seg.syn)
  BY <1>0, <1>1
<1>3. x = [r1 EXCEPT !.reassembler = ps]
  BY <1>2, Zenon DEF receiver_segment_received
<1>4. /\ DOMAIN r1 = {"reassembler", "capacity", "syn", "isn"} /\ r1.syn = TRUE
      /\ r1.isn = isn /\ r1.reassembler = q
  <2>1. CASE v.syn = TRUE
    <3>1. r1 = v
      BY <2>1
    <3> QED BY <1>1, <2>1, <3>1, Zenon
  <2>2. CASE v.syn = FALSE
    <3>1. r1 = [v EXCEPT !.syn = TRUE, !.isn = seg.seqno]
      BY <2>2
    <3> QED BY <1>0, <1>1, <2>2, <3>1
  <2> QED BY <1>1, <2>1, <2>2
<1> HIDE DEF r1
<1>5. CheckPoint(r1) = CheckPoint(v)
  BY <1>4 DEF CheckPoint, stream_out
<1>6. ps = push_substring(q, Bytes(index, len), index, fin)
  BY <1>0, <1>4, <1>5
<1> HIDE DEF q
<1>7. Pushed(q, push_substring(q, Bytes(index, len), index, fin), index, len, fin, cap, L)
  <2>1. /\ index + len < SizeSpace /\ (len > 0 => index + len <= L)
        /\ (fin => index + len = L) /\ Sound(q, cap, L)
    BY <1>0, <1>1, Zenon
  <2> QED BY <1>0, <2>1, PushSubstring
<1>8. push_substring(q, Bytes(index, len), index, fin).output.error = q.output.error
  <2>1. Flagged(q, q.output.error, q.output.bytes_read)
    BY <1>1 DEF Sound, Tidy, InOrder, Flagged
  <2>2. Flagged(push_substring(q, Bytes(index, len), index, fin), q.output.error,
                q.output.bytes_read)
    BY <2>1, PushKeeps, Zenon
  <2> QED BY <2>2, Zenon DEF Flagged
<1> HIDE DEF ps, ix, x
<1>9. /\ DOMAIN x = {"reassembler", "capacity", "syn", "isn"} /\ x.reassembler = ps
      /\ x.syn = TRUE /\ x.isn = isn
  BY <1>3, <1>4
<1>10. TookIn(v, x, index, len, fin, cap, L, isn)
  BY <1>6, <1>7, <1>8, <1>9, Zenon DEF TookIn, q
<1> QED BY <1>10 DEF x

-----------------------------------------------------------------------------
\* TCPSender.

\* The largest window for which what is outstanding, one segment acknowledged in
\* part included, spans less than half the sequence space.
WindowLimit == HalfRange - MaxPayload - 1

\* Such windows exist.
LEMMA WindowLimitType ==
    WindowLimit \in Nat /\ WindowLimit > 0 /\ WindowLimit + MaxPayload < HalfRange
BY SenderAssumption, HalfRangeAssumption DEF WindowLimit

\* The segments the sender makes.
Segs == [seqno : SeqNo, syn : BOOLEAN, fin : BOOLEAN, rst : {FALSE}, payload : Seq(Int),
         ack : {FALSE}, ackno : {0}, win : {0}]

\* seg starts at the absolute sequence number a and holds what belongs there,
\* when the application has written w bytes and has (or has not) ended.
Placed(seg, a, w, ended, isn) ==
    /\ seg.seqno = wrap(a, isn)
    /\ seg.payload = Bytes(a - 1, Len(seg.payload))
    /\ seg.syn => a = 0
    /\ seg.fin => ended = TRUE /\ a + Len(seg.payload) = w + 1
    /\ Len(seg.payload) > 0 => a > 0 /\ a + Len(seg.payload) <= w + 1

\* The segments segs follow each other without gaps: st[i] is where the i-th
\* starts, the last element of st is where the next one would.
Chain(segs, st, w, ended, isn) ==
    /\ segs \in Seq(Segs)
    /\ st \in [1 .. Len(segs) + 1 -> Nat]
    /\ \A i \in 1 .. Len(segs) :
          /\ Placed(segs[i], st[i], w, ended, isn)
          /\ length_in_sequence_space(segs[i]) <= MaxPayload + 1
          /\ st[i + 1] = st[i] + length_in_sequence_space(segs[i])
    /\ \A i, j \in 1 .. Len(segs) + 1 : i < j => st[i] < st[j]

\* seg is a segment of the sender that takes up len sequence numbers from a on.
Fits(seg, a, len, w, ended, isn) ==
    /\ seg \in Segs
    /\ Placed(seg, a, w, ended, isn)
    /\ length_in_sequence_space(seg) = len

\* The segments segs take up the sequence numbers a .. z - 1.
Spans(segs, a, z, w, ended, isn) ==
    \E st : Chain(segs, st, w, ended, isn) /\ st[1] = a /\ st[Len(segs) + 1] = z

-----------------------------------------------------------------------------

\* What a segment of the sender has for fields.
LEMMA SegFields ==
    ASSUME NEW seg \in Segs
    PROVE  /\ seg.seqno \in SeqNo /\ seg.syn \in BOOLEAN /\ seg.fin \in BOOLEAN
           /\ seg.payload \in Seq(Int) /\ Len(seg.payload) \in Nat
           /\ length_in_sequence_space(seg) \in Nat
<1>1. /\ seg.seqno \in SeqNo /\ seg.syn \in BOOLEAN /\ seg.fin \in BOOLEAN
      /\ seg.payload \in Seq(Int)
  BY DEF Segs
<1> DEFINE l == Len(seg.payload)
           m == IF seg.syn THEN 1 ELSE 0
           n == IF seg.fin THEN 1 ELSE 0
<1>2. l \in Nat /\ m \in Nat /\ n \in Nat
  BY <1>1
<1>3. length_in_sequence_space(seg) = l + m + n
  BY Zenon DEF length_in_sequence_space
<1> HIDE DEF l, m, n
<1>4. length_in_sequence_space(seg) \in Nat
  BY <1>2, <1>3
<1> QED BY <1>1, <1>2, <1>4 DEF l

\* The chain of p and q together starts like that of p and ends like that of q.
Joined(p, st, q, u, v, w, ended, isn) ==
    /\ Chain(p \o q, v, w, ended, isn)
    /\ Len(p \o q) = Len(p) + Len(q)
    /\ \A i \in 1 .. Len(p) + 1 : v[i] = st[i]
    /\ \A i \in 1 .. Len(q) + 1 : v[Len(p) + i] = u[i]

\* Segments after segments.
LEMMA ChainConcat ==
    ASSUME NEW isn \in SeqNo,
           NEW p, NEW st, NEW q, NEW u, NEW w, NEW ended,
           Chain(p, st, w, ended, isn), Chain(q, u, w, ended, isn), u[1] = st[Len(p) + 1]
    PROVE  \E v : Joined(p, st, q, u, v, w, ended, isn)
<1> DEFINE m == Len(p)  n == Len(q)  z == p \o q
           v == [i \in 1 .. m + n + 1 |-> IF i <= m THEN st[i] ELSE u[i - m]]
<1>1. p \in Seq(Segs) /\ q \in Seq(Segs) /\ m \in Nat /\ n \in Nat
  BY DEF Chain
<1>2. /\ z \in Seq(Segs) /\ Len(z) = m + n
      /\ \A i \in 1 .. m : z[i] = p[i]
      /\ \A i \in 1 .. n : z[m + i] = q[i]
  <2>1. /\ p \o q \in Seq(Segs) /\ Len(p \o q) = Len(p) + Len(q)
        /\ \A i \in 1 .. Len(p) : (p \o q)[i] = p[i]
        /\ \A i \in 1 .. Len(q) : (p \o q)[Len(p) + i] = q[i]
    BY <1>1
  <2> QED BY <2>1, Zenon
<1>3. /\ st \in [1 .. m + 1 -> Nat] /\ u \in [1 .. n + 1 -> Nat] /\ u[1] = st[m + 1]
      /\ \A i, j \in 1 .. m + 1 : i < j => st[i] < st[j]
      /\ \A i, j \in 1 .. n + 1 : i < j => u[i] < u[j]
  BY DEF Chain
<1>4. /\ \A i \in 1 .. m : /\ Placed(p[i], st[i], w, ended, isn)
                           /\ length_in_sequence_space(p[i]) <= MaxPayload + 1
                           /\ st[i + 1] = st[i] + length_in_sequence_space(p[i])
      /\ \A i \in 1 .. n : /\ Placed(q[i], u[i], w, ended, isn)
                           /\ length_in_sequence_space(q[i]) <= MaxPayload + 1
                           /\ u[i + 1] = u[i] + length_in_sequence_space(q[i])
  BY DEF Chain
<1> HIDE DEF m, n, z
<1>5. /\ v \in [1 .. m + n + 1 -> Nat]
      /\ \A i \in 1 .. m : v[i] = st[i]
      /\ \A i \in m + 1 .. m + n + 1 : v[i] = u[i - m] /\ i - m \in 1 .. n + 1
  BY <1>1, <1>3
<1> HIDE DEF v
<1>6. \A i \in 1 .. m + 1 : v[i] = st[i]
  BY <1>1, <1>3, <1>5, SMTT(30)
<1>7. ASSUME NEW i \in 1 .. n + 1 PROVE v[m + i] = u[i]
  <2>1. m + i \in m + 1 .. m + n + 1 /\ (m + i) - m = i
    BY <1>1
  <2> QED BY <1>5, <2>1
<1>8. ASSUME NEW i \in 1 .. m + n
      PROVE  /\ Placed(z[i], v[i], w, ended, isn)
             /\ length_in_sequence_space(z[i]) <= MaxPayload + 1
             /\ v[i + 1] = v[i] + length_in_sequence_space(z[i])
  <2>1. CASE i <= m
    <3>1. i \in 1 .. m /\ i \in 1 .. m + 1 /\ i + 1 \in 1 .. m + 1
      BY <1>1, <2>1
    <3>2. z[i] = p[i] /\ v[i] = st[i] /\ v[i + 1] = st[i + 1]
      BY <1>2, <1>6, <3>1, Zenon
    <3> QED BY <1>4, <3>1, <3>2
  <2>2. CASE i > m
    <3> DEFINE j == i - m
    <3>1. j \in 1 .. n /\ j \in 1 .. n + 1 /\ j + 1 \in 1 .. n + 1 /\ i = m + j /\ i + 1 = m + (j + 1)
      BY <1>1, <2>2
    <3> HIDE DEF j
    <3>2. z[i] = q[j] /\ v[i] = u[j] /\ v[i + 1] = u[j + 1]
      BY <1>2, <1>7, <3>1, Zenon
    <3> QED BY <1>4, <3>1, <3>2
  <2> QED BY <1>1, <2>1, <2>2
<1>9. ASSUME NEW i \in 1 .. m + n + 1, NEW j \in 1 .. m + n + 1, i < j
      PROVE  v[i] < v[j]
  <2>1. CASE j <= m + 1
    <3>1. i \in 1 .. m + 1 /\ j \in 1 .. m + 1
      BY <1>1, <1>9, <2>1
    <3> QED BY <1>3, <1>6, <1>9, <3>1
  <2>2. CASE i >= m + 1
    <3>1. /\ i \in m + 1 .. m + n + 1 /\ j \in m + 1 .. m + n + 1
          /\ i - m \in 1 .. n + 1 /\ j - m \in 1 .. n + 1 /\ i - m < j - m
      BY <1>1, <1>9, <2>2
    <3> QED BY <1>3, <1>5, <3>1
  <2>3. CASE i < m + 1 /\ j > m + 1
    <3>1. /\ i \in 1 .. m + 1 /\ m + 1 \in 1 .. m + 1 /\ j \in m + 1 .. m + n + 1
          /\ j - m \in 1 .. n + 1 /\ 1 \in 1 .. n + 1 /\ 1 < j - m
      BY <1>1, <2>3
    <3>2. v[i] < st[m + 1]
      BY <1>3, <1>6, <2>3, <3>1
    <3>3. u[1] < v[j]
      BY <1>3, <1>5, <3>1
    <3> QED
      <4>1. v[i] \in Nat /\ v[j] \in Nat /\ u[1] \in Nat
        BY <1>3, <1>5, <3>1
      <4> QED BY <1>3, <3>2, <3>3, <4>1
  <2> QED BY <1>1, <2>1, <2>2, <2>3
<1>10. Chain(z, v, w, ended, isn)
  BY <1>2, <1>5, <1>8, <1>9 DEF Chain
<1>11. Joined(p, st, q, u, v, w, ended, isn)
  BY <1>2, <1>6, <1>7, <1>10 DEF z, m, n, Joined
<1> QED BY <1>11, Zenon

\* Dropping the first k segments.
LEMMA ChainSuffix ==
    ASSUME NEW isn \in SeqNo,
           NEW p, NEW st, NEW w, NEW ended, Chain(p, st, w, ended, isn), NEW k \in 0 .. Len(p)
    PROVE  /\ Len(SubSeq(p, k + 1, Len(p))) = Len(p) - k
           /\ Chain(SubSeq(p, k + 1, Len(p)), [i \in 1 .. Len(p) - k + 1 |-> st[k + i]], w, ended, isn)
<1> DEFINE n == Len(p)  q == SubSeq(p, k + 1, n)  u == [i \in 1 .. n - k + 1 |-> st[k + i]]
<1>1. p \in Seq(Segs) /\ n \in Nat
  BY DEF Chain
<1>2. q \in Seq(Segs) /\ Len(q) = n - k /\ \A i \in 1 .. n - k : q[i] = p[k + i]
  BY <1>1, SplitProperties, Zenon
<1>3. /\ st \in [1 .. n + 1 -> Nat]
      /\ \A i, j \in 1 .. n + 1 : i < j => st[i] < st[j]
      /\ \A i \in 1 .. n : /\ Placed(p[i], st[i], w, ended, isn)
                           /\ length_in_sequence_space(p[i]) <= MaxPayload + 1
                           /\ st[i + 1] = st[i] + length_in_sequence_space(p[i])
  BY DEF Chain
<1> HIDE DEF n, q
<1>4. k \in Nat /\ k <= n
  BY DEF n
<1>5. u \in [1 .. n - k + 1 -> Nat] /\ \A i \in 1 .. n - k + 1 : u[i] = st[k + i]
  BY <1>1, <1>3, <1>4
<1> HIDE DEF u
<1>6. ASSUME NEW i \in 1 .. n - k
      PROVE  /\ Placed(q[i], u[i], w, ended, isn)
             /\ length_in_sequence_space(q[i]) <= MaxPayload + 1
             /\ u[i + 1] = u[i] + length_in_sequence_space(q[i])
  <2>1. /\ k + i \in 1 .. n /\ i \in 1 .. n - k + 1 /\ i + 1 \in 1 .. n - k + 1
        /\ k + (i + 1) = (k + i) + 1
    BY <1>1, <1>4
  <2>2. q[i] = p[k + i] /\ u[i] = st[k + i] /\ u[i + 1] = st[(k + i) + 1]
    BY <1>2, <1>5, <2>1
  <2> QED BY <1>3, <2>1, <2>2
<1>7. ASSUME NEW i \in 1 .. n - k + 1, NEW j \in 1 .. n - k + 1, i < j
      PROVE  u[i] < u[j]
  <2>1. k + i \in 1 .. n + 1 /\ k + j \in 1 .. n + 1 /\ k + i < k + j
    BY <1>1, <1>4, <1>7
  <2> QED BY <1>3, <1>5, <2>1
<1>8. Chain(q, u, w, ended, isn)
  BY <1>2, <1>5, <1>6, <1>7 DEF Chain
<1> QED BY <1>2, <1>8 DEF q, u, n

\* Before the end of the input no segment carries a FIN, so that neither more
\* bytes nor the end of the input change what the segments must hold.
LEMMA ChainGrows ==
    ASSUME NEW isn \in SeqNo,
           NEW p, NEW st, NEW w \in Nat, Chain(p, st, w, FALSE, isn), NEW x \in Nat, w <= x,
           NEW ended
    PROVE  Chain(p, st, x, ended, isn)
<1>1. ASSUME NEW i \in 1 .. Len(p) PROVE Placed(p[i], st[i], x, ended, isn)
  <2>0. /\ p \in Seq(Segs) /\ st \in [1 .. Len(p) + 1 -> Nat]
        /\ Placed(p[i], st[i], w, FALSE, isn)
    BY DEF Chain
  <2>b. Len(p) \in Nat /\ i \in 1 .. Len(p) + 1
    BY <2>0
  <2>c. p[i] \in Segs
    BY <2>0
  <2>d. st[i] \in Nat
    BY <2>0, <2>b, Zenon
  <2>1. Placed(p[i], st[i], w, FALSE, isn) /\ p[i] \in Segs /\ st[i] \in Nat
    BY <2>0, <2>c, <2>d, Zenon
  <2>2. Len(p[i].payload) \in Nat
    BY <2>1, SegFields, Zenon
  <2> DEFINE seg == p[i]  a == st[i]  l == Len(seg.payload)
  <2>3. l > 0 => a > 0 /\ a + l <= w + 1
    BY <2>1, Zenon DEF Placed
  <2>a. l \in Nat /\ a \in Nat
    BY <2>1, <2>2
  <2> HIDE DEF l, a, seg
  <2>4. l > 0 => a > 0 /\ a + l <= x + 1
    BY <2>3, <2>a
  <2>5. Placed(seg, a, w, FALSE, isn) /\ l = Len(seg.payload)
    BY <2>1 DEF seg, a, l
  <2>6. Placed(seg, a, x, ended, isn)
    BY <2>4, <2>5, Zenon DEF Placed
  <2> QED BY <2>6 DEF seg, a
<1> QED BY <1>1 DEF Chain

-----------------------------------------------------------------------------

\* Cutting n bytes into chunks of M: each chunk starts where the one before it
\* ends, before the end of the bytes, and the last one reaches that end.
LEMMA Chunks ==
    ASSUME NEW n \in Nat \ {0}, NEW M \in Nat \ {0}
    PROVE  LET k == (n + M - 1) \div M
           IN  /\ k \in Nat \ {0}
               /\ n <= (k - 1) * M + M
               /\ \A i \in 1 .. k : (i - 1) * M \in Nat /\ (i - 1) * M < n
               /\ \A i \in 1 .. k : i < k => (i - 1) * M + M = ((i + 1) - 1) * M
               /\ \A i, j \in 1 .. k : i < j => (i - 1) * M < (j - 1) * M
<1> DEFINE k == (n + M - 1) \div M  r == (n + M - 1) % M
<1>1. n + M - 1 = k * M + r /\ k \in Int /\ r \in 0 .. M - 1
  OBVIOUS
<1> HIDE DEF k, r
<1>2. k * M \in Int /\ (k - 1) * M \in Int /\ (k - 1) * M = k * M - M
  BY <1>1
<1>3. n <= k * M /\ (k - 1) * M < n
  <2> DEFINE kM == k * M  jM == (k - 1) * M
  <2>1. kM \in Int /\ jM = kM - M /\ n + M - 1 = kM + r
    BY <1>1, <1>2
  <2> HIDE DEF kM, jM
  <2>2. n <= kM /\ jM < n
    BY <1>1, <2>1
  <2> QED BY <2>2 DEF kM, jM
<1>4. k > 0
  <2>1. SUFFICES ASSUME k <= 0 PROVE FALSE
    BY <1>1
  <2>2. k * M <= 0
    BY <1>1, <2>1
  <2> QED BY <1>2, <1>3, <2>2
<1>5. \A i, j \in Int : i < j => i * M < j * M
  <2> SUFFICES ASSUME NEW i \in Int, NEW j \in Int, i < j PROVE i * M < j * M
    OBVIOUS
  <2>1. (j - i) * M > 0
    OBVIOUS
  <2>2. (j - i) * M = j * M - i * M /\ j * M \in Int /\ i * M \in Int
    OBVIOUS
  <2> QED BY <2>1, <2>2
<1>6. \A i \in 1 .. k : (i - 1) * M \in Nat /\ (i - 1) * M < n
  <2> SUFFICES ASSUME NEW i \in 1 .. k PROVE (i - 1) * M \in Nat /\ (i - 1) * M < n
    OBVIOUS
  <2>1. (i - 1) * M \in Int /\ (i - 1) * M >= 0
    BY <1>1
  <2>2. i - 1 = k - 1 \/ i - 1 < k - 1
    BY <1>1
  <2>3. (i - 1) * M = (k - 1) * M \/ (i - 1) * M < (k - 1) * M
    <3> DEFINE x == i - 1  y == k - 1
    <3>1. x \in Int /\ y \in Int /\ (x = y \/ x < y)
      BY <1>1, <2>2
    <3> HIDE DEF x, y
    <3>2. x * M = y * M \/ x * M < y * M
      BY <1>5, <3>1
    <3> QED BY <3>2 DEF x, y
  <2> QED BY <1>2, <1>3, <2>1, <2>3
<1>7. \A i \in 1 .. k : i < k => (i - 1) * M + M = ((i + 1) - 1) * M
  BY <1>1
<1>8. \A i, j \in 1 .. k : i < j => (i - 1) * M < (j - 1) * M
  <2> SUFFICES ASSUME NEW i \in 1 .. k, NEW j \in 1 .. k, i < j
               PROVE  (i - 1) * M < (j - 1) * M
    OBVIOUS
  <2> DEFINE x == i - 1  y == j - 1
  <2>1. x \in Int /\ y \in Int /\ x < y
    BY <1>1
  <2> HIDE DEF x, y
  <2>2. x * M < y * M
    BY <1>5, <2>1
  <2> QED BY <2>2 DEF x, y
<1>9. k \in Nat \ {0} /\ n <= (k - 1) * M + M
  BY <1>1, <1>2, <1>3, <1>4
<1> QED BY <1>6, <1>7, <1>8, <1>9 DEF k

\* A single segment is a chain of its own.
LEMMA ChainOne ==
    ASSUME NEW isn \in SeqNo,
           NEW seg, NEW a \in Nat, NEW len \in 1 .. MaxPayload + 1, NEW w, NEW ended,
           Fits(seg, a, len, w, ended, isn)
    PROVE  Len(<<seg>>) = 1 /\ Spans(<<seg>>, a, a + len, w, ended, isn)
<1> DEFINE u == [i \in 1 .. 2 |-> IF i = 1 THEN a ELSE a + len]  p == <<seg>>
<1>0. seg \in Segs /\ Placed(seg, a, w, ended, isn) /\ length_in_sequence_space(seg) = len
  BY DEF Fits
<1>1. p \in Seq(Segs) /\ Len(p) = 1 /\ p[1] = seg
  BY <1>0
<1>2. MaxPayload \in Nat
  BY SenderAssumption
<1>3. u \in [1 .. 2 -> Nat] /\ u[1] = a /\ u[2] = a + len
  BY <1>2
<1> HIDE DEF u, p
<1>4. \A i \in 1 .. 1 : i = 1
  OBVIOUS
<1>5. \A i \in 1 .. 1 : /\ Placed(p[i], u[i], w, ended, isn)
                        /\ length_in_sequence_space(p[i]) <= MaxPayload + 1
                        /\ u[i + 1] = u[i] + length_in_sequence_space(p[i])
  BY <1>0, <1>1, <1>2, <1>3, <1>4
<1>6. \A i, j \in 1 .. 2 : i < j => u[i] < u[j]
  BY <1>2, <1>3
<1>7. Chain(p, u, w, ended, isn)
  <2>1. Len(p) + 1 = 2
    BY <1>1
  <2> QED BY <1>1, <1>3, <1>5, <1>6, <2>1 DEF Chain
<1> QED BY <1>1, <1>3, <1>7 DEF p, Spans

\* F and e are where the chunks of n bytes begin and end; after the last one F
\* is n plus x, for the FIN.
IsChunkTable(F, e, n, M, x, k) ==
    /\ F \in [1 .. k + 1 -> Nat] /\ e \in [1 .. k -> Nat]
    /\ F[1] = 0 /\ F[k + 1] = n + x
    /\ \A i \in 1 .. k : /\ F[i] = (i - 1) * M /\ e[i] = LesserOf(F[i] + M, n)
                         /\ e[i] - F[i] \in 1 .. M /\ e[i] <= n
    /\ \A i \in 1 .. k : F[i + 1] = e[i] + (IF i = k THEN x ELSE 0)
    /\ e[k] = n
    /\ \A i, j \in 1 .. k + 1 : i < j => F[i] < F[j]

\* The offsets of the chunks, and after them n plus x for the FIN, as a table.
LEMMA ChunkTable ==
    ASSUME NEW n \in Nat \ {0}, NEW M \in Nat \ {0}, NEW x \in 0 .. 1,
           NEW k, k = (n + M - 1) \div M
    PROVE  /\ k \in Nat \ {0}
           /\ \E F, e : IsChunkTable(F, e, n, M, x, k)
<1> DEFINE f == [i \in 1 .. k |-> (i - 1) * M]
           e == [i \in 1 .. k |-> LesserOf(f[i] + M, n)]
           F == [i \in 1 .. k + 1 |-> IF i <= k THEN f[i] ELSE n + x]
<1>1. /\ k \in Nat \ {0}
      /\ n <= (k - 1) * M + M
      /\ \A i \in 1 .. k : (i - 1) * M \in Nat /\ (i - 1) * M < n
      /\ \A i \in 1 .. k : i < k => (i - 1) * M + M = ((i + 1) - 1) * M
      /\ \A i, j \in 1 .. k : i < j => (i - 1) * M < (j - 1) * M
  BY Chunks, Zenon
<1>2. \A i \in 1 .. k : f[i] = (i - 1) * M
  OBVIOUS
<1>3. f \in [1 .. k -> Nat]
  BY <1>1
<1>4. /\ 1 \in 1 .. k /\ k \in 1 .. k /\ (1 - 1) * M = 0
      /\ \A i \in 1 .. k : i < k => i + 1 \in 1 .. k
  BY <1>1
<1> HIDE DEF f
<1>5. /\ f[1] = 0 /\ n <= f[k] + M
      /\ \A i \in 1 .. k : f[i] < n
      /\ \A i \in 1 .. k : i < k => f[i] + M = f[i + 1]
      /\ \A i, j \in 1 .. k : i < j => f[i] < f[j]
  <2>1. f[1] = 0 /\ n <= f[k] + M
    BY <1>1, <1>2, <1>4
  <2>2. \A i \in 1 .. k : f[i] < n
    BY <1>1, <1>2
  <2>3. \A i \in 1 .. k : i < k => f[i] + M = f[i + 1]
    BY <1>1, <1>2, <1>4
  <2>4. \A i, j \in 1 .. k : i < j => f[i] < f[j]
    BY <1>1, <1>2
  <2> QED BY <2>1, <2>2, <2>3, <2>4
<1>6. \A i \in 1 .. k : e[i] = LesserOf(f[i] + M, n)
  OBVIOUS
<1>7. e \in [1 .. k -> Nat]
  <2>1. ASSUME NEW i \in 1 .. k PROVE LesserOf(f[i] + M, n) \in Nat
    <3>1. f[i] \in Nat
      BY <1>3
    <3> QED BY <3>1 DEF LesserOf
  <2> QED BY <2>1
<1>8. F \in [1 .. k + 1 -> Nat] /\ F[k + 1] = n + x /\ \A i \in 1 .. k : F[i] = f[i]
  <2>1. ASSUME NEW i \in 1 .. k + 1 PROVE (IF i <= k THEN f[i] ELSE n + x) \in Nat
    <3>1. CASE i <= k
      <4>1. i \in 1 .. k
        BY <1>1, <3>1
      <4> QED BY <1>3, <3>1, <4>1
    <3>2. CASE ~(i <= k)
      BY <3>2
    <3> QED BY <3>1, <3>2
  <2>2. k + 1 \in 1 .. k + 1 /\ ~(k + 1 <= k) /\ \A i \in 1 .. k : i \in 1 .. k + 1 /\ i <= k
    BY <1>1
  <2> QED BY <2>1, <2>2
<1> HIDE DEF e, F
<1>9. ASSUME NEW i \in 1 .. k
      PROVE  /\ e[i] - f[i] \in 1 .. M /\ e[i] <= n
             /\ i < k => e[i] = f[i + 1]
             /\ i = k => e[i] = n
  <2> DEFINE fi == f[i]  ei == e[i]
  <2>1. fi \in Nat /\ fi < n /\ ei = LesserOf(fi + M, n)
    BY <1>3, <1>5, <1>6
  <2>2. ASSUME i < k PROVE ei = f[i + 1]
    <3> DEFINE fj == f[i + 1]
    <3>1. fi + M = fj /\ fj < n /\ fj \in Nat
      BY <1>3, <1>4, <1>5, <2>2
    <3> HIDE DEF fi, ei, fj
    <3>2. ei = fj
      BY <2>1, <3>1 DEF LesserOf
    <3> QED BY <3>2 DEF fj
  <2>3. ASSUME i = k PROVE ei = n
    <3>1. n <= fi + M
      BY <1>5, <2>3
    <3> HIDE DEF fi, ei
    <3> QED BY <2>1, <3>1 DEF LesserOf
  <2>4. ei - fi \in 1 .. M /\ ei <= n
    <3> HIDE DEF fi, ei
    <3> QED BY <2>1 DEF LesserOf
  <2> QED BY <2>2, <2>3, <2>4
<1>10. ASSUME NEW i \in 1 .. k PROVE F[i + 1] = e[i] + (IF i = k THEN x ELSE 0)
  <2>1. CASE i < k
    <3>1. F[i + 1] = e[i] /\ e[i] \in Nat
      BY <1>4, <1>7, <1>8, <1>9, <2>1
    <3> QED BY <2>1, <3>1
  <2>2. CASE i = k
    BY <1>8, <1>9, <2>2
  <2> QED BY <1>1, <2>1, <2>2
<1>11. ASSUME NEW i \in 1 .. k + 1, NEW j \in 1 .. k + 1, i < j PROVE F[i] < F[j]
  <2>1. CASE j <= k
    <3>1. i \in 1 .. k /\ j \in 1 .. k
      BY <1>1, <1>11, <2>1
    <3> QED BY <1>5, <1>8, <1>11, <3>1
  <2>2. CASE j = k + 1
    <3>1. i \in 1 .. k
      BY <1>1, <1>11, <2>2
    <3>2. F[i] = f[i] /\ f[i] \in Nat /\ f[i] < n /\ F[j] = n + x
      BY <1>3, <1>5, <1>8, <2>2, <3>1
    <3> DEFINE y == f[i]
    <3> HIDE DEF y
    <3>3. y \in Nat /\ y < n /\ F[i] = y
      BY <3>2 DEF y
    <3> QED BY <3>2, <3>3
  <2> QED BY <1>1, <2>1, <2>2
<1>12. e[k] = n /\ F[1] = 0
  BY <1>4, <1>5, <1>8, <1>9
<1>13. \A i \in 1 .. k : /\ F[i] = (i - 1) * M /\ e[i] = LesserOf(F[i] + M, n)
                         /\ e[i] - F[i] \in 1 .. M /\ e[i] <= n
  BY <1>2, <1>6, <1>8, <1>9
<1>14. IsChunkTable(F, e, n, M, x, k)
  BY <1>7, <1>8, <1>10, <1>11, <1>12, <1>13, Zenon DEF IsChunkTable
<1> QED BY <1>1, <1>14, Zenon

\* A segment with l bytes of payload that starts at c, with the FIN (y = 1) or without.
LEMMA DataSegment ==
    ASSUME NEW isn \in SeqNo,
           NEW c \in Nat, NEW l \in Nat, NEW y \in 0 .. 1, NEW ended, NEW w,
           y = 1 => ended = TRUE /\ c + l = w + 1,
           l > 0 => c > 0 /\ c + l <= w + 1
    PROVE  Fits(Segment(wrap(c, isn), FALSE, y = 1, Bytes(c - 1, l)), c, l + y, w, ended, isn)
<1> DEFINE d == Bytes(c - 1, l)  fi == y = 1  seg == Segment(wrap(c, isn), FALSE, fi, d)
<1>1. d \in Seq(Int) /\ Len(d) = l
  <2>1. c - 1 \in Int
    OBVIOUS
  <2> QED BY <2>1, BytesProperties, Zenon
<1>2. d = Bytes(c - 1, l) /\ y = (IF fi THEN 1 ELSE 0) /\ fi \in BOOLEAN
  OBVIOUS
<1>3. fi => ended = TRUE /\ c + l = w + 1
  BY Zenon
<1> HIDE DEF d, fi
<1>4. /\ seg \in Segs /\ seg.seqno = wrap(c, isn) /\ seg.syn = FALSE /\ seg.fin = fi
      /\ seg.payload = d
  <2>1. wrap(c, isn) \in SeqNo
    BY WrapType, WindowLimitType
  <2> QED BY <1>1, <1>2, <2>1 DEF Segment, Segs
<1>5. length_in_sequence_space(seg) =
          Len(seg.payload) + (IF seg.syn THEN 1 ELSE 0) + (IF seg.fin THEN 1 ELSE 0)
  BY Zenon DEF length_in_sequence_space
<1> HIDE DEF seg
<1>6. length_in_sequence_space(seg) = l + y
  <2>1. (IF seg.syn THEN 1 ELSE 0) = 0 /\ (IF seg.fin THEN 1 ELSE 0) = y /\ Len(seg.payload) = l
    BY <1>1, <1>2, <1>4
  <2>2. length_in_sequence_space(seg) = l + 0 + y
    BY <1>5, <2>1, Zenon
  <2> QED BY <2>2
<1>7. seg.payload = Bytes(c - 1, Len(seg.payload)) /\ Len(seg.payload) = l
  BY <1>1, <1>2, <1>4
<1>8. Placed(seg, c, w, ended, isn)
  BY <1>3, <1>4, <1>7, Zenon DEF Placed
<1>9. Fits(seg, c, l + y, w, ended, isn)
  BY <1>4, <1>6, <1>8 DEF Fits
<1> QED BY <1>9, Zenon DEF seg, d, fi

\* The k segments of segs start at the increasing offsets F from a.
Offsets(segs, F, k, a, w, ended, isn) ==
    /\ F \in [1 .. k + 1 -> Nat]
    /\ \A i, j \in 1 .. k + 1 : i < j => F[i] < F[j]
    /\ \A i \in 1 .. k : /\ Placed(segs[i], a + F[i], w, ended, isn)
                         /\ length_in_sequence_space(segs[i]) = F[i + 1] - F[i]
                         /\ F[i + 1] - F[i] <= MaxPayload + 1

\* A list of segments with a table of their offsets from a is a chain.
LEMMA TableChain ==
    ASSUME NEW isn \in SeqNo,
           NEW a \in Nat, NEW segs \in Seq(Segs), NEW k \in Nat, Len(segs) = k, NEW w, NEW ended,
           NEW F, MaxPayload \in Nat, Offsets(segs, F, k, a, w, ended, isn)
    PROVE  Chain(segs, [i \in 1 .. k + 1 |-> a + F[i]], w, ended, isn)
<1> DEFINE u == [i \in 1 .. k + 1 |-> a + F[i]]
<1>0. /\ F \in [1 .. k + 1 -> Nat]
      /\ \A i, j \in 1 .. k + 1 : i < j => F[i] < F[j]
      /\ \A i \in 1 .. k : /\ Placed(segs[i], a + F[i], w, ended, isn)
                           /\ length_in_sequence_space(segs[i]) = F[i + 1] - F[i]
                           /\ F[i + 1] - F[i] <= MaxPayload + 1
  BY DEF Offsets
<1>1. u \in [1 .. k + 1 -> Nat] /\ \A i \in 1 .. k + 1 : u[i] = a + F[i] /\ F[i] \in Nat
  BY <1>0
<1> HIDE DEF u
<1>2. ASSUME NEW i \in 1 .. k
      PROVE  /\ Placed(segs[i], u[i], w, ended, isn)
             /\ length_in_sequence_space(segs[i]) <= MaxPayload + 1
             /\ u[i + 1] = u[i] + length_in_sequence_space(segs[i])
  <2>1. i \in 1 .. k + 1 /\ i + 1 \in 1 .. k + 1
    OBVIOUS
  <2> DEFINE p == F[i]  q == F[i + 1]  l == length_in_sequence_space(segs[i])
  <2>2. u[i] = a + p /\ u[i + 1] = a + q /\ p \in Nat /\ q \in Nat /\ l = q - p /\ l <= MaxPayload + 1
    BY <1>0, <1>1, <2>1
  <2>3. Placed(segs[i], u[i], w, ended, isn)
    BY <1>0, <1>1, <2>1
  <2> HIDE DEF p, q, l
  <2>4. a + q = (a + p) + l
    BY <2>2
  <2> QED BY <2>2, <2>3, <2>4 DEF l
<1>3. ASSUME NEW i \in 1 .. k + 1, NEW j \in 1 .. k + 1, i < j PROVE u[i] < u[j]
  <2> DEFINE p == F[i]  q == F[j]
  <2>1. u[i] = a + p /\ u[j] = a + q /\ p \in Nat /\ q \in Nat /\ p < q
    BY <1>0, <1>1, <1>3
  <2> HIDE DEF p, q
  <2> QED BY <2>1
<1>4. Chain(segs, u, w, ended, isn)
  BY <1>1, <1>2, <1>3 DEF Chain
<1> QED BY <1>4 DEF u

\* A chunk of the n bytes at b, those with offsets p .. q - 1, as a segment.
LEMMA ChunkSegment ==
    ASSUME NEW isn \in SeqNo,
           NEW a \in Nat, NEW b \in Nat, a = b + 1, NEW n \in Nat, NEW p \in Nat, NEW q \in Nat,
           q - p \in 1 .. MaxPayload, q <= n, NEW y \in 0 .. 1, NEW w, NEW ended,
           y = 1 => ended = TRUE /\ a + q = w + 1, a + q <= w + 1
    PROVE  Fits(Segment(wrap(a + p, isn), FALSE, y = 1, SubSeq(Bytes(b, n), p + 1, q)),
                a + p, (q - p) + y, w, ended, isn)
<1> DEFINE c == a + p  l == q - p
<1>1. c \in Nat /\ l \in Nat /\ c + l = a + q
  BY SenderAssumption
<1>2. SubSeq(Bytes(b, n), p + 1, q) = Bytes(c - 1, l)
  <2>1. b \in Int /\ p + 1 \in 1 .. n + 1 /\ q \in (p + 1) - 1 .. n
    BY SenderAssumption
  <2>2. SubSeq(Bytes(b, n), p + 1, q) = Bytes(b + (p + 1) - 1, q - (p + 1) + 1)
    BY <2>1, BytesSubSeq, Zenon
  <2>3. b + (p + 1) - 1 = c - 1 /\ q - (p + 1) + 1 = l
    OBVIOUS
  <2> QED BY <2>2, <2>3
<1>3. (y = 1 => ended = TRUE /\ c + l = w + 1) /\ (l > 0 => c > 0 /\ c + l <= w + 1)
  <2>1. c > 0
    OBVIOUS
  <2> QED BY <1>1, <2>1, Zenon
<1> DEFINE seg == Segment(wrap(c, isn), FALSE, y = 1, Bytes(c - 1, l))
<1> HIDE DEF c, l
<1>4. Fits(seg, c, l + y, w, ended, isn)
  BY <1>1, <1>3, DataSegment, Zenon
<1> QED BY <1>2, <1>4, Zenon DEF c, l

\* Only the FIN is sent.
LEMMA OnlyFin ==
    ASSUME NEW isn \in SeqNo,
           NEW a \in Nat, NEW w, NEW ended, ended = TRUE, a = w + 1
    PROVE  /\ Len(<<Segment(wrap(a, isn), FALSE, TRUE, <<>>)>>) = 1
           /\ Spans(<<Segment(wrap(a, isn), FALSE, TRUE, <<>>)>>, a, a + 1, w, ended, isn)
<1> DEFINE seg == Segment(wrap(a, isn), FALSE, 1 = 1, Bytes(a - 1, 0))
<1>1. <<>> = Bytes(a - 1, 0)
  BY DEF Bytes
<1>2. 0 \in Nat /\ 1 \in 0 .. 1 /\ (1 = 1 => ended = TRUE /\ a + 0 = w + 1) /\ (1 = 1) = TRUE /\ ~(0 > 0)
  OBVIOUS
<1>3. Fits(seg, a, 0 + 1, w, ended, isn)
  BY <1>2, DataSegment, Zenon
<1> HIDE DEF seg
<1>4. 0 + 1 = 1 /\ 1 \in 1 .. MaxPayload + 1
  BY SenderAssumption
<1>5. Len(<<seg>>) = 1 /\ Spans(<<seg>>, a, a + 1, w, ended, isn)
  BY <1>3, <1>4, ChainOne
<1> QED BY <1>1, <1>2, <1>5, Zenon DEF seg

\* The segments the k chunks of the n bytes at b make, the FIN (x = 1) on the last.
Pieces(a, b, n, x, k, isn) ==
    [i \in 1 .. k |->
        Segment(wrap(a + (i - 1) * MaxPayload, isn), FALSE, x = 1 /\ i = k,
                SubSeq(Bytes(b, n), (i - 1) * MaxPayload + 1,
                       LesserOf((i - 1) * MaxPayload + MaxPayload, n)))]

\* n bytes from b on, cut into chunks, the FIN on the last one or not.
LEMMA CutBytes ==
    ASSUME NEW isn \in SeqNo,
           NEW a \in Nat, NEW b \in Nat, a = b + 1, NEW n \in Nat \ {0}, NEW x \in 0 .. 1,
           NEW w \in Nat, NEW ended, x = 1 => ended = TRUE /\ a + n = w + 1, a + n <= w + 1,
           NEW k, k = (n + MaxPayload - 1) \div MaxPayload
    PROVE  /\ Len(Pieces(a, b, n, x, k, isn)) \in Nat \ {0}
           /\ Spans(Pieces(a, b, n, x, k, isn), a, a + n + x, w, ended, isn)
<1> DEFINE M == MaxPayload  segs == Pieces(a, b, n, x, k, isn)
<1>1. M \in Nat \ {0}
  BY SenderAssumption
<1>2. k \in Nat \ {0} /\ \E F, e : IsChunkTable(F, e, n, M, x, k)
  BY <1>1, ChunkTable, Zenon
<1>a. PICK F, e : IsChunkTable(F, e, n, M, x, k)
  BY <1>2, Zenon
<1>3. /\ F \in [1 .. k + 1 -> Nat] /\ e \in [1 .. k -> Nat]
      /\ F[1] = 0 /\ F[k + 1] = n + x
      /\ \A i \in 1 .. k : /\ F[i] = (i - 1) * M /\ e[i] = LesserOf(F[i] + M, n)
                           /\ e[i] - F[i] \in 1 .. M /\ e[i] <= n
      /\ \A i \in 1 .. k : F[i + 1] = e[i] + (IF i = k THEN x ELSE 0)
      /\ e[k] = n
      /\ \A i, j \in 1 .. k + 1 : i < j => F[i] < F[j]
  BY <1>a, Zenon DEF IsChunkTable
<1>4. ASSUME NEW i \in 1 .. k
      PROVE  segs[i] = Segment(wrap(a + F[i], isn), FALSE, x = 1 /\ i = k,
                               SubSeq(Bytes(b, n), F[i] + 1, e[i]))
  <2>1. F[i] = (i - 1) * M /\ e[i] = LesserOf((i - 1) * M + M, n)
    BY <1>3, Zenon
  <2> QED BY <2>1, Zenon DEF Pieces
<1>5. segs = [i \in 1 .. k |-> segs[i]]
  BY Zenon DEF Pieces
<1>6. ASSUME NEW i \in 1 .. k
      PROVE  /\ segs[i] \in Segs
             /\ Placed(segs[i], a + F[i], w, ended, isn)
             /\ length_in_sequence_space(segs[i]) = F[i + 1] - F[i]
             /\ F[i + 1] - F[i] <= MaxPayload + 1
  <2> DEFINE p == F[i]  q == e[i]  s == F[i + 1]  y == IF i = k THEN x ELSE 0
  <2>1. i \in 1 .. k + 1
    BY <1>2
  <2>2. p \in Nat /\ q \in Nat /\ q - p \in 1 .. M /\ q <= n /\ s = q + y
    BY <1>3, <2>1
  <2>3. y \in 0 .. 1 /\ (x = 1 /\ i = k) = (y = 1)
    OBVIOUS
  <2>4. ASSUME y = 1 PROVE ended = TRUE /\ a + q = w + 1
    <3>1. x = 1 /\ i = k
      BY <2>3, <2>4
    <3>2. q = n
      BY <1>3, <3>1
    <3> QED BY <3>1, <3>2
  <2>b. a + q <= w + 1
    BY <2>2
  <2> DEFINE seg == Segment(wrap(a + p, isn), FALSE, y = 1, SubSeq(Bytes(b, n), p + 1, q))
  <2>5. segs[i] = seg
    BY <1>4, <2>3, Zenon
  <2> HIDE DEF p, q, s, y
  <2>6. Fits(seg, a + p, (q - p) + y, w, ended, isn)
    BY <2>2, <2>3, <2>4, <2>b, ChunkSegment, Zenon
  <2> HIDE DEF seg
  <2>7. (q - p) + y = s - p /\ s - p <= MaxPayload + 1
    BY <1>1, <2>2, <2>3
  <2> QED BY <2>5, <2>6, <2>7, Zenon DEF p, s, Fits
<1> HIDE DEF segs
<1>7. segs \in Seq(Segs) /\ Len(segs) = k
  <2>1. k \in Nat /\ \A i \in 1 .. k : segs[i] \in Segs
    BY <1>2, <1>6
  <2>2. segs \in [1 .. k -> Segs]
    BY <1>5, <2>1, Zenon
  <2> QED BY <2>1, <2>2, SeqOfFunction, Zenon
<1> DEFINE u == [i \in 1 .. k + 1 |-> a + F[i]]
<1>8. Chain(segs, u, w, ended, isn)
  <2>1. MaxPayload \in Nat /\ k \in Nat
    BY <1>1, <1>2
  <2>2. Offsets(segs, F, k, a, w, ended, isn)
    BY <1>3, <1>6, Zenon DEF Offsets
  <2> QED BY <1>7, <2>1, <2>2, TableChain, ZenonT(60)
<1>9. u[1] = a /\ u[k + 1] = a + n + x
  <2>1. 1 \in 1 .. k + 1 /\ k + 1 \in 1 .. k + 1
    BY <1>2
  <2>2. u[1] = a + F[1] /\ u[k + 1] = a + F[k + 1] /\ F[1] = 0 /\ F[k + 1] = n + x
    BY <1>3, <2>1, Zenon
  <2>3. a + 0 = a /\ a + (n + x) = a + n + x
    OBVIOUS
  <2> QED BY <2>2, <2>3
<1> HIDE DEF u
<1>10. Len(segs) \in Nat \ {0} /\ Spans(segs, a, a + n + x, w, ended, isn)
  BY <1>2, <1>7, <1>8, <1>9, Zenon DEF Spans
<1> QED BY <1>10, Zenon DEF segs

\* The segments fill_window cuts from the stream hold the next n bytes, and the
\* FIN if it is to be sent, and follow each other from next_seqno.
LEMMA CutChain ==
    ASSUME NEW isn \in SeqNo, NEW cap \in Nat,
           NEW r, NEW w \in Nat, InOrder(r.stream, cap), r.isn = isn,
           r.next_seqno = r.stream.bytes_read + 1, r.stream.bytes_written = w,
           NEW n \in 0 .. r.stream.buffer_size, NEW fin \in BOOLEAN, n > 0 \/ fin,
           fin => r.stream.end_input /\ n = r.stream.buffer_size,
           NEW x \in 0 .. 1, x = (IF fin THEN 1 ELSE 0)
    PROVE  /\ Len(CutIntoSegments(r, n, fin)) \in Nat \ {0}
           /\ Spans(CutIntoSegments(r, n, fin), r.next_seqno, r.next_seqno + n + x,
                    w, r.stream.end_input, isn)
<1> DEFINE segs == CutIntoSegments(r, n, fin)
           a == r.next_seqno
           b == r.stream.bytes_read
           ended == r.stream.end_input
           k == (n + MaxPayload - 1) \div MaxPayload
<1>1. /\ b \in Nat /\ a = b + 1 /\ a \in Nat /\ n \in Nat /\ cap \in Nat
      /\ fin = (x = 1) /\ ended \in BOOLEAN
      /\ (x = 1 => ended = TRUE /\ a + n = w + 1) /\ a + n <= w + 1
  BY SenderAssumption, WindowLimitType DEF InOrder
<1>2. CASE n = 0
  <2>1. fin = TRUE /\ ended = TRUE /\ a = w + 1
    BY <1>1, <1>2
  <2>2. segs = <<Segment(wrap(a, isn), FALSE, TRUE, <<>>)>>
    BY <1>2, <2>1, Zenon DEF CutIntoSegments
  <2> HIDE DEF a, segs, ended, b
  <2>3. Len(segs) = 1 /\ Spans(segs, a, a + 1, w, ended, isn)
    BY <1>1, <2>1, <2>2, OnlyFin, Zenon
  <2>4. a + n + x = a + 1 /\ Len(segs) \in Nat \ {0}
    BY <1>1, <1>2, <2>1, <2>3
  <2> QED BY <2>3, <2>4, Zenon DEF a, segs, ended
<1>3. CASE n # 0
  <2>1. peek_output(r.stream, n) = Bytes(b, n)
    BY <1>1, PeekInOrder
  <2>2. segs = Pieces(a, b, n, x, k, isn)
    BY <1>1, <1>3, <2>1, Zenon DEF CutIntoSegments, Pieces
  <2>3. n \in Nat \ {0}
    BY <1>1, <1>3
  <2>4. k = (n + MaxPayload - 1) \div MaxPayload
    OBVIOUS
  <2>a. a \in Nat /\ b \in Nat /\ a = b + 1 /\ (x = 1 => ended = TRUE /\ a + n = w + 1)
        /\ a + n <= w + 1
    BY <1>1, Zenon
  <2> HIDE DEF k, segs, a, b, ended
  <2>5. /\ Len(segs) \in Nat \ {0}
        /\ Spans(segs, a, a + n + x, w, ended, isn)
    <3>1. /\ Len(Pieces(a, b, n, x, k, isn)) \in Nat \ {0}
          /\ Spans(Pieces(a, b, n, x, k, isn), a, a + n + x, w, ended, isn)
      BY <2>a, <2>3, <2>4, CutBytes, ZenonT(60)
    <3> QED BY <2>2, <3>1, Zenon
  <2> QED BY <2>5, Zenon DEF a, segs, ended
<1> QED BY <1>2, <1>3

-----------------------------------------------------------------------------

\* The outstanding segments are a chain up to next, the acknowledgment number
\* ack points into the first of them, and flight counts them.
Flight(track, next, ack, flight, w, ended, isn) ==
    \E st : /\ Chain(track, st, w, ended, isn)
            /\ st[Len(track) + 1] = next
            /\ st[1] <= ack
            /\ Len(track) > 0 => ack < st[2]
            /\ Len(track) = 0 => ack = next
            /\ flight = next - st[1]

\* A number less than half the sequence space from ack.
NearAck(a, ack) == a \in Nat /\ a - ack < HalfRange /\ ack - a < HalfRange

\* seg is in its place, near ack, and ends at next at the latest.
InReach(seg, a, ack, next, w, ended, isn) ==
    /\ NearAck(a, ack) /\ Placed(seg, a, w, ended, isn)
    /\ a + length_in_sequence_space(seg) <= next

\* Every segment the last call sent is in its place.
Out(out, ack, next, w, ended, isn) ==
    /\ out \in Seq(Segs)
    /\ \A i \in 1 .. Len(out) : \E a : InReach(out[i], a, ack, next, w, ended, isn)

\* New segments continue the outstanding ones.
LEMMA FlightGrows ==
    ASSUME NEW isn \in SeqNo,
           NEW track, NEW next \in Nat, NEW ack \in Nat, NEW flight, NEW w, NEW ended,
           Flight(track, next, ack, flight, w, ended, isn),
           NEW segs, NEW z \in Nat, Len(segs) \in Nat \ {0}, Spans(segs, next, z, w, ended, isn)
    PROVE  Flight(track \o segs, z, ack, flight + (z - next), w, ended, isn) /\ track \o segs # <<>>
<1> DEFINE q == track \o segs  m == Len(track)  n == Len(segs)
<1>1. PICK st : /\ Chain(track, st, w, ended, isn) /\ st[m + 1] = next /\ st[1] <= ack
                /\ m > 0 => ack < st[2]
                /\ m = 0 => ack = next
                /\ flight = next - st[1]
  BY DEF Flight
<1>2. PICK u : Chain(segs, u, w, ended, isn) /\ u[1] = next /\ u[n + 1] = z
  BY DEF Spans
<1>3. u[1] = st[m + 1]
  BY <1>1, <1>2, Zenon
<1>4. PICK v : Joined(track, st, segs, u, v, w, ended, isn)
  BY <1>1, <1>2, <1>3, ChainConcat, Zenon
<1>5. /\ Chain(q, v, w, ended, isn) /\ Len(q) = m + n
      /\ \A i \in 1 .. m + 1 : v[i] = st[i]
      /\ \A i \in 1 .. n + 1 : v[m + i] = u[i]
  BY <1>4, Zenon DEF Joined
<1>6. /\ m \in Nat /\ n \in Nat /\ n > 0 /\ st \in [1 .. m + 1 -> Nat] /\ u \in [1 .. n + 1 -> Nat]
      /\ \A i, j \in 1 .. n + 1 : i < j => u[i] < u[j]
  BY <1>1, <1>2 DEF Chain
<1> HIDE DEF q, m, n
<1>7. /\ 1 \in 1 .. m + 1 /\ n + 1 \in 1 .. n + 1 /\ 1 \in 1 .. n + 1 /\ 2 \in 1 .. n + 1
      /\ m + (n + 1) = m + n + 1 /\ (m > 0 => 2 \in 1 .. m + 1) /\ (m = 0 => m + 2 = 2)
  BY <1>6
<1>8. v[1] = st[1] /\ v[Len(q) + 1] = z
  <2>1. v[1] = st[1] /\ v[m + (n + 1)] = u[n + 1]
    BY <1>5, <1>7, Zenon
  <2> QED BY <1>2, <1>5, <1>7, <2>1, Zenon
<1>9. Len(q) > 0 /\ ~(Len(q) = 0)
  BY <1>5, <1>6
<1>10. ack < v[2]
  <2>1. CASE m > 0
    BY <1>1, <1>5, <1>7, <2>1
  <2>2. CASE m = 0
    <3>1. v[m + 2] = u[2] /\ u[1] < u[2]
      BY <1>5, <1>6, <1>7
    <3> QED BY <1>1, <1>2, <1>7, <2>2, <3>1
  <2> QED BY <1>6, <2>1, <2>2
<1>11. flight + (z - next) = z - v[1]
  <2>1. st[1] \in Nat
    BY <1>6, <1>7
  <2> QED BY <1>1, <1>8, <2>1
<1>12. Flight(q, z, ack, flight + (z - next), w, ended, isn)
  BY <1>1, <1>5, <1>8, <1>9, <1>10, <1>11, Zenon DEF Flight
<1>13. q # <<>>
  BY <1>9
<1> QED BY <1>12, <1>13 DEF q

\* New segments that begin at or after ack and end within the window are near ack.
LEMMA OutGrows ==
    ASSUME NEW isn \in SeqNo,
           NEW out, NEW ack \in Nat, NEW w, NEW ended, NEW a \in Nat,
           Out(out, ack, a, w, ended, isn),
           NEW segs, NEW z \in Nat, Spans(segs, a, z, w, ended, isn),
           ack <= a, a <= z, z <= ack + WindowLimit
    PROVE  Out(out \o segs, ack, z, w, ended, isn)
<1> DEFINE m == Len(out)  n == Len(segs)  q == out \o segs
<1>1. PICK u : Chain(segs, u, w, ended, isn) /\ u[1] = a /\ u[n + 1] = z
  BY DEF Spans
<1>2. /\ segs \in Seq(Segs) /\ u \in [1 .. n + 1 -> Nat] /\ n \in Nat
      /\ \A i \in 1 .. n : /\ Placed(segs[i], u[i], w, ended, isn)
                          /\ u[i + 1] = u[i] + length_in_sequence_space(segs[i])
      /\ \A i, j \in 1 .. n + 1 : i < j => u[i] < u[j]
  BY <1>1 DEF Chain
<1>3. /\ out \in Seq(Segs) /\ m \in Nat
      /\ \A i \in 1 .. m : \E b : InReach(out[i], b, ack, a, w, ended, isn)
  BY DEF Out
<1>4. /\ q \in Seq(Segs) /\ Len(q) = m + n
      /\ \A i \in 1 .. m : q[i] = out[i]
      /\ \A i \in 1 .. n : q[m + i] = segs[i]
  <2>1. /\ out \o segs \in Seq(Segs) /\ Len(out \o segs) = Len(out) + Len(segs)
        /\ \A i \in 1 .. Len(out) : (out \o segs)[i] = out[i]
        /\ \A i \in 1 .. Len(segs) : (out \o segs)[Len(out) + i] = segs[i]
    BY <1>2, <1>3, SMTT(30)
  <2> QED BY <2>1, Zenon
<1> HIDE DEF m, n, q
<1>5. ASSUME NEW j \in 1 .. n PROVE NearAck(u[j], ack) /\ u[j + 1] <= z
  <2>1. j \in 1 .. n + 1 /\ 1 \in 1 .. n + 1 /\ n + 1 \in 1 .. n + 1 /\ j < n + 1 /\ (j = 1 \/ 1 < j)
    BY <1>2
  <2>2. u[j] < z /\ u[j] >= a /\ u[j] \in Nat
    BY <1>1, <1>2, <2>1
  <2>3. j + 1 \in 1 .. n + 1 /\ (j + 1 = n + 1 \/ j + 1 < n + 1)
    BY <1>2
  <2>4. u[j + 1] <= z
    BY <1>1, <1>2, <2>1, <2>3
  <2> QED BY <2>2, <2>4, WindowLimitType, SenderAssumption, HalfRangeAssumption DEF NearAck
<1>6. ASSUME NEW i \in 1 .. m + n PROVE \E b : InReach(q[i], b, ack, z, w, ended, isn)
  <2>1. CASE i <= m
    <3>1. i \in 1 .. m
      BY <1>2, <1>3, <2>1
    <3>2. PICK b : InReach(q[i], b, ack, a, w, ended, isn) /\ q[i] \in Segs
      BY <1>3, <1>4, <3>1
    <3>3. length_in_sequence_space(q[i]) \in Nat
      BY <3>2, SegFields, Zenon
    <3> DEFINE l == length_in_sequence_space(q[i])
    <3>4. b \in Nat /\ l \in Nat /\ b + l <= a
      BY <3>2, <3>3, Zenon DEF InReach, NearAck
    <3> HIDE DEF l
    <3>5. b + l <= z
      BY <3>4
    <3>6. InReach(q[i], b, ack, z, w, ended, isn)
      BY <3>2, <3>5, Zenon DEF l, InReach
    <3> QED BY <3>6, Zenon
  <2>2. CASE i > m
    <3> DEFINE j == i - m
    <3>1. j \in 1 .. n /\ i = m + j
      BY <1>2, <1>3, <2>2
    <3> HIDE DEF j
    <3>2. /\ q[i] = segs[j] /\ Placed(segs[j], u[j], w, ended, isn) /\ NearAck(u[j], ack)
          /\ u[j] + length_in_sequence_space(segs[j]) <= z
      BY <1>2, <1>4, <1>5, <3>1, Zenon
    <3>3. InReach(q[i], u[j], ack, z, w, ended, isn)
      BY <3>2, Zenon DEF InReach
    <3> QED BY <3>3, Zenon
  <2> QED BY <1>2, <1>3, <2>1, <2>2
<1>7. Out(q, ack, z, w, ended, isn)
  BY <1>4, <1>6, Zenon DEF Out
<1> QED BY <1>7 DEF q

-----------------------------------------------------------------------------

\* The timer runs exactly while something is outstanding (the parts of
\* TimerGuardsOutstanding, and the types of its members).
TimerOK(t, track) ==
    /\ DOMAIN t = {"running", "ms_since_running", "rto", "consecutive_retransmissions"}
    /\ t.running \in BOOLEAN /\ t.ms_since_running \in Nat /\ t.rto \in Nat \ {0}
    /\ t.consecutive_retransmissions \in Nat
    /\ t.running = (track # <<>>)
    /\ t.running => /\ t.ms_since_running < t.rto
                    /\ t.consecutive_retransmissions = 0 => t.rto = InitRTO

\* How far the stream has been read: nothing before the SYN, up to next_seqno
\* after it, everything once the FIN is sent.
Sending(s, next, w, cap) ==
    /\ InOrder(s, cap) /\ s.bytes_written = w /\ w \in Nat
    /\ \/ next = 0 /\ s.bytes_read = 0
       \/ next = s.bytes_read + 1
       \/ s.end_input = TRUE /\ s.buffer_size = 0 /\ next = w + 2

\* The members of the sender and nothing else.
Shape(r, isn) ==
    /\ DOMAIN r = {"isn", "segments_out", "segments_track", "timer", "stream", "next_seqno",
                   "abs_ackno", "window_size", "bytes_in_flight"}
    /\ r.isn = isn

\* The inductive invariant but for how far the stream has been read.
Core(r, w, isn) ==
    /\ Shape(r, isn)
    /\ r.next_seqno \in Nat /\ r.abs_ackno \in Nat /\ r.abs_ackno <= r.next_seqno
    /\ r.window_size \in 0 .. WindowLimit
    /\ r.next_seqno <= r.abs_ackno + WindowLimit
    /\ TimerOK(r.timer, r.segments_track)
    /\ Flight(r.segments_track, r.next_seqno, r.abs_ackno, r.bytes_in_flight, w, r.stream.end_input, isn)
    /\ Out(r.segments_out, r.abs_ackno, r.next_seqno, w, r.stream.end_input, isn)

\* The inductive invariant of a sender that was given w bytes.
Good(r, w, isn, cap) == Core(r, w, isn) /\ Sending(r.stream, r.next_seqno, w, cap)

\* What SendSegments leaves alone and how far it moves next_seqno.
Moved(r, t, space) ==
    /\ t.stream = r.stream /\ t.next_seqno = r.next_seqno + space
    /\ t.abs_ackno = r.abs_ackno /\ t.window_size = r.window_size
    /\ t.segments_track # <<>>

\* The timer after send_no_empty_segment, which starts it if it does not run.
Started(t) == IF t.running THEN t ELSE timer_start(t)

\* A timer that runs, or is started, guards what is outstanding.
LEMMA TimerStarts ==
    ASSUME NEW t, NEW track, TimerOK(t, track), NEW q, q # <<>>
    PROVE  TimerOK(Started(t), q)
<1>1. CASE t.running
  <2>1. Started(t) = t
    BY <1>1, Zenon DEF Started
  <2>2. t.running = (q # <<>>)
    BY <1>1 DEF TimerOK
  <2>3. TimerOK(t, q)
    BY <2>2, Zenon DEF TimerOK
  <2> QED BY <2>1, <2>3, Zenon
<1>2. CASE ~t.running
  <2> DEFINE u == timer_start(t)
  <2>1. /\ u.running = TRUE /\ u.ms_since_running = 0 /\ u.rto = InitRTO
        /\ u.consecutive_retransmissions = 0
        /\ DOMAIN u = {"running", "ms_since_running", "rto", "consecutive_retransmissions"}
    BY DEF timer_start
  <2> HIDE DEF u
  <2>2. u.running = (q # <<>>)
    BY <2>1, Zenon
  <2>3. 0 \in Nat /\ InitRTO \in Nat \ {0} /\ 0 \in Nat /\ 0 < InitRTO
    BY SenderAssumption, WindowLimitType
  <2>4. TimerOK(u, q)
    BY <2>1, <2>2, <2>3, Zenon DEF TimerOK
  <2> QED BY <1>2, <2>4, Zenon DEF u, Started
<1> QED BY <1>1, <1>2

\* Sending segments that continue the outstanding ones within the window.
LEMMA SendCore ==
    ASSUME NEW isn \in SeqNo,
           NEW r, NEW w, Core(r, w, isn), NEW segs, NEW space \in Nat, Len(segs) \in Nat \ {0},
           Spans(segs, r.next_seqno, r.next_seqno + space, w, r.stream.end_input, isn),
           r.next_seqno + space <= r.abs_ackno + WindowLimit
    PROVE  /\ Core(SendSegments(r, segs, space), w, isn)
           /\ Moved(r, SendSegments(r, segs, space), space)
<1> DEFINE t == SendSegments(r, segs, space)
           next == r.next_seqno  z == next + space  ack == r.abs_ackno  e == r.stream.end_input
           track == r.segments_track  flight == r.bytes_in_flight
           tm == Started(r.timer)
<1>1. segs # <<>>
  OBVIOUS
<1>2. t = [r EXCEPT !.next_seqno      = @ + space,
                    !.bytes_in_flight = @ + space,
                    !.segments_out    = @ \o segs,
                    !.segments_track  = @ \o segs,
                    !.timer           = tm]
  BY <1>1, Zenon DEF SendSegments, Started
<1>a. Shape(r, isn)
  BY DEF Core
<1> HIDE DEF t, tm
<1>3. /\ Shape(t, isn) /\ t.next_seqno = z /\ t.bytes_in_flight = flight + space
      /\ t.segments_out = r.segments_out \o segs /\ t.segments_track = track \o segs
      /\ t.timer = tm
      /\ t.stream = r.stream /\ t.abs_ackno = ack /\ t.window_size = r.window_size
  BY <1>2, <1>a DEF Shape
<1>4. /\ next \in Nat /\ ack \in Nat /\ ack <= next /\ r.window_size \in 0 .. WindowLimit
      /\ TimerOK(r.timer, track) /\ Flight(track, next, ack, flight, w, e, isn)
      /\ Out(r.segments_out, ack, next, w, e, isn)
      /\ Spans(segs, next, z, w, e, isn) /\ z <= ack + WindowLimit
  BY DEF Core
<1> HIDE DEF next, z, ack, e, track, flight
<1>5. z \in Nat /\ z = next + space /\ ack <= z /\ next <= z
  BY <1>4 DEF z
<1>6. Flight(track \o segs, z, ack, flight + (z - next), w, e, isn) /\ track \o segs # <<>>
  BY <1>4, <1>5, FlightGrows, Zenon
<1>7. z - next = space
  BY <1>4, <1>5
<1>8. Out(r.segments_out \o segs, ack, z, w, e, isn)
  BY <1>4, <1>5, OutGrows, Zenon
<1>9. TimerOK(t.timer, t.segments_track)
  <2> DEFINE q == track \o segs
  <2>1. TimerOK(r.timer, track) /\ q # <<>> /\ t.timer = Started(r.timer) /\ t.segments_track = q
    BY <1>3, <1>4, <1>6, Zenon DEF tm
  <2> HIDE DEF q
  <2>2. TimerOK(Started(r.timer), q)
    BY <2>1, TimerStarts, Zenon
  <2> QED BY <2>1, <2>2, Zenon
<1>10. t.stream.end_input = e
  BY <1>3 DEF e
<1>11. Core(t, w, isn)
  BY <1>3, <1>4, <1>5, <1>6, <1>7, <1>8, <1>9, <1>10, Zenon DEF Core
<1>12. Moved(r, t, space)
  BY <1>3, <1>6, Zenon DEF Moved, z, next, ack
<1> QED BY <1>11, <1>12, Zenon DEF t

\* The window a sender works with is at least one and at most the largest.
LEMMA WindowRange ==
    ASSUME NEW r, r.window_size \in 0 .. WindowLimit
    PROVE  EffectiveWindow(r) \in 1 .. WindowLimit
BY WindowLimitType DEF EffectiveWindow

\* The SYN is sent.
LEMMA SynCore ==
    ASSUME NEW isn \in SeqNo, NEW cap \in Nat,
           NEW r, NEW w, Good(r, w, isn, cap), r.next_seqno = 0
    PROVE  Good(SendSyn(r), w, isn, cap) /\ Moved(r, SendSyn(r), 1)
<1> DEFINE e == r.stream.end_input  seg == Segment(wrap(0, isn), TRUE, FALSE, <<>>)
           segs == <<seg>>  t == SendSegments(r, segs, 1)
<1>1. SendSyn(r) = t
  <2>1. r.isn = isn
    BY DEF Good, Core, Shape
  <2> QED BY <2>1, Zenon DEF SendSyn
<1>2. Fits(seg, 0, 1, w, e, isn)
  <2>1. wrap(0, isn) \in SeqNo
    BY WrapType, WindowLimitType
  <2>2. <<>> = Bytes(0 - 1, 0) /\ <<>> \in Seq(Int) /\ Len(<<>>) = 0
    BY DEF Bytes
  <2>3. /\ seg \in Segs /\ seg.seqno = wrap(0, isn) /\ seg.syn = TRUE /\ seg.fin = FALSE
        /\ seg.payload = <<>>
    BY <2>1, <2>2 DEF Segment, Segs
  <2> HIDE DEF seg
  <2>4. length_in_sequence_space(seg) = 1
    <3>1. length_in_sequence_space(seg) = 0 + (IF TRUE THEN 1 ELSE 0) + (IF FALSE THEN 1 ELSE 0)
      BY <2>2, <2>3, Zenon DEF length_in_sequence_space
    <3> QED BY <3>1
  <2>5. Placed(seg, 0, w, e, isn)
    BY <2>2, <2>3 DEF Placed
  <2> QED BY <2>3, <2>4, <2>5 DEF Fits
<1> HIDE DEF seg
<1>3. 0 \in Nat /\ 1 \in 1 .. MaxPayload + 1 /\ 0 + 1 = 1
  BY SenderAssumption
<1>4. Len(segs) = 1 /\ Spans(segs, 0, 0 + 1, w, e, isn)
  BY <1>2, <1>3, ChainOne, Zenon
<1> HIDE DEF segs, e
<1>5. /\ Core(r, w, isn) /\ 1 \in Nat /\ Len(segs) \in Nat \ {0}
      /\ Spans(segs, r.next_seqno, r.next_seqno + 1, w, r.stream.end_input, isn)
  <2>1. Len(segs) \in Nat \ {0} /\ 1 \in Nat
    BY <1>4
  <2> QED BY <1>4, <2>1, Zenon DEF e, Good
<1>6. r.next_seqno + 1 <= r.abs_ackno + WindowLimit
  BY WindowLimitType DEF Good, Core
<1>7. Core(t, w, isn) /\ Moved(r, t, 1)
  BY <1>5, <1>6, SendCore, Zenon
<1> HIDE DEF t
<1>8. Sending(r.stream, 0, w, cap) /\ t.stream = r.stream /\ t.next_seqno = 1
  BY <1>3, <1>7 DEF Good, Moved
<1>9. Sending(t.stream, t.next_seqno, w, cap)
  <2>1. r.stream.bytes_read = 0
    BY <1>8 DEF Sending, InOrder
  <2> QED BY <1>8, <2>1 DEF Sending
<1> QED BY <1>1, <1>7, <1>9, Zenon DEF Good

-----------------------------------------------------------------------------

\* The application has neither ended nor broken its stream in between.
SameFlags(r, t) == t.stream.end_input = r.stream.end_input /\ t.stream.error = r.stream.error

\* What filling the window does not touch, and how far it goes.
Filled(r, t) ==
    /\ t.abs_ackno = r.abs_ackno /\ t.window_size = r.window_size
    /\ t.next_seqno = r.next_seqno \/ t.next_seqno <= t.abs_ackno + EffectiveWindow(t)
    /\ r.next_seqno <= t.next_seqno
    /\ SameFlags(r, t)

\* NeverStalls, of a sender that was given w bytes.
NotStalled(t, w) ==
    /\ t.next_seqno > 0
    /\ \/ t.stream.buffer_size > 0
       \/ t.stream.end_input = TRUE /\ t.next_seqno < w + 2
    => t.segments_track # <<>>

\* What a call that fills the window with r makes of it.
WellFilled(r, t, w, isn, cap) == Good(t, w, isn, cap) /\ Filled(r, t) /\ NotStalled(t, w)

\* Nothing outstanding means everything acknowledged.
LEMMA FlightEmpty ==
    ASSUME NEW isn \in SeqNo,
           NEW track, NEW next \in Nat, NEW ack, NEW flight, NEW w, NEW ended,
           Flight(track, next, ack, flight, w, ended, isn)
    PROVE  track = <<>> => ack = next /\ flight = 0
<1> SUFFICES ASSUME track = <<>> PROVE ack = next /\ flight = 0
  OBVIOUS
<1>1. Len(track) = 0 /\ Len(track) + 1 = 1
  OBVIOUS
<1>2. PICK st : st[Len(track) + 1] = next /\ (Len(track) = 0 => ack = next) /\ flight = next - st[1]
  BY Zenon DEF Flight
<1>3. st[1] = next /\ ack = next
  BY <1>1, <1>2, Zenon
<1> QED BY <1>2, <1>3

\* The sender after n bytes have been read out of its stream.
Popped(r, n) == [r EXCEPT !.stream = pop_output(@, n)]

\* What reading leaves alone.
SameButStream(r, t) ==
    /\ t.next_seqno = r.next_seqno /\ t.abs_ackno = r.abs_ackno
    /\ t.window_size = r.window_size /\ t.segments_track = r.segments_track

\* Reading the bytes that were sent out of the stream.
LEMMA PopCore ==
    ASSUME NEW isn \in SeqNo, NEW cap \in Nat,
           NEW r, NEW w, Core(r, w, isn), InOrder(r.stream, cap), NEW n \in 0 .. r.stream.buffer_size
    PROVE  /\ Core(Popped(r, n), w, isn) /\ Popped(r, n).stream = pop_output(r.stream, n)
           /\ SameButStream(r, Popped(r, n))
<1> DEFINE s == pop_output(r.stream, n)  t == Popped(r, n)
<1>1. Shape(r, isn)
  BY DEF Core
<1>2. s.end_input = r.stream.end_input
  <2>1. cap \in Nat
    BY WindowLimitType
  <2> QED BY <2>1, PopInOrder
<1> HIDE DEF s
<1>3. t = [r EXCEPT !.stream = s]
  BY DEF s, Popped
<1> HIDE DEF t
<1>4. /\ Shape(t, isn) /\ t.stream = s /\ t.segments_out = r.segments_out
      /\ t.segments_track = r.segments_track /\ t.timer = r.timer
      /\ t.next_seqno = r.next_seqno /\ t.abs_ackno = r.abs_ackno
      /\ t.window_size = r.window_size /\ t.bytes_in_flight = r.bytes_in_flight
  BY <1>1, <1>3 DEF Shape
<1>5. t.stream.end_input = r.stream.end_input
  BY <1>2, <1>4, Zenon
<1>6. Core(t, w, isn)
  BY <1>4, <1>5, Zenon DEF Core
<1> QED BY <1>4, <1>6, Zenon DEF s, t, SameButStream

\* The loop of fill_window may send the next n bytes, and the FIN for x = 1.
MaySend(r, n, x, w, cap) ==
    /\ InOrder(r.stream, cap) /\ r.stream.bytes_written = w
    /\ w \in Nat /\ r.next_seqno = r.stream.bytes_read + 1
    /\ n \in 0 .. r.stream.buffer_size /\ x \in 0 .. 1 /\ (n > 0 \/ x = 1)
    /\ x = 1 => r.stream.end_input = TRUE /\ n = r.stream.buffer_size
    /\ r.next_seqno + n + x <= r.abs_ackno + EffectiveWindow(r)

\* The loop when it sends.
LEMMA FillSends ==
    ASSUME NEW isn \in SeqNo, NEW cap \in Nat,
           NEW r, NEW w, Core(r, w, isn), NEW n, NEW x, MaySend(r, n, x, w, cap)
    PROVE  WellFilled(r, Popped(SendSegments(r, CutIntoSegments(r, n, x = 1), n + x), n), w, isn, cap)
<1>b. /\ InOrder(r.stream, cap) /\ r.stream.bytes_written = w
      /\ w \in Nat /\ r.next_seqno = r.stream.bytes_read + 1
      /\ n \in 0 .. r.stream.buffer_size /\ x \in 0 .. 1 /\ (n > 0 \/ x = 1)
      /\ (x = 1 => r.stream.end_input = TRUE /\ n = r.stream.buffer_size)
      /\ r.next_seqno + n + x <= r.abs_ackno + EffectiveWindow(r)
  BY DEF MaySend
<1> USE <1>b
<1> DEFINE fin == x = 1
           t == Popped(SendSegments(r, CutIntoSegments(r, n, fin), n + x), n)
<1>0. /\ fin \in BOOLEAN /\ (n > 0 \/ fin) /\ (fin <=> x = 1) /\ x = (IF fin THEN 1 ELSE 0)
      /\ fin => r.stream.end_input /\ n = r.stream.buffer_size
  OBVIOUS
<1>a. t = Popped(SendSegments(r, CutIntoSegments(r, n, fin), n + x), n)
  OBVIOUS
<1> HIDE DEF fin, t
<1> DEFINE segs == CutIntoSegments(r, n, fin)  u == SendSegments(r, segs, n + x)
           next == r.next_seqno  ack == r.abs_ackno
<1>1. /\ w \in Nat /\ n \in Nat /\ n + x \in Nat /\ next \in Nat /\ ack \in Nat
      /\ next + n + x = next + (n + x) /\ Shape(r, isn) /\ cap \in Nat
  BY WindowLimitType DEF Core, InOrder
<1>2. r.isn = isn
  BY <1>1 DEF Shape
<1>3. Len(segs) \in Nat \ {0} /\ Spans(segs, next, next + n + x, w, r.stream.end_input, isn)
  BY <1>0, <1>1, <1>2, CutChain, Zenon
<1>4. EffectiveWindow(r) \in 1 .. WindowLimit
  BY WindowRange, Zenon DEF Core
<1>5. next + (n + x) <= ack + WindowLimit
  BY <1>1, <1>4, WindowLimitType
<1>6. Spans(segs, next, next + (n + x), w, r.stream.end_input, isn)
  BY <1>1, <1>3, Zenon
<1>7. Core(u, w, isn) /\ Moved(r, u, n + x)
  BY <1>1, <1>3, <1>5, <1>6, SendCore, Zenon
<1> HIDE DEF segs, u
<1>8. u.stream = r.stream /\ u.next_seqno = next + (n + x) /\ u.abs_ackno = ack
      /\ u.window_size = r.window_size /\ u.segments_track # <<>>
  BY <1>7, Zenon DEF Moved
<1>9. t = Popped(u, n) /\ InOrder(u.stream, cap)
      /\ n \in 0 .. u.stream.buffer_size
  BY <1>a, <1>8, Zenon DEF u, segs
<1>10. /\ Core(t, w, isn) /\ t.stream = pop_output(u.stream, n)
       /\ t.next_seqno = u.next_seqno /\ t.abs_ackno = u.abs_ackno
       /\ t.window_size = u.window_size /\ t.segments_track = u.segments_track
  <2>1. /\ Core(Popped(u, n), w, isn) /\ Popped(u, n).stream = pop_output(u.stream, n)
        /\ SameButStream(u, Popped(u, n))
    BY <1>7, <1>9, PopCore
  <2> QED BY <1>9, <2>1, Zenon DEF SameButStream
<1> DEFINE s == r.stream  p == t.stream
<1>11. /\ InOrder(p, cap)
       /\ p.bytes_written = s.bytes_written /\ p.bytes_read = s.bytes_read + n
       /\ p.buffer_size = s.buffer_size - n
       /\ p.end_input = s.end_input /\ p.error = s.error
  <2>1. p = pop_output(s, n)
    BY <1>8, <1>10, Zenon
  <2> QED BY <1>1, <2>1, PopInOrder
<1>12. Sending(t.stream, t.next_seqno, w, cap)
  <2>1. t.next_seqno = next + (n + x) /\ next = s.bytes_read + 1
        /\ s.bytes_read \in Nat /\ s.buffer_size \in Nat /\ w = s.bytes_read + s.buffer_size
    BY <1>8, <1>10 DEF InOrder
  <2>2. CASE fin
    <3>1. x = 1 /\ n = s.buffer_size /\ p.end_input = TRUE
      <4>1. s.end_input /\ s.end_input \in BOOLEAN /\ x = 1 /\ n = s.buffer_size
        BY <1>0, <2>2 DEF InOrder
      <4> QED BY <1>11, <4>1
    <3>2. p.buffer_size = 0 /\ t.next_seqno = w + 2
      BY <1>1, <1>11, <2>1, <3>1
    <3> QED BY <1>11, <3>1, <3>2, Zenon DEF Sending
  <2>3. CASE ~fin
    <3>1. x = 0
      BY <1>0, <2>3
    <3>2. t.next_seqno = p.bytes_read + 1
      BY <1>1, <1>11, <2>1, <3>1
    <3> QED BY <1>11, <3>2, Zenon DEF Sending
  <2> QED BY <2>2, <2>3
<1>13. Filled(r, t)
  <2>1. EffectiveWindow(t) = EffectiveWindow(r)
    BY <1>8, <1>10, Zenon DEF EffectiveWindow
  <2>2. SameFlags(r, t)
    BY <1>11, Zenon DEF SameFlags
  <2>3. t.next_seqno = next + (n + x) /\ next <= next + (n + x)
        /\ next + (n + x) <= ack + EffectiveWindow(r)
    <3>1. next + n + x <= ack + EffectiveWindow(r)
      OBVIOUS
    <3>2. next <= next + (n + x)
      BY <1>1
    <3> QED BY <1>1, <1>8, <1>10, <3>1, <3>2, Zenon
  <2>4. t.abs_ackno = ack /\ t.window_size = r.window_size
    BY <1>8, <1>10, Zenon
  <2> QED BY <2>1, <2>2, <2>3, <2>4, Zenon DEF Filled
<1>14. NotStalled(t, w)
  BY <1>8, <1>10, Zenon DEF NotStalled
<1>15. WellFilled(r, t, w, isn, cap)
  BY <1>10, <1>12, <1>13, <1>14, Zenon DEF Good, WellFilled
<1> QED BY <1>15, Zenon DEF t, fin

\* The loop when there is nothing to send.
LEMMA FillNothing ==
    ASSUME NEW isn \in SeqNo, NEW cap \in Nat,
           NEW r, NEW w, Good(r, w, isn, cap), NEW t, t = Popped(r, 0)
    PROVE  /\ Good(t, w, isn, cap) /\ Filled(r, t) /\ SameButStream(r, t)
           /\ t.stream.buffer_size = r.stream.buffer_size
           /\ t.stream.end_input = r.stream.end_input
<1> DEFINE s == r.stream  p == t.stream
<1>1. /\ Core(r, w, isn) /\ InOrder(s, cap) /\ Sending(s, r.next_seqno, w, cap) /\ s.buffer_size \in Nat
      /\ s.bytes_read \in Nat /\ cap \in Nat
  BY WindowLimitType DEF Good, Sending, InOrder
<1>2. 0 \in 0 .. s.buffer_size
  BY <1>1
<1>3. Core(t, w, isn) /\ p = pop_output(s, 0) /\ SameButStream(r, t)
  <2>1. Core(Popped(r, 0), w, isn) /\ Popped(r, 0).stream = pop_output(s, 0) /\ SameButStream(r, Popped(r, 0))
    BY <1>1, <1>2, PopCore, Zenon
  <2> QED BY <2>1, Zenon
<1>4. /\ InOrder(p, cap)
      /\ p.bytes_written = s.bytes_written /\ p.bytes_read = s.bytes_read + 0
      /\ p.buffer_size = s.buffer_size - 0
      /\ p.end_input = s.end_input /\ p.error = s.error
  BY <1>1, <1>2, <1>3, PopInOrder
<1>5. p.bytes_read = s.bytes_read /\ p.buffer_size = s.buffer_size
  <2> DEFINE b == s.bytes_read  c == s.buffer_size  d == p.bytes_read  e == p.buffer_size
  <2>1. b \in Nat /\ c \in Nat /\ d = b + 0 /\ e = c - 0
    BY <1>1, <1>4
  <2> HIDE DEF b, c, d, e
  <2>2. d = b /\ e = c
    BY <2>1
  <2> QED BY <2>2 DEF b, c, d, e
<1>6. t.next_seqno = r.next_seqno
  BY <1>3, Zenon DEF SameButStream
<1>7. Sending(p, t.next_seqno, w, cap)
  BY <1>1, <1>4, <1>5, <1>6, Zenon DEF Sending
<1>8. Filled(r, t)
  <2>1. r.next_seqno \in Nat
    BY <1>1 DEF Core
  <2>2. r.next_seqno <= r.next_seqno
    BY <2>1
  <2> QED BY <1>3, <1>4, <2>2, Zenon DEF SameButStream, SameFlags, Filled
<1> QED BY <1>3, <1>4, <1>5, <1>7, <1>8, Zenon DEF Good

\* The while loop of fill_window.
LEMMA FillCore ==
    ASSUME NEW isn \in SeqNo, NEW cap \in Nat,
           NEW r, NEW w, Good(r, w, isn, cap), r.next_seqno > 0
    PROVE  WellFilled(r, FillLoop(r), w, isn, cap)
<1> DEFINE s == r.stream  next == r.next_seqno  ack == r.abs_ackno  E == EffectiveWindow(r)
           R == Room(r)  n == LesserOf(R, s.buffer_size)  fin == FinNow(r, n)
           x == IF fin THEN 1 ELSE 0  t == FillLoop(r)
<1>1. /\ Core(r, w, isn) /\ Sending(s, next, w, cap) /\ InOrder(s, cap) /\ s.bytes_written = w
      /\ w \in Nat /\ s.buffer_size \in Nat /\ s.bytes_read \in Nat
      /\ s.end_input \in BOOLEAN /\ w = s.bytes_read + s.buffer_size
      /\ next \in Nat /\ ack \in Nat /\ ack <= next /\ next > 0
      /\ Flight(r.segments_track, next, ack, r.bytes_in_flight, w, s.end_input, isn)
  BY WindowLimitType DEF Good, Core, Sending, InOrder
<1>2. E \in 1 .. WindowLimit /\ E \in Nat /\ E > 0
  <2>1. E \in 1 .. WindowLimit
    BY <1>1, WindowRange, Zenon DEF Core
  <2> QED BY <2>1, WindowLimitType
<1>3. R = E - (next - ack) /\ R \in Int
  BY <1>1, <1>2 DEF Room
<1>4. /\ R <= 0 => t = r
      /\ ~(R <= 0) => t = Popped(SendSegments(r, CutIntoSegments(r, n, fin), n + x), n)
  BY Zenon DEF FillLoop, Popped
<1>5. r.segments_track = <<>> => ack = next
  BY <1>1, FlightEmpty, Zenon
<1>6. fin \in BOOLEAN /\ x \in 0 .. 1 /\ x = (IF fin THEN 1 ELSE 0)
  <2>1. fin \in BOOLEAN
    BY DEF FinNow
  <2> HIDE DEF fin
  <2> QED BY <2>1
<1>7. fin <=> (s.end_input = TRUE /\ n = s.buffer_size /\ R > n /\ (n > 0 \/ next < w + 2))
  BY <1>1, Zenon DEF FinNow
<1> HIDE DEF t, fin, x, R, E, next, ack
<1>8. CASE R <= 0
  <2>1. ack # next
    BY <1>1, <1>2, <1>3, <1>8
  <2>2. t = r /\ r.segments_track # <<>>
    BY <1>4, <1>5, <1>8, <2>1, Zenon
  <2>3. r.next_seqno <= r.next_seqno
    BY <1>1 DEF next
  <2> QED BY <2>2, <2>3, Zenon DEF Filled, SameFlags, NotStalled, t, WellFilled
<1>9. CASE ~(R <= 0)
  <2>1. n \in 0 .. s.buffer_size /\ n \in Nat /\ n <= R /\ (n = 0 => s.buffer_size = 0)
    BY <1>1, <1>3, <1>9 DEF LesserOf
  <2> HIDE DEF n
  <2>2. CASE n > 0 \/ fin
    <3>1. next = s.bytes_read + 1
      <4>1. CASE next = 0
        BY <1>1, <4>1
      <4>2. CASE s.end_input = TRUE /\ s.buffer_size = 0 /\ next = w + 2
        <5>1. n = 0 /\ ~(next < w + 2)
          BY <1>1, <2>1, <4>2
        <5> QED BY <1>7, <2>2, <5>1
      <4> QED BY <1>1, <4>1, <4>2 DEF Sending
    <3>2. (x = 1 => s.end_input = TRUE /\ n = s.buffer_size) /\ (n > 0 \/ x = 1) /\ fin = (x = 1)
      BY <1>6, <1>7, <2>2
    <3>3. next + n + x <= ack + E
      <4>1. CASE fin
        BY <1>1, <1>2, <1>3, <1>6, <1>7, <2>1, <4>1
      <4>2. CASE ~fin
        BY <1>1, <1>2, <1>3, <1>6, <2>1, <4>2
      <4> QED BY <4>1, <4>2
    <3>4. t = Popped(SendSegments(r, CutIntoSegments(r, n, x = 1), n + x), n)
      BY <1>4, <1>9, <3>2, Zenon
    <3>5. WellFilled(r, Popped(SendSegments(r, CutIntoSegments(r, n, x = 1), n + x), n), w, isn, cap)
      <4>1. MaySend(r, n, x, w, cap)
        BY <1>1, <1>6, <2>1, <3>1, <3>2, <3>3, Zenon DEF next, ack, E, MaySend
      <4> QED BY <1>1, <4>1, FillSends, Zenon
    <3> QED BY <3>4, <3>5, Zenon DEF t
  <2>3. CASE ~(n > 0 \/ fin)
    <3>1. n = 0 /\ ~fin /\ n + x = 0
      BY <1>6, <2>1, <2>3
    <3>2. CutIntoSegments(r, n, fin) = <<>>
      BY <3>1, Zenon DEF CutIntoSegments
    <3>3. t = Popped(r, 0)
      BY <1>4, <1>9, <3>1, <3>2, Zenon DEF SendSegments
    <3>4. /\ Good(t, w, isn, cap) /\ Filled(r, t) /\ SameButStream(r, t)
          /\ t.stream.buffer_size = s.buffer_size /\ t.stream.end_input = s.end_input
      BY <3>3, FillNothing
    <3>5. s.buffer_size = 0 /\ ~(s.end_input = TRUE /\ next < w + 2)
      BY <1>3, <1>7, <1>9, <2>1, <3>1
    <3>6. t.next_seqno = next
      BY <3>4, Zenon DEF SameButStream, next
    <3>7. ~(t.stream.buffer_size > 0)
      BY <3>4, <3>5
    <3>8. NotStalled(t, w)
      BY <3>4, <3>5, <3>6, <3>7, Zenon DEF NotStalled
    <3> QED BY <3>4, <3>8, Zenon DEF t, WellFilled
  <2> QED BY <2>2, <2>3
<1> QED BY <1>8, <1>9

\* fill_window keeps the invariant, sends only within the window, and leaves
\* nothing unsent with nothing outstanding.
LEMMA FillWindow ==
    ASSUME NEW isn \in SeqNo, NEW cap \in Nat,
           NEW r, NEW w, Good(r, w, isn, cap)
    PROVE  WellFilled(r, fill_window(r), w, isn, cap) /\ fill_window(r).next_seqno > 0
<1> DEFINE t == fill_window(r)  next == r.next_seqno
<1>1. /\ next \in Nat /\ r.abs_ackno \in Nat
      /\ Flight(r.segments_track, next, r.abs_ackno, r.bytes_in_flight, w, r.stream.end_input, isn)
  BY DEF Good, Core
<1>2. CASE next = 0
  <2> DEFINE u == SendSyn(r)
  <2>1. Good(u, w, isn, cap) /\ Moved(r, u, 1)
    BY <1>2, SynCore, Zenon
  <2>2. t = FillLoop(u)
    BY <1>2, Zenon DEF fill_window
  <2> HIDE DEF u, t
  <2>3. u.next_seqno = 1 /\ u.next_seqno > 0 /\ u.abs_ackno = r.abs_ackno /\ u.window_size = r.window_size
        /\ u.stream = r.stream
    BY <1>2, <2>1 DEF Moved
  <2>4. WellFilled(u, t, w, isn, cap)
    BY <2>1, <2>2, <2>3, FillCore, Zenon
  <2>5. Good(t, w, isn, cap) /\ Filled(u, t) /\ NotStalled(t, w)
    BY <2>4, Zenon DEF WellFilled
  <2>6. t.window_size \in 0 .. WindowLimit /\ t.abs_ackno = r.abs_ackno /\ t.window_size = r.window_size
    BY <2>3, <2>5, Zenon DEF Good, Core, Filled
  <2>7. EffectiveWindow(t) \in 1 .. WindowLimit
    BY <2>6, WindowRange, Zenon
  <2>8. t.next_seqno <= t.abs_ackno + EffectiveWindow(t)
    <3> DEFINE E == EffectiveWindow(t)
    <3>1. E \in 1 .. WindowLimit /\ t.abs_ackno \in Nat /\ (t.next_seqno = 1 \/ t.next_seqno <= t.abs_ackno + E)
      BY <1>1, <2>3, <2>5, <2>6, <2>7, Zenon DEF Filled
    <3> HIDE DEF E
    <3>2. t.next_seqno <= t.abs_ackno + E
      BY <3>1, WindowLimitType
    <3> QED BY <3>2 DEF E
  <2>9. Filled(r, t)
    <3>1. SameFlags(r, t) /\ u.next_seqno <= t.next_seqno
      BY <2>3, <2>5, Zenon DEF Filled, SameFlags
    <3>2. t.next_seqno \in Nat
      BY <2>5, Zenon DEF Good, Core
    <3>3. r.next_seqno <= t.next_seqno
      BY <1>2, <2>3, <3>1, <3>2
    <3> QED BY <2>6, <2>8, <3>1, <3>3, Zenon DEF Filled
  <2>10. t.next_seqno > 0
    <3>1. t.next_seqno \in Nat /\ u.next_seqno <= t.next_seqno
      BY <2>5, Zenon DEF Good, Core, Filled
    <3> QED BY <2>3, <3>1
  <2> QED BY <2>5, <2>9, <2>10, Zenon DEF WellFilled, t
<1>3. CASE next # 0 /\ next = r.bytes_in_flight
  <2>1. t = r
    BY <1>3, Zenon DEF fill_window
  <2>2. r.segments_track # <<>>
    BY <1>1, <1>3, FlightEmpty, Zenon
  <2> HIDE DEF t
  <2>3. WellFilled(r, t, w, isn, cap)
    <3>1. r.next_seqno <= r.next_seqno
      BY <1>1
    <3> QED BY <2>1, <2>2, <3>1, Zenon DEF WellFilled, Filled, SameFlags, NotStalled
  <2>4. t.next_seqno > 0
    BY <1>1, <1>3, <2>1
  <2> QED BY <2>3, <2>4 DEF t
<1>4. CASE next # 0 /\ next # r.bytes_in_flight
  <2>1. t = FillLoop(r)
    BY <1>4, Zenon DEF fill_window
  <2>2. r.next_seqno > 0
    BY <1>1, <1>4
  <2>3. WellFilled(r, FillLoop(r), w, isn, cap)
    BY <2>2, FillCore, Zenon
  <2> HIDE DEF t
  <2>4. t.next_seqno \in Nat /\ next <= t.next_seqno
    BY <2>1, <2>3, Zenon DEF WellFilled, Filled, Good, Core
  <2>5. t.next_seqno > 0
    BY <1>1, <2>2, <2>4
  <2> QED BY <2>1, <2>3, <2>5, Zenon DEF t
<1> QED BY <1>2, <1>3, <1>4

-----------------------------------------------------------------------------

\* The i-th outstanding segment starts at st[i] as unwrap sees it from b.
StartsAt(track, st, b, i, isn) ==
    /\ unwrap(track[i].seqno, isn, b) = st[i]
    /\ NearAck(st[i], b)
    /\ st[i + 1] = st[i] + length_in_sequence_space(track[i])
    /\ st[i] \in Nat /\ st[i + 1] \in Nat

\* Every outstanding segment starts less than half the sequence space from every
\* number between the first start and next, so that unwrap finds its place.
LEMMA FlightStarts ==
    ASSUME NEW isn \in SeqNo,
           NEW track, NEW st, NEW w, NEW ended, Chain(track, st, w, ended, isn),
           NEW next \in Nat, st[Len(track) + 1] = next,
           NEW b \in Nat, st[1] <= b, b <= next, next - st[1] < HalfRange,
           NEW i \in 1 .. Len(track)
    PROVE  StartsAt(track, st, b, i, isn)
<1> DEFINE n == Len(track)
<1>1. /\ n \in Nat /\ st \in [1 .. n + 1 -> Nat]
      /\ Placed(track[i], st[i], w, ended, isn)
      /\ st[i + 1] = st[i] + length_in_sequence_space(track[i])
      /\ \A j, k \in 1 .. n + 1 : j < k => st[j] < st[k]
  BY DEF Chain
<1> HIDE DEF n
<1>2. i \in 1 .. n
  BY DEF n
<1>3. i \in 1 .. n + 1 /\ i + 1 \in 1 .. n + 1 /\ 1 \in 1 .. n + 1 /\ n + 1 \in 1 .. n + 1
      /\ i < n + 1 /\ (i = 1 \/ 1 < i)
  BY <1>1, <1>2
<1> DEFINE f == st[1]  a == st[i]
<1>4. f \in Nat /\ a \in Nat /\ st[i + 1] \in Nat /\ f <= a /\ a < next
  <2>1. f \in Nat /\ a \in Nat /\ st[i + 1] \in Nat
    BY <1>1, <1>3
  <2>2. st[i] < st[n + 1]
    BY <1>1, <1>3
  <2>3. i = 1 => f <= a
    BY <2>1
  <2>4. 1 < i => f < a
    BY <1>1, <1>3
  <2> QED BY <1>3, <2>1, <2>2, <2>3, <2>4 DEF n
<1>5. f <= b /\ next - f < HalfRange
  OBVIOUS
<1> HIDE DEF f, a
<1>6. a - b < HalfRange /\ b - a < HalfRange
  BY <1>4, <1>5, HalfRangeAssumption
<1>7. isn \in SeqNo
  BY WindowLimitType
<1>8. unwrap(wrap(a, isn), isn, b) = a
  BY <1>4, <1>6, <1>7, UnwrapInvertsWrap, Zenon
<1>9. track[i].seqno = wrap(a, isn)
  BY <1>1, Zenon DEF Placed, a
<1>10. unwrap(track[i].seqno, isn, b) = a /\ NearAck(a, b)
  BY <1>4, <1>6, <1>8, <1>9, Zenon DEF NearAck
<1> QED BY <1>1, <1>4, <1>10, Zenon DEF a, StartsAt

\* The first p segments of a chain take up the numbers from its first start to
\* that of the segment after them.
LEMMA SpaceOfChain ==
    ASSUME NEW isn \in SeqNo,
           NEW track, NEW st, NEW w, NEW ended, Chain(track, st, w, ended, isn),
           NEW p \in 0 .. Len(track)
    PROVE  SpaceOf(track, p) = st[p + 1] - st[1]
<1> DEFINE Rec(f) == [i \in 0 .. p |->
                        IF i = 0 THEN 0 ELSE f[i - 1] + length_in_sequence_space(track[i])]
           h == [i \in 0 .. p |-> st[i + 1] - st[1]]
           g == CHOOSE f : f = Rec(f)
           l(i) == length_in_sequence_space(track[i])
<1>1. SpaceOf(track, p) = g[p]
  BY DEF SpaceOf
<1>2. /\ p \in Nat /\ \A i \in 0 .. p : st[i + 1] \in Nat
      /\ \A i \in 0 .. p : i # 0 => i - 1 \in 0 .. p /\ st[i + 1] = st[i] + l(i) /\ (i - 1) + 1 = i
                                    /\ l(i) \in Int /\ st[i] \in Nat
      /\ st[1] \in Nat
  <2>1. /\ Len(track) \in Nat /\ st \in [1 .. Len(track) + 1 -> Nat]
        /\ \A i \in 1 .. Len(track) : st[i + 1] = st[i] + l(i) /\ track[i] \in Segs
    BY DEF Chain
  <2>2. p \in Nat /\ 1 \in 1 .. Len(track) + 1
    BY <2>1
  <2>3. \A i \in 1 .. Len(track) : l(i) \in Int
    <3>1. \A i \in 1 .. Len(track) : l(i) \in Nat
      BY <2>1, SegFields, Zenon
    <3> HIDE DEF l
    <3> QED BY <3>1
  <2> HIDE DEF l
  <2>4. ASSUME NEW i \in 0 .. p
        PROVE  /\ i + 1 \in 1 .. Len(track) + 1
               /\ i # 0 => i \in 1 .. Len(track) /\ i - 1 \in 0 .. p /\ (i - 1) + 1 = i
                           /\ i \in 1 .. Len(track) + 1
    BY <2>1, <2>2
  <2> QED BY <2>1, <2>2, <2>3, <2>4
<1> HIDE DEF l
<1>3. \A i \in 0 .. p : h[i] = st[i + 1] - st[1]
  OBVIOUS
<1>4. h = Rec(h)
  <2>1. ASSUME NEW i \in 0 .. p
        PROVE  st[i + 1] - st[1] = IF i = 0 THEN 0 ELSE h[i - 1] + l(i)
    <3>1. CASE i = 0
      BY <1>2, <3>1
    <3>2. CASE i # 0
      <4>1. i - 1 \in 0 .. p /\ st[i + 1] = st[i] + l(i) /\ (i - 1) + 1 = i
            /\ l(i) \in Int /\ st[i] \in Nat /\ st[1] \in Nat
        BY <1>2, <3>2, Zenon
      <4>2. h[i - 1] = st[i] - st[1]
        <5>1. h[i - 1] = st[(i - 1) + 1] - st[1]
          BY <1>3, <4>1, Zenon
        <5> QED BY <4>1, <5>1, Zenon
      <4> DEFINE a == st[1]  b == st[i]  c == st[i + 1]  d == h[i - 1]  y == l(i)
      <4>3. c = b + y /\ d = b - a /\ y \in Int /\ b \in Nat /\ a \in Nat
        BY <4>1, <4>2, Zenon
      <4> HIDE DEF a, b, c, d, y
      <4>4. c - a = d + y
        BY <4>3
      <4> QED BY <3>2, <4>4, Zenon DEF a, b, c, d, y
    <3> QED BY <3>1, <3>2
  <2> QED BY <2>1, Zenon DEF l
<1> HIDE DEF h
<1>5. g = Rec(g)
  BY <1>4, Zenon
<1> HIDE DEF g
<1>6. ASSUME NEW i \in 0 .. p
      PROVE  /\ g[i] = (IF i = 0 THEN 0 ELSE g[i - 1] + l(i))
             /\ h[i] = (IF i = 0 THEN 0 ELSE h[i - 1] + l(i))
  BY <1>4, <1>5, Zenon DEF l
<1>7. \A i \in 0 .. p : g[i] = h[i]
  <2> DEFINE T == {i \in 0 .. p : g[i] # h[i]}
  <2>1. SUFFICES ASSUME T # {} PROVE FALSE
    BY Zenon
  <2>2. T \in SUBSET Nat
    BY <1>2
  <2> HIDE DEF T
  <2>3. PICK x \in T : \A y \in T : x <= y
    BY <2>1, <2>2, LeastNumber, Zenon
  <2>4. x \in 0 .. p /\ g[x] # h[x]
    BY <2>3 DEF T
  <2>5. CASE x = 0
    BY <1>6, <2>4, <2>5, Zenon
  <2>6. CASE x # 0
    <3>1. x - 1 \in 0 .. p /\ ~(x <= x - 1)
      BY <2>4, <2>6
    <3>2. g[x - 1] = h[x - 1]
      BY <2>3, <3>1, Zenon DEF T
    <3> QED BY <1>6, <2>4, <2>6, <3>2, Zenon
  <2> QED BY <2>5, <2>6
<1>8. p \in 0 .. p
  BY <1>2
<1> QED BY <1>1, <1>3, <1>7, <1>8, Zenon

\* The first p segments of a chain that starts at st are acknowledged by b, the next one is not.
Acked(st, n, b, p) ==
    /\ p \in 0 .. n
    /\ \A i \in 1 .. p : st[i + 1] <= b
    /\ p < n => st[p + 2] > b

\* The loop of ack_received stops at the first segment that is not acknowledged.
LEMMA AckedPrefixFound ==
    ASSUME NEW isn \in SeqNo,
           NEW r, r.isn = isn, NEW st, NEW w, NEW ended, Chain(r.segments_track, st, w, ended, isn),
           NEW next \in Nat, st[Len(r.segments_track) + 1] = next,
           r.abs_ackno \in Nat, st[1] <= r.abs_ackno, r.abs_ackno <= next,
           next - st[1] < HalfRange
    PROVE  Acked(st, Len(r.segments_track), r.abs_ackno, AckedPrefix(r))
<1> DEFINE track == r.segments_track  n == Len(track)  b == r.abs_ackno
           Is(p) == /\ \A i \in 1 .. p : MaxSegAckno(r, track[i]) <= b
                    /\ p < n => MaxSegAckno(r, track[p + 1]) > b
           T == {p \in 0 .. n : p < n => st[p + 2] > b}
<1>1. AckedPrefix(r) = CHOOSE p \in 0 .. n : Is(p)
  BY DEF AckedPrefix
<1>2. n \in Nat /\ st \in [1 .. n + 1 -> Nat] /\ b \in Nat
  BY DEF Chain
<1>3. ASSUME NEW i \in 1 .. n PROVE MaxSegAckno(r, track[i]) = st[i + 1]
  <2>1. /\ unwrap(track[i].seqno, isn, b) = st[i]
        /\ st[i + 1] = st[i] + length_in_sequence_space(track[i])
    <3>1. i \in 1 .. Len(track) /\ b \in Nat /\ st[Len(track) + 1] = next /\ st[1] <= b
          /\ b <= next /\ Chain(track, st, w, ended, isn)
      BY <1>2
    <3> HIDE DEF track, b
    <3>2. StartsAt(track, st, b, i, isn)
      BY <3>1, FlightStarts, Zenon
    <3> QED BY <3>2, Zenon DEF StartsAt
  <2> QED BY <2>1, Zenon DEF MaxSegAckno
<1> HIDE DEF n, b, track
<1>4. T \in SUBSET Nat /\ n \in T
  BY <1>2
<1> HIDE DEF T
<1>5. PICK q \in T : \A y \in T : q <= y
  <2>1. T # {}
    BY <1>4
  <2> QED BY <1>4, <2>1, LeastNumber, Zenon
<1>6. q \in 0 .. n /\ q \in Nat /\ (q < n => st[q + 2] > b)
  BY <1>2, <1>5 DEF T
<1>7. ASSUME NEW i \in 1 .. q PROVE st[i + 1] <= b
  <2>1. i - 1 \in 0 .. n /\ ~(q <= i - 1) /\ (i - 1) + 2 = i + 1 /\ i + 1 \in 1 .. n + 1
    BY <1>2, <1>6
  <2>2. ~(st[i + 1] > b)
    <3>1. i - 1 \notin T
      BY <1>5, <2>1, Zenon
    <3> QED BY <2>1, <3>1 DEF T
  <2>3. st[i + 1] \in Nat
    BY <1>2, <2>1
  <2> QED BY <1>2, <2>2, <2>3
<1>8. \A p \in 0 .. n : Is(p) <=> (\A i \in 1 .. p : st[i + 1] <= b) /\ (p < n => st[p + 2] > b)
  <2> SUFFICES ASSUME NEW p \in 0 .. n
               PROVE  Is(p) <=> (\A i \in 1 .. p : st[i + 1] <= b) /\ (p < n => st[p + 2] > b)
    OBVIOUS
  <2>1. \A i \in 1 .. p : MaxSegAckno(r, track[i]) = st[i + 1]
    <3>1. \A i \in 1 .. p : i \in 1 .. n
      BY <1>2
    <3> QED BY <1>3, <3>1, Zenon
  <2>2. p < n => MaxSegAckno(r, track[p + 1]) = st[p + 2]
    <3>1. p < n => p + 1 \in 1 .. n /\ (p + 1) + 1 = p + 2
      BY <1>2
    <3>2. p < n => MaxSegAckno(r, track[p + 1]) = st[(p + 1) + 1]
      BY <1>3, <3>1, Zenon
    <3> QED BY <3>1, <3>2, Zenon
  <2>3. (\A i \in 1 .. p : MaxSegAckno(r, track[i]) <= b) <=> (\A i \in 1 .. p : st[i + 1] <= b)
    BY <2>1, Zenon
  <2>4. (p < n => MaxSegAckno(r, track[p + 1]) > b) <=> (p < n => st[p + 2] > b)
    BY <2>2, Zenon
  <2> QED BY <2>3, <2>4, Zenon
<1>9. Is(q)
  BY <1>6, <1>7, <1>8, Zenon
<1> HIDE DEF Is
<1>10. AckedPrefix(r) \in 0 .. n /\ Is(AckedPrefix(r))
  BY <1>1, <1>6, <1>9, Zenon
<1>11. Acked(st, n, b, AckedPrefix(r))
  BY <1>8, <1>10, Zenon DEF Acked
<1> QED BY <1>11 DEF n, b, track

\* Without its first p segments, track is what is outstanding.
Shrunk(track, p, next, b, flight, w, ended, isn) ==
    /\ Flight(SubSeq(track, p + 1, Len(track)), next, b, flight - SpaceOf(track, p), w, ended, isn)
    /\ p \in 0 .. Len(track)
    /\ Len(SubSeq(track, p + 1, Len(track))) = Len(track) - p

\* Dropping what is acknowledged leaves exactly what is not.
LEMMA FlightShrinks ==
    ASSUME NEW isn \in SeqNo,
           NEW track, NEW st, NEW w, NEW ended, Chain(track, st, w, ended, isn),
           NEW next \in Nat, st[Len(track) + 1] = next,
           NEW b \in Nat, st[1] <= b, b <= next,
           NEW p, Acked(st, Len(track), b, p), NEW flight, flight = next - st[1]
    PROVE  Shrunk(track, p, next, b, flight, w, ended, isn)
<1> DEFINE n == Len(track)  q == SubSeq(track, p + 1, n)
           u == [i \in 1 .. n - p + 1 |-> st[p + i]]
<1>1. /\ p \in 0 .. n /\ n \in Nat /\ p \in Nat /\ p <= n /\ st \in [1 .. n + 1 -> Nat]
      /\ \A i \in 1 .. p : st[i + 1] <= b
      /\ p < n => st[p + 2] > b
  BY DEF Acked, Chain
<1>2. Len(q) = n - p /\ Chain(q, u, w, ended, isn)
  BY <1>1, ChainSuffix, Zenon
<1>3. SpaceOf(track, p) = st[p + 1] - st[1]
  BY <1>1, SpaceOfChain, Zenon
<1>4. st[n + 1] = next
  OBVIOUS
<1> HIDE DEF n, q
<1>5. /\ 1 \in 1 .. n - p + 1 /\ n - p + 1 \in 1 .. n - p + 1 /\ p + (n - p + 1) = n + 1
      /\ p < n => 2 \in 1 .. n - p + 1
      /\ p + 1 \in 1 .. n + 1 /\ 1 \in 1 .. n + 1 /\ (p = 0 \/ p \in 1 .. p)
      /\ (n - p > 0 <=> p < n) /\ (n - p = 0 <=> p = n)
  BY <1>1
<1>6. u[1] = st[p + 1] /\ u[n - p + 1] = next /\ (p < n => u[2] = st[p + 2])
  BY <1>4, <1>5
<1> HIDE DEF u
<1>7. st[p + 1] <= b
  <2>1. CASE p = 0
    BY <2>1
  <2>2. CASE p \in 1 .. p
    BY <1>1, <2>2, Zenon
  <2> QED BY <1>5, <2>1, <2>2
<1>8. ASSUME n - p = 0 PROVE b = next
  <2>1. p = n
    BY <1>5, <1>8
  <2>2. next <= b
    BY <1>4, <1>7, <2>1
  <2> QED BY <2>2
<1>9. flight - SpaceOf(track, p) = next - u[1]
  <2> DEFINE x == st[1]  y == st[p + 1]
  <2>1. x \in Nat /\ y \in Nat /\ SpaceOf(track, p) = y - x /\ flight = next - x /\ u[1] = y
    BY <1>1, <1>3, <1>5, <1>6
  <2> HIDE DEF x, y
  <2> QED BY <2>1
<1>10. p < n => b < u[2]
  <2> SUFFICES ASSUME p < n PROVE b < u[2]
    OBVIOUS
  <2>1. p + 2 \in 1 .. n + 1
    BY <1>1
  <2>2. st[p + 2] \in Nat /\ u[2] = st[p + 2] /\ st[p + 2] > b
    BY <1>1, <1>6, <2>1
  <2> QED BY <2>2
<1>11. Flight(q, next, b, flight - SpaceOf(track, p), w, ended, isn)
  <2>1. /\ u[Len(q) + 1] = next /\ u[1] <= b /\ (Len(q) > 0 => b < u[2])
        /\ (Len(q) = 0 => b = next)
    BY <1>2, <1>5, <1>6, <1>7, <1>8, <1>10, Zenon
  <2> QED BY <1>2, <1>9, <2>1, Zenon DEF Flight
<1> QED BY <1>1, <1>2, <1>11, Zenon DEF n, q, Shrunk

\* The parts of Flight, and that next is less than half the sequence space from
\* the first start: the acknowledgment number is inside the first segment, and
\* no more than a window is sent beyond it.
Tracked(track, st, next, ack, flight, w, ended, isn) ==
    /\ Chain(track, st, w, ended, isn) /\ st[Len(track) + 1] = next /\ st[1] <= ack
    /\ Len(track) > 0 => ack < st[2]
    /\ Len(track) = 0 => ack = next
    /\ flight = next - st[1]
    /\ next - st[1] < HalfRange
    /\ st[1] \in Nat

\* The starts of the outstanding segments.
LEMMA FlightTracked ==
    ASSUME NEW isn \in SeqNo,
           NEW track, NEW next \in Nat, NEW ack \in Nat, NEW flight, NEW w, NEW ended,
           Flight(track, next, ack, flight, w, ended, isn), next <= ack + WindowLimit
    PROVE  \E st : Tracked(track, st, next, ack, flight, w, ended, isn)
<1> DEFINE n == Len(track)
<1>1. PICK st : /\ Chain(track, st, w, ended, isn) /\ st[n + 1] = next /\ st[1] <= ack
                /\ n > 0 => ack < st[2]
                /\ n = 0 => ack = next
                /\ flight = next - st[1]
  BY Zenon DEF Flight
<1>2. /\ n \in Nat /\ st \in [1 .. n + 1 -> Nat]
      /\ \A i \in 1 .. n : /\ length_in_sequence_space(track[i]) <= MaxPayload + 1
                           /\ st[i + 1] = st[i] + length_in_sequence_space(track[i])
                           /\ track[i] \in Segs
  BY <1>1 DEF Chain
<1>3. /\ MaxPayload \in Nat /\ WindowLimit \in Nat /\ WindowLimit + MaxPayload < HalfRange
      /\ HalfRange \in Nat /\ HalfRange > 0
  BY SenderAssumption, WindowLimitType, HalfRangeAssumption
<1> HIDE DEF n
<1>4. st[1] \in Nat
  BY <1>2
<1>5. next - st[1] < HalfRange
  <2>1. CASE n = 0
    <3>1. n + 1 = 1
      BY <2>1
    <3>2. st[1] = next
      BY <1>1, <3>1, Zenon
    <3> QED BY <1>3, <3>2
  <2>2. CASE n > 0
    <3> DEFINE a == st[1]  c == st[2]  l == length_in_sequence_space(track[1])
    <3>1. 1 \in 1 .. n /\ 1 + 1 = 2
      BY <1>2, <2>2
    <3>2. c = a + l /\ l <= MaxPayload + 1 /\ track[1] \in Segs
      BY <1>2, <3>1, Zenon
    <3>3. l \in Nat
      BY <3>2, SegFields, Zenon
    <3>4. ack < c
      BY <1>1, <2>2, Zenon
    <3>5. a \in Nat
      BY <1>4
    <3> HIDE DEF a, c, l
    <3>6. next - a < HalfRange
      BY <1>3, <3>2, <3>3, <3>4, <3>5
    <3> QED BY <3>6 DEF a
  <2> QED BY <1>2, <2>1, <2>2
<1>6. Tracked(track, st, next, ack, flight, w, ended, isn)
  BY <1>1, <1>4, <1>5, Zenon DEF Tracked, n
<1> QED BY <1>6, Zenon

\* The timer after the loop of ack_received.
LEMMA TimerAfterAck ==
    ASSUME NEW t, NEW track, TimerOK(t, track), NEW q, NEW n \in Nat, NEW p \in 0 .. n,
           q \in Seq(Segs), Len(q) = n - p
    PROVE  TimerOK(IF p < n THEN timer_start(t) ELSE timer_close(t), q)
<1>1. CASE p < n
  <2>1. q # <<>> /\ <<>> = <<>>
    BY <1>1
  <2> DEFINE u == timer_start(t)
  <2>2. /\ u.running = TRUE /\ u.ms_since_running = 0 /\ u.rto = InitRTO
        /\ u.consecutive_retransmissions = 0
        /\ DOMAIN u = {"running", "ms_since_running", "rto", "consecutive_retransmissions"}
    BY DEF timer_start
  <2> HIDE DEF u
  <2>3. u.running = (q # <<>>)
    BY <2>1, <2>2, Zenon
  <2>4. 0 \in Nat /\ InitRTO \in Nat \ {0} /\ 0 \in Nat /\ 0 < InitRTO
    BY SenderAssumption, WindowLimitType
  <2>5. TimerOK(u, q)
    BY <2>2, <2>3, <2>4, Zenon DEF TimerOK
  <2> QED BY <1>1, <2>5, Zenon DEF u
<1>2. CASE ~(p < n)
  <2>1. q = <<>>
    <3>1. Len(q) = 0
      BY <1>2
    <3> QED BY <3>1
  <2> DEFINE u == timer_close(t)
  <2>2. u = [t EXCEPT !.running = FALSE, !.consecutive_retransmissions = 0]
    BY DEF timer_close
  <2> HIDE DEF u
  <2>3. DOMAIN t = {"running", "ms_since_running", "rto", "consecutive_retransmissions"}
    BY DEF TimerOK
  <2>4. /\ u.running = FALSE /\ u.ms_since_running = t.ms_since_running /\ u.rto = t.rto
        /\ u.consecutive_retransmissions = 0
        /\ DOMAIN u = {"running", "ms_since_running", "rto", "consecutive_retransmissions"}
    BY <2>2, <2>3
  <2>5. 0 \in Nat /\ t.ms_since_running \in Nat /\ t.rto \in Nat \ {0}
    BY WindowLimitType DEF TimerOK
  <2>6. u.running = (q # <<>>)
    BY <2>1, <2>4, Zenon
  <2>7. TimerOK(u, q)
    BY <2>4, <2>5, <2>6, Zenon DEF TimerOK
  <2> QED BY <1>2, <2>7, Zenon DEF u
<1> QED BY <1>1, <1>2

\* No segment is trivially in its place.
LEMMA OutEmpty == ASSUME NEW isn \in SeqNo,
                         NEW ack, NEW next, NEW w, NEW ended
                  PROVE  Out(<<>>, ack, next, w, ended, isn)
BY DEF Out

\* The sender when an acknowledgment up to b with window win is taken in.
Advanced(r, b, win) == [[r EXCEPT !.window_size = win] EXCEPT !.abs_ackno = b]

\* Dropping the acknowledged segments.
LEMMA DropCore ==
    ASSUME NEW isn \in SeqNo,
           NEW r, NEW w, Core(r, w, isn), r.segments_out = <<>>, NEW win \in 0 .. WindowLimit,
           NEW b \in Nat, r.abs_ackno < b, b <= r.next_seqno
    PROVE  LET t == DropAcked(Advanced(r, b, win))
           IN  /\ Core(t, w, isn) /\ t.stream = r.stream /\ t.next_seqno = r.next_seqno
               /\ t.abs_ackno = b /\ t.window_size = win
<1> DEFINE a == Advanced(r, b, win)  t == DropAcked(a)
           track == r.segments_track  n == Len(track)  next == r.next_seqno  e == r.stream.end_input
           p == AckedPrefix(a)  q == SubSeq(track, p + 1, n)
           fl == r.bytes_in_flight - SpaceOf(track, p)
           tm == IF p < n THEN timer_start(r.timer) ELSE timer_close(r.timer)
<1>1. /\ Shape(r, isn) /\ next \in Nat /\ r.abs_ackno \in Nat /\ r.abs_ackno <= next
      /\ next <= r.abs_ackno + WindowLimit /\ TimerOK(r.timer, track)
      /\ Flight(track, next, r.abs_ackno, r.bytes_in_flight, w, e, isn)
  BY DEF Core
<1>2. a = [[r EXCEPT !.window_size = win] EXCEPT !.abs_ackno = b]
  BY DEF Advanced
<1> HIDE DEF a
<1>3. /\ Shape(a, isn) /\ a.segments_out = <<>> /\ a.segments_track = track /\ a.timer = r.timer
      /\ a.stream = r.stream /\ a.next_seqno = next /\ a.abs_ackno = b /\ a.window_size = win
      /\ a.bytes_in_flight = r.bytes_in_flight
  BY <1>1, <1>2 DEF Shape
<1>4. t = [a EXCEPT !.segments_track = q, !.bytes_in_flight = fl, !.timer = tm]
  BY <1>3, Zenon DEF DropAcked
<1> HIDE DEF t, q, fl, tm, p
<1>5. /\ Shape(t, isn) /\ t.segments_out = <<>> /\ t.segments_track = q /\ t.timer = tm
      /\ t.stream = r.stream /\ t.next_seqno = next /\ t.abs_ackno = b /\ t.window_size = win
      /\ t.bytes_in_flight = fl
  BY <1>3, <1>4 DEF Shape
<1>6. PICK st : Tracked(track, st, next, r.abs_ackno, r.bytes_in_flight, w, e, isn)
  BY <1>1, FlightTracked, Zenon
<1>7. /\ Chain(track, st, w, e, isn) /\ st[Len(track) + 1] = next /\ st[1] <= r.abs_ackno
      /\ r.bytes_in_flight = next - st[1] /\ next - st[1] < HalfRange /\ st[1] \in Nat
  BY <1>6, Zenon DEF Tracked
<1>8. st[1] <= b
  BY <1>1, <1>7
<1>9. Acked(st, n, b, p)
  <2>1. /\ a.isn = isn /\ Chain(a.segments_track, st, w, e, isn)
        /\ st[Len(a.segments_track) + 1] = next
        /\ a.abs_ackno \in Nat /\ st[1] <= a.abs_ackno /\ a.abs_ackno <= next
    BY <1>3, <1>7, <1>8, Zenon DEF Shape
  <2>2. Acked(st, Len(a.segments_track), a.abs_ackno, AckedPrefix(a))
    BY <1>1, <1>7, <2>1, AckedPrefixFound, Zenon
  <2> QED BY <1>3, <2>2, Zenon DEF p
<1>10. /\ Flight(q, next, b, fl, w, e, isn) /\ p \in 0 .. n /\ Len(q) = n - p
  <2> HIDE DEF track, next, e
  <2>1. Shrunk(track, p, next, b, r.bytes_in_flight, w, e, isn)
    <3>1. b <= next
      BY DEF next
    <3> QED BY <1>1, <1>7, <1>8, <1>9, <3>1, FlightShrinks, Zenon
  <2> QED BY <2>1, Zenon DEF q, fl, Shrunk
<1>11. TimerOK(tm, q)
  <2>1. n \in Nat
    BY <1>7 DEF Chain
  <2>2. q \in Seq(Segs)
    BY <1>10, Zenon DEF Flight, Chain
  <2> QED BY <1>1, <1>10, <2>1, <2>2, TimerAfterAck, Zenon DEF tm
<1>12. next <= b + WindowLimit
  BY <1>1, WindowLimitType
<1>13. Out(<<>>, b, next, w, e, isn)
  BY OutEmpty, Zenon
<1>14. Core(t, w, isn)
  BY <1>1, <1>5, <1>10, <1>11, <1>12, <1>13, Zenon DEF Core
<1> QED BY <1>5, <1>14, Zenon DEF t, a

-----------------------------------------------------------------------------

\* What every step of the sender from r to t, when w bytes are then written, does.
Stepped(r, t, w, isn, cap) ==
    /\ Good(t, w, isn, cap) /\ NotStalled(t, w)
    /\ t.next_seqno = r.next_seqno \/ t.next_seqno <= t.abs_ackno + EffectiveWindow(t)
    /\ r.next_seqno <= t.next_seqno

\* The sender whose segments its owner has taken.
Drain(r) == [r EXCEPT !.segments_out = <<>>]

\* What taking the segments leaves alone.
SameButOut(r, t) ==
    /\ t.segments_track = r.segments_track /\ t.timer = r.timer /\ t.stream = r.stream
    /\ t.next_seqno = r.next_seqno /\ t.abs_ackno = r.abs_ackno
    /\ t.window_size = r.window_size /\ t.bytes_in_flight = r.bytes_in_flight

\* Changing segments_out to segments that are in their place.
LEMMA OutReplaced ==
    ASSUME NEW isn \in SeqNo, NEW cap \in Nat,
           NEW r, NEW w, Good(r, w, isn, cap), NEW out,
           Out(out, r.abs_ackno, r.next_seqno, w, r.stream.end_input, isn),
           NEW t, t = [r EXCEPT !.segments_out = out]
    PROVE  Good(t, w, isn, cap) /\ SameButOut(r, t) /\ t.segments_out = out
<1>1. Shape(r, isn)
  BY DEF Good, Core
<1>2. /\ Shape(t, isn) /\ t.segments_out = out
      /\ t.segments_track = r.segments_track /\ t.timer = r.timer /\ t.stream = r.stream
      /\ t.next_seqno = r.next_seqno /\ t.abs_ackno = r.abs_ackno
      /\ t.window_size = r.window_size /\ t.bytes_in_flight = r.bytes_in_flight
  BY <1>1 DEF Shape
<1>3. Good(t, w, isn, cap)
  BY <1>2, Zenon DEF Good, Core
<1> QED BY <1>2, <1>3, Zenon DEF SameButOut

\* The owner takes the segments.
LEMMA DrainGood ==
    ASSUME NEW isn \in SeqNo, NEW cap \in Nat,
           NEW r, NEW w, Good(r, w, isn, cap)
    PROVE  /\ Good(Drain(r), w, isn, cap) /\ SameButOut(r, Drain(r)) /\ Drain(r).segments_out = <<>>
           /\ NotStalled(r, w) => NotStalled(Drain(r), w)
<1> DEFINE t == Drain(r)
<1>1. t = [r EXCEPT !.segments_out = <<>>]
  BY DEF Drain
<1> HIDE DEF t
<1>2. Out(<<>>, r.abs_ackno, r.next_seqno, w, r.stream.end_input, isn)
  BY OutEmpty, Zenon
<1>3. Good(t, w, isn, cap) /\ SameButOut(r, t) /\ t.segments_out = <<>>
  BY <1>1, <1>2, OutReplaced, SMTT(30)
<1>4. NotStalled(r, w) => NotStalled(t, w)
  BY <1>3, Zenon DEF SameButOut, NotStalled
<1> QED BY <1>3, <1>4, Zenon DEF t

\* fill_window of a sender that was changed from r without moving next_seqno.
LEMMA FillStep ==
    ASSUME NEW isn \in SeqNo, NEW cap \in Nat,
           NEW r, NEW w, NEW u, Good(u, w, isn, cap), u.next_seqno = r.next_seqno
    PROVE  /\ Stepped(r, fill_window(u), w, isn, cap) /\ Filled(u, fill_window(u))
           /\ fill_window(u).next_seqno > 0
<1> DEFINE t == fill_window(u)
<1>1. WellFilled(u, t, w, isn, cap) /\ t.next_seqno > 0
  BY FillWindow, Zenon
<1> HIDE DEF t
<1>2. Stepped(r, t, w, isn, cap)
  BY <1>1, Zenon DEF WellFilled, Filled, Stepped
<1> QED BY <1>1, <1>2, Zenon DEF t, WellFilled

\* The sender with another stream.
Restreamed(r, s) == [r EXCEPT !.stream = s]

\* A stream that has not ended may become s, of x bytes.
MayBecome(r, s, w, x, isn, cap) ==
    /\ Good(r, w, isn, cap) /\ r.segments_out = <<>> /\ r.stream.end_input = FALSE
    /\ x \in Nat /\ w <= x /\ Sending(s, r.next_seqno, x, cap)

\* The members that neither the bytes nor their acknowledgment change.
SameButBytes(r, t) ==
    /\ t.next_seqno = r.next_seqno /\ t.abs_ackno = r.abs_ackno
    /\ t.window_size = r.window_size /\ t.segments_out = r.segments_out
    /\ t.segments_track = r.segments_track /\ t.bytes_in_flight = r.bytes_in_flight
    /\ t.timer = r.timer

\* The stream gets new bytes or ends.
LEMMA StreamReplaced ==
    ASSUME NEW isn \in SeqNo, NEW cap \in Nat, NEW r, NEW w, NEW x, NEW s,
           MayBecome(r, s, w, x, isn, cap)
    PROVE  /\ Good(Restreamed(r, s), x, isn, cap) /\ SameButBytes(r, Restreamed(r, s))
           /\ Restreamed(r, s).stream = s
<1>a. /\ Good(r, w, isn, cap) /\ r.segments_out = <<>> /\ r.stream.end_input = FALSE
      /\ x \in Nat /\ w <= x /\ Sending(s, r.next_seqno, x, cap)
  BY DEF MayBecome
<1> USE <1>a
<1> DEFINE t == Restreamed(r, s)
<1>0. t = [r EXCEPT !.stream = s]
  BY DEF Restreamed
<1> HIDE DEF t
<1>1. Shape(r, isn) /\ Core(r, w, isn) /\ w \in Nat
  BY DEF Good, Core, Sending
<1>2. /\ Shape(t, isn) /\ t.segments_out = <<>>
      /\ t.segments_track = r.segments_track /\ t.timer = r.timer /\ t.stream = s
      /\ t.next_seqno = r.next_seqno /\ t.abs_ackno = r.abs_ackno
      /\ t.window_size = r.window_size /\ t.bytes_in_flight = r.bytes_in_flight
  BY <1>0, <1>1 DEF Shape
<1>3. Flight(r.segments_track, r.next_seqno, r.abs_ackno, r.bytes_in_flight, x, s.end_input, isn)
  <2> DEFINE track == r.segments_track  next == r.next_seqno  ack == r.abs_ackno
             fl == r.bytes_in_flight
  <2>1. Flight(track, next, ack, fl, w, FALSE, isn)
    BY <1>1, Zenon DEF Core
  <2> HIDE DEF track, next, ack, fl
  <2>2. PICK st : /\ Chain(track, st, w, FALSE, isn) /\ st[Len(track) + 1] = next /\ st[1] <= ack
                  /\ Len(track) > 0 => ack < st[2]
                  /\ Len(track) = 0 => ack = next
                  /\ fl = next - st[1]
    BY <2>1, Zenon DEF Flight
  <2>3. Chain(track, st, x, s.end_input, isn)
    BY <1>1, <2>2, ChainGrows, Zenon
  <2>4. Flight(track, next, ack, fl, x, s.end_input, isn)
    BY <2>2, <2>3, Zenon DEF Flight
  <2> QED BY <2>4 DEF track, next, ack, fl
<1>4. Out(<<>>, r.abs_ackno, r.next_seqno, x, s.end_input, isn)
  BY OutEmpty, Zenon
<1>5. Core(t, x, isn)
  BY <1>1, <1>2, <1>3, <1>4, Zenon DEF Core
<1> QED BY <1>2, <1>5, Zenon DEF Good, t, SameButBytes

\* set_error() touches no byte.
LEMMA ErrorInOrder ==
    ASSUME NEW cap \in Nat, NEW s, InOrder(s, cap)
    PROVE  LET t == set_error(s)
           IN  /\ InOrder(t, cap) /\ t.error = TRUE
               /\ t.bytes_written = s.bytes_written /\ t.bytes_read = s.bytes_read
               /\ t.buffer_size = s.buffer_size /\ t.end_input = s.end_input
<1> DEFINE t == set_error(s)
<1>0. t = [s EXCEPT !.error = TRUE]
  BY DEF set_error
<1> HIDE DEF t
<1>1. /\ t.error = TRUE
      /\ t.bytes_written = s.bytes_written /\ t.bytes_read = s.bytes_read
      /\ t.buffer_size = s.buffer_size /\ t.end_input = s.end_input
      /\ t.buffer = s.buffer /\ t.capacity = s.capacity
      /\ t = [capacity |-> t.capacity, bytes_written |-> t.bytes_written,
              bytes_read |-> t.bytes_read, buffer |-> t.buffer,
              buffer_size |-> t.buffer_size, end_input |-> t.end_input, error |-> t.error]
  BY <1>0 DEF InOrder
<1>2. InOrder(t, cap)
  BY <1>1 DEF InOrder
<1> QED BY <1>1, <1>2 DEF t

\* The error flag of the stream is set.
LEMMA StreamBroken ==
    ASSUME NEW isn \in SeqNo, NEW cap \in Nat, NEW r, NEW w, Good(r, w, isn, cap)
    PROVE  /\ Good(Restreamed(r, set_error(r.stream)), w, isn, cap)
           /\ SameButBytes(r, Restreamed(r, set_error(r.stream)))
           /\ Restreamed(r, set_error(r.stream)).stream = set_error(r.stream)
<1> DEFINE s == set_error(r.stream)  t == Restreamed(r, s)
<1>1. Shape(r, isn) /\ Core(r, w, isn) /\ Sending(r.stream, r.next_seqno, w, cap)
      /\ InOrder(r.stream, cap)
  BY DEF Good, Core, Sending
<1>2. InOrder(s, cap) /\ s.bytes_written = r.stream.bytes_written /\ s.bytes_read = r.stream.bytes_read
      /\ s.buffer_size = r.stream.buffer_size /\ s.end_input = r.stream.end_input
  BY <1>1, ErrorInOrder
<1> HIDE DEF s
<1>3. Sending(s, r.next_seqno, w, cap)
  BY <1>1, <1>2, Zenon DEF Sending
<1>4. t = [r EXCEPT !.stream = s]
  BY DEF Restreamed
<1> HIDE DEF t
<1>5. /\ Shape(t, isn) /\ t.segments_out = r.segments_out
      /\ t.segments_track = r.segments_track /\ t.timer = r.timer /\ t.stream = s
      /\ t.next_seqno = r.next_seqno /\ t.abs_ackno = r.abs_ackno
      /\ t.window_size = r.window_size /\ t.bytes_in_flight = r.bytes_in_flight
  BY <1>1, <1>4 DEF Shape
<1>6. Core(t, w, isn)
  BY <1>1, <1>2, <1>5, Zenon DEF Core
<1> QED BY <1>3, <1>5, <1>6, Zenon DEF Good, SameButBytes, t, s

\* The sender after a write of d into its stream.
Given(r, d) == [r EXCEPT !.stream = write(@, d)]

\* The application may still write.
Open(r, w, isn, cap) ==
    Good(r, w, isn, cap) /\ r.segments_out = <<>> /\ r.stream.end_input = FALSE

\* u is r after a write of d.
TookData(r, u, d, w, isn, cap) ==
    /\ Good(u, w + write_count(r.stream, d), isn, cap)
    /\ u.next_seqno = r.next_seqno /\ u.stream = write(r.stream, d) /\ SameButBytes(r, u)

\* TCPConnection::write
LEMMA WriteStep ==
    ASSUME NEW isn \in SeqNo, NEW cap \in Nat, NEW r, NEW w, Open(r, w, isn, cap), NEW len \in Nat
    PROVE  TookData(r, Given(r, Bytes(w, len)), Bytes(w, len), w, isn, cap)
<1>b. Good(r, w, isn, cap) /\ r.segments_out = <<>> /\ r.stream.end_input = FALSE
  BY DEF Open
<1> USE <1>b
<1> DEFINE c == write_count(r.stream, Bytes(w, len))  x == w + c
           s == write(r.stream, Bytes(w, len))  next == r.next_seqno
           u == Given(r, Bytes(w, len))
<1>1. /\ InOrder(r.stream, cap) /\ r.stream.bytes_written = w /\ w \in Nat
      /\ cap \in Nat
      /\ \/ next = 0 /\ r.stream.bytes_read = 0
         \/ next = r.stream.bytes_read + 1
  BY WindowLimitType DEF Good, Sending
<1>2. /\ InOrder(s, cap) /\ c \in 0 .. len
      /\ s.bytes_written = w + c /\ s.bytes_read = r.stream.bytes_read
  <2> DEFINE q == r.stream  d == Bytes(q.bytes_written, len)
  <2>1. InOrder(q, cap) /\ s = write(q, d) /\ c = write_count(q, d) /\ q.bytes_written = w
    BY <1>1, Zenon
  <2> HIDE DEF q, s, c
  <2>2. /\ InOrder(write(q, d), cap) /\ write_count(q, d) \in 0 .. len
        /\ write(q, d).bytes_written = q.bytes_written + write_count(q, d)
        /\ write(q, d).bytes_read = q.bytes_read
    <3>1. Wrote(q, write(q, d), write_count(q, d), len, cap)
      BY <1>1, <2>1, WriteInOrder, Zenon
    <3> QED BY <3>1, Zenon DEF Wrote
  <2> QED BY <2>1, <2>2, Zenon DEF q
<1> HIDE DEF c, s
<1>3. s.bytes_written = x /\ x \in Nat
  BY <1>1, <1>2
<1>4. Sending(s, next, x, cap)
  BY <1>1, <1>2, <1>3, Zenon DEF Sending
<1>5. u = Restreamed(r, s)
  BY DEF s, Given, Restreamed
<1> HIDE DEF u, x
<1>a. x \in Nat /\ w <= x
  BY <1>1, <1>2, <1>3 DEF x
<1>6. Good(u, x, isn, cap) /\ SameButBytes(r, u) /\ u.stream = s
  <2>1. MayBecome(r, s, w, x, isn, cap)
    BY <1>4, <1>a, Zenon DEF next, MayBecome
  <2>2. /\ Good(Restreamed(r, s), x, isn, cap) /\ SameButBytes(r, Restreamed(r, s))
        /\ Restreamed(r, s).stream = s
    BY <2>1, StreamReplaced
  <2> QED BY <1>5, <2>2, Zenon
<1>7. u.next_seqno = r.next_seqno
  BY <1>6, Zenon DEF SameButBytes
<1> QED BY <1>6, <1>7, Zenon DEF u, x, c, s, TookData

\* TCPConnection::end_input_stream
LEMMA EndStep ==
    ASSUME NEW isn \in SeqNo, NEW cap \in Nat,
           NEW r, NEW w, Good(r, w, isn, cap), r.segments_out = <<>>, r.stream.end_input = FALSE
    PROVE  LET u == [r EXCEPT !.stream = end_input(@)]
           IN  /\ Good(u, w, isn, cap) /\ u.next_seqno = r.next_seqno
               /\ u.stream = end_input(r.stream) /\ SameButBytes(r, u)
<1> DEFINE s == end_input(r.stream)  next == r.next_seqno
           u == [r EXCEPT !.stream = end_input(@)]
<1>1. /\ InOrder(r.stream, cap) /\ r.stream.bytes_written = w /\ w \in Nat
      /\ cap \in Nat
      /\ \/ next = 0 /\ r.stream.bytes_read = 0
         \/ next = r.stream.bytes_read + 1
  BY WindowLimitType DEF Good, Sending
<1>2. /\ InOrder(s, cap)
      /\ s.bytes_written = w /\ s.bytes_read = r.stream.bytes_read
  BY <1>1, EndInOrder
<1> HIDE DEF s
<1>3. Sending(s, next, w, cap)
  BY <1>1, <1>2, Zenon DEF Sending
<1>4. u = Restreamed(r, s)
  BY DEF s, Restreamed
<1> HIDE DEF u
<1>5. Good(u, w, isn, cap) /\ SameButBytes(r, u) /\ u.stream = s
  <2>1. w \in Nat /\ w <= w
    BY <1>1
  <2>2. MayBecome(r, s, w, w, isn, cap)
    BY <1>3, <2>1, Zenon DEF next, MayBecome
  <2>3. /\ Good(Restreamed(r, s), w, isn, cap) /\ SameButBytes(r, Restreamed(r, s))
        /\ Restreamed(r, s).stream = s
    BY <2>2, StreamReplaced
  <2> QED BY <1>4, <2>3, Zenon
<1>6. u.next_seqno = r.next_seqno
  BY <1>5, Zenon DEF SameButBytes
<1> QED BY <1>5, <1>6, Zenon DEF u, s

\* What an acknowledgment up to b with window win changes.
Heeded(r, t, b, win) ==
    /\ t.abs_ackno \in {r.abs_ackno, b} /\ t.window_size \in {r.window_size, win}
    /\ SameFlags(r, t)

\* An acknowledgment with a window.
LEMMA AckStep ==
    ASSUME NEW isn \in SeqNo, NEW cap \in Nat,
           NEW r, NEW w, Good(r, w, isn, cap), NotStalled(r, w), r.segments_out = <<>>,
           NEW b \in Nat, NEW win \in 0 .. WindowLimit,
           b - r.abs_ackno < HalfRange, r.abs_ackno - b < HalfRange
    PROVE  /\ Stepped(r, ack_received(r, wrap(b, isn), win), w, isn, cap)
           /\ Heeded(r, ack_received(r, wrap(b, isn), win), b, win)
<1> DEFINE t == ack_received(r, wrap(b, isn), win)  u == [r EXCEPT !.window_size = win]
<1>1. /\ Core(r, w, isn) /\ Shape(r, isn) /\ r.isn = isn /\ r.abs_ackno \in Nat /\ r.next_seqno \in Nat
      /\ Sending(r.stream, r.next_seqno, w, cap)
  BY DEF Good, Core, Shape
<1>2. unwrap(wrap(b, isn), r.isn, r.abs_ackno) = b
  <2>1. isn \in SeqNo
    BY WindowLimitType
  <2> QED BY <1>1, <2>1, UnwrapInvertsWrap, Zenon
<1>3. /\ b > r.next_seqno => t = r
      /\ ~(b > r.next_seqno) /\ b <= r.abs_ackno => t = u
      /\ ~(b > r.next_seqno) /\ ~(b <= r.abs_ackno) => t = fill_window(DropAcked(Advanced(r, b, win)))
  BY <1>2, Zenon DEF ack_received, Advanced
<1>a. r.next_seqno <= r.next_seqno
  BY <1>1
<1> HIDE DEF t
<1>4. CASE b > r.next_seqno
  <2>1. Stepped(r, t, w, isn, cap) /\ Heeded(r, t, b, win)
    BY <1>3, <1>4, <1>a, Zenon DEF Stepped, Heeded, SameFlags
  <2> QED BY <2>1 DEF t
<1>5. CASE ~(b > r.next_seqno) /\ b <= r.abs_ackno
  <2>1. t = [r EXCEPT !.window_size = win]
    BY <1>3, <1>5, Zenon
  <2>2. /\ Shape(t, isn) /\ t.segments_out = r.segments_out
        /\ t.segments_track = r.segments_track /\ t.timer = r.timer /\ t.stream = r.stream
        /\ t.next_seqno = r.next_seqno /\ t.abs_ackno = r.abs_ackno
        /\ t.window_size = win /\ t.bytes_in_flight = r.bytes_in_flight
    BY <1>1, <2>1 DEF Shape
  <2>3. Core(t, w, isn)
    BY <1>1, <2>2, Zenon DEF Core
  <2>4. Good(t, w, isn, cap) /\ NotStalled(t, w)
    BY <1>1, <2>2, <2>3, Zenon DEF Good, NotStalled
  <2>5. Stepped(r, t, w, isn, cap) /\ Heeded(r, t, b, win)
    BY <1>a, <2>2, <2>4, Zenon DEF Stepped, Heeded, SameFlags
  <2> QED BY <2>5 DEF t
<1>6. CASE ~(b > r.next_seqno) /\ ~(b <= r.abs_ackno)
  <2> DEFINE d == DropAcked(Advanced(r, b, win))
  <2>1. r.abs_ackno < b /\ b <= r.next_seqno
    BY <1>1, <1>6
  <2>2. /\ Core(d, w, isn) /\ d.stream = r.stream /\ d.next_seqno = r.next_seqno
        /\ d.abs_ackno = b /\ d.window_size = win
    BY <1>1, <2>1, DropCore
  <2> HIDE DEF d
  <2>3. Good(d, w, isn, cap)
    BY <1>1, <2>2, Zenon DEF Good
  <2>4. Stepped(r, fill_window(d), w, isn, cap) /\ Filled(d, fill_window(d))
    BY <2>2, <2>3, FillStep, Zenon
  <2>5. t = fill_window(d)
    BY <1>3, <1>6, Zenon DEF d
  <2>6. Heeded(r, t, b, win)
    BY <2>2, <2>4, <2>5, Zenon DEF Filled, Heeded, SameFlags
  <2> QED BY <2>4, <2>5, <2>6, Zenon DEF t
<1> QED BY <1>4, <1>5, <1>6

\* A segment that is outstanding is in its place.
LEMMA FirstInPlace ==
    ASSUME NEW isn \in SeqNo,
           NEW r, NEW w, Core(r, w, isn), r.segments_track # <<>>
    PROVE  Out(Append(<<>>, r.segments_track[1]), r.abs_ackno, r.next_seqno, w, r.stream.end_input,
               isn)
<1> DEFINE track == r.segments_track  n == Len(track)  next == r.next_seqno  ack == r.abs_ackno
           e == r.stream.end_input  out == Append(<<>>, track[1])
<1>1. /\ next \in Nat /\ ack \in Nat /\ ack <= next /\ next <= ack + WindowLimit
      /\ Flight(track, next, ack, r.bytes_in_flight, w, e, isn)
  BY DEF Core
<1>2. PICK st : Tracked(track, st, next, ack, r.bytes_in_flight, w, e, isn)
  BY <1>1, FlightTracked, Zenon
<1>3. /\ Chain(track, st, w, e, isn) /\ st[Len(track) + 1] = next /\ st[1] <= ack
      /\ next - st[1] < HalfRange
  BY <1>2, Zenon DEF Tracked
<1>4. 1 \in 1 .. Len(track) /\ track \in Seq(Segs)
  <2>1. track \in Seq(Segs)
    BY <1>3 DEF Chain
  <2> QED BY <2>1
<1>5. StartsAt(track, st, ack, 1, isn) /\ Placed(track[1], st[1], w, e, isn) /\ track[1] \in Segs
  <2>1. StartsAt(track, st, ack, 1, isn)
    BY <1>1, <1>3, <1>4, FlightStarts, Zenon
  <2>2. Placed(track[1], st[1], w, e, isn)
    BY <1>3, <1>4, Zenon DEF Chain
  <2>3. track[1] \in Segs
    BY <1>4
  <2> QED BY <2>1, <2>2, <2>3
<1>6. InReach(track[1], st[1], ack, next, w, e, isn)
  <2>1. NearAck(st[1], ack) /\ st[1 + 1] = st[1] + length_in_sequence_space(track[1])
    BY <1>5, Zenon DEF StartsAt
  <2>2. n \in Nat /\ st \in [1 .. n + 1 -> Nat] /\ st[n + 1] = next
        /\ \A i, j \in 1 .. n + 1 : i < j => st[i] < st[j]
    BY <1>3 DEF Chain
  <2>3. 1 + 1 \in 1 .. n + 1 /\ n + 1 \in 1 .. n + 1 /\ (1 + 1 = n + 1 \/ 1 + 1 < n + 1)
    BY <1>4, <2>2
  <2>4. st[1 + 1] <= next
    BY <2>2, <2>3
  <2> QED BY <1>5, <2>1, <2>4, Zenon DEF InReach
<1> HIDE DEF track, e, ack, next
<1>7. out \in Seq(Segs) /\ Len(out) = 1 /\ out[1] = track[1]
  BY <1>5
<1> HIDE DEF out
<1>8. \A i \in 1 .. Len(out) : i = 1
  BY <1>7
<1>9. Out(out, ack, next, w, e, isn)
  BY <1>5, <1>6, <1>7, <1>8, Zenon DEF Out
<1> QED BY <1>9 DEF out, track, ack, e, next

\* What the clock leaves alone.
SameButClock(r, t) ==
    /\ t.segments_track = r.segments_track /\ t.stream = r.stream
    /\ t.next_seqno = r.next_seqno /\ t.abs_ackno = r.abs_ackno
    /\ t.window_size = r.window_size /\ t.bytes_in_flight = r.bytes_in_flight

\* TCPSender::tick
LEMMA TickStep ==
    ASSUME NEW isn \in SeqNo, NEW cap \in Nat,
           NEW r, NEW w, Good(r, w, isn, cap), NotStalled(r, w), r.segments_out = <<>>, NEW ms \in Nat
    PROVE  Stepped(r, sender_tick(r, ms), w, isn, cap) /\ SameButClock(r, sender_tick(r, ms))
<1> DEFINE t == sender_tick(r, ms)  tm == r.timer
<1>a. r.next_seqno <= r.next_seqno
  BY DEF Good, Core
<1>1. /\ Core(r, w, isn) /\ Shape(r, isn) /\ TimerOK(tm, r.segments_track)
      /\ Sending(r.stream, r.next_seqno, w, cap)
  BY DEF Good, Core
<1>2. /\ DOMAIN tm = {"running", "ms_since_running", "rto", "consecutive_retransmissions"}
      /\ tm.running \in BOOLEAN /\ tm.ms_since_running \in Nat /\ tm.rto \in Nat \ {0}
      /\ tm.consecutive_retransmissions \in Nat
      /\ tm.running = (r.segments_track # <<>>)
  BY <1>1, WindowLimitType DEF TimerOK
<1>3. CASE ~tm.running
  <2>1. t = r
    BY <1>3, Zenon DEF sender_tick
  <2> HIDE DEF t
  <2>2. Stepped(r, t, w, isn, cap) /\ SameButClock(r, t)
    BY <1>a, <2>1, Zenon DEF Stepped, SameButClock
  <2> QED BY <2>2 DEF t
<1>4. CASE tm.running /\ ~timer_timeout(tm, ms)
  <2> DEFINE v == timer_advance(tm, ms)
  <2>1. t = [r EXCEPT !.timer = v]
    BY <1>4, Zenon DEF sender_tick
  <2>2. v = [tm EXCEPT !.ms_since_running = tm.ms_since_running + ms]
    BY DEF timer_advance
  <2>3. ~(tm.ms_since_running + ms >= tm.rto)
    BY <1>4, Zenon DEF timer_timeout
  <2> HIDE DEF t, v, tm
  <2>4. /\ v.running = tm.running /\ v.ms_since_running = tm.ms_since_running + ms
        /\ v.rto = tm.rto /\ v.consecutive_retransmissions = tm.consecutive_retransmissions
        /\ DOMAIN v = {"running", "ms_since_running", "rto", "consecutive_retransmissions"}
    BY <1>2, <2>2
  <2>5. v.ms_since_running \in Nat /\ v.ms_since_running < v.rto
    <3> DEFINE a == tm.ms_since_running  b == tm.rto
    <3>1. a \in Nat /\ b \in Nat /\ ~(a + ms >= b) /\ v.ms_since_running = a + ms /\ v.rto = b
      BY <1>2, <2>3, <2>4
    <3> HIDE DEF a, b
    <3> QED BY <3>1
  <2>6. TimerOK(v, r.segments_track)
    BY <1>1, <1>4, <2>4, <2>5, Zenon DEF TimerOK
  <2>7. /\ Shape(t, isn) /\ t.segments_out = r.segments_out /\ t.timer = v
        /\ t.segments_track = r.segments_track /\ t.stream = r.stream
        /\ t.next_seqno = r.next_seqno /\ t.abs_ackno = r.abs_ackno
        /\ t.window_size = r.window_size /\ t.bytes_in_flight = r.bytes_in_flight
    BY <1>1, <2>1 DEF Shape
  <2>8. Core(t, w, isn)
    BY <1>1, <2>6, <2>7, Zenon DEF Core
  <2>9. Stepped(r, t, w, isn, cap) /\ SameButClock(r, t)
    BY <1>1, <1>a, <2>7, <2>8, Zenon DEF Stepped, Good, NotStalled, SameButClock
  <2> QED BY <2>9 DEF t
<1>5. CASE tm.running /\ timer_timeout(tm, ms)
  <2> DEFINE v == timer_reset(tm, r.window_size)  out == Append(<<>>, r.segments_track[1])
  <2>1. r.segments_track # <<>>
    BY <1>2, <1>5
  <2>2. t = [r EXCEPT !.segments_out = out, !.timer = v]
    BY <1>5, <2>1, Zenon DEF sender_tick
  <2>3. v = [tm EXCEPT !.ms_since_running = 0,
                       !.consecutive_retransmissions = tm.consecutive_retransmissions + 1,
                       !.rto = IF r.window_size > 0 THEN 2 * tm.rto ELSE tm.rto]
    BY <1>5, Zenon DEF timer_reset
  <2>4. Out(out, r.abs_ackno, r.next_seqno, w, r.stream.end_input, isn)
    BY <1>1, <2>1, FirstInPlace, Zenon
  <2> DEFINE nr == IF r.window_size > 0 THEN 2 * tm.rto ELSE tm.rto
             nc == tm.consecutive_retransmissions + 1
  <2>5. /\ v = [tm EXCEPT !.ms_since_running = 0, !.consecutive_retransmissions = nc, !.rto = nr]
    BY <2>3, Zenon
  <2>6. nr \in Nat \ {0} /\ 0 < nr /\ nc \in Nat /\ nc # 0 /\ 0 \in Nat
    <3> DEFINE a == tm.rto  b == tm.consecutive_retransmissions
    <3>1. a \in Nat \ {0} /\ b \in Nat
      BY <1>2
    <3> HIDE DEF a, b
    <3>2. (2 * a) \in Nat \ {0} /\ 0 < 2 * a /\ 0 < a /\ b + 1 \in Nat /\ b + 1 # 0
      BY <3>1
    <3> QED BY <3>1, <3>2 DEF a, b
  <2> HIDE DEF t, v, tm, nr, nc, out
  <2>7. /\ v.running = tm.running /\ v.ms_since_running = 0
        /\ v.rto = nr /\ v.consecutive_retransmissions = nc
        /\ DOMAIN v = {"running", "ms_since_running", "rto", "consecutive_retransmissions"}
    BY <1>2, <2>5
  <2>8. TimerOK(v, r.segments_track)
    BY <1>2, <2>6, <2>7, Zenon DEF TimerOK
  <2>9. /\ Shape(t, isn) /\ t.segments_out = out /\ t.timer = v
        /\ t.segments_track = r.segments_track /\ t.stream = r.stream
        /\ t.next_seqno = r.next_seqno /\ t.abs_ackno = r.abs_ackno
        /\ t.window_size = r.window_size /\ t.bytes_in_flight = r.bytes_in_flight
    BY <1>1, <2>2 DEF Shape
  <2>10. Core(t, w, isn)
    BY <1>1, <2>4, <2>8, <2>9, Zenon DEF Core
  <2>11. Stepped(r, t, w, isn, cap) /\ SameButClock(r, t)
    BY <1>1, <1>a, <2>9, <2>10, Zenon DEF Stepped, Good, NotStalled, SameButClock
  <2> QED BY <2>11 DEF t
<1> QED BY <1>3, <1>4, <1>5

\* TCPSender::send_empty_segment
LEMMA EmptyStep ==
    ASSUME NEW isn \in SeqNo, NEW cap \in Nat,
           NEW r, NEW w, Good(r, w, isn, cap), NotStalled(r, w)
    PROVE  /\ Stepped(r, send_empty_segment(r), w, isn, cap) /\ SameButOut(r, send_empty_segment(r))
           /\ send_empty_segment(r).segments_out # <<>>
<1> DEFINE t == send_empty_segment(r)  next == r.next_seqno  ack == r.abs_ackno
           e == r.stream.end_input  old == r.segments_out
           seg == Segment(wrap(next, isn), FALSE, 0 = 1, Bytes(next - 1, 0))
           out == Append(old, seg)
<1>1. /\ Core(r, w, isn) /\ Shape(r, isn) /\ r.isn = isn /\ next \in Nat /\ ack \in Nat /\ ack <= next
      /\ next <= ack + WindowLimit /\ Sending(r.stream, next, w, cap) /\ next <= next
      /\ Out(old, ack, next, w, e, isn)
  BY DEF Good, Core, Shape
<1>2. <<>> = Bytes(next - 1, 0) /\ (0 = 1) = FALSE
  BY DEF Bytes
<1>3. t = [r EXCEPT !.segments_out = out]
  BY <1>1, <1>2, Zenon DEF send_empty_segment
<1>4. Fits(seg, next, 0 + 0, w, e, isn)
  <2>1. 0 \in Nat /\ 0 \in 0 .. 1 /\ (0 = 1 => e = TRUE /\ next + 0 = w + 1) /\ ~(0 > 0)
    OBVIOUS
  <2> QED BY <1>1, <2>1, DataSegment, Zenon
<1>5. /\ seg \in Segs /\ Placed(seg, next, w, e, isn)
      /\ next + length_in_sequence_space(seg) <= next
  <2>1. 0 + 0 = 0 /\ next + 0 <= next
    BY <1>1
  <2> QED BY <1>4, <2>1, Zenon DEF Fits
<1>6. NearAck(next, ack)
  BY <1>1, WindowLimitType, SenderAssumption, HalfRangeAssumption DEF NearAck
<1> HIDE DEF t, seg, next, ack, e, old
<1>a. old \in Seq(Segs) /\ \A i \in 1 .. Len(old) : \E a : InReach(old[i], a, ack, next, w, e, isn)
  BY <1>1, Zenon DEF Out
<1>7. /\ out \in Seq(Segs) /\ Len(out) = Len(old) + 1 /\ out[Len(old) + 1] = seg
      /\ \A i \in 1 .. Len(old) : out[i] = old[i]
      /\ \A i \in 1 .. Len(out) : i \in 1 .. Len(old) \/ i = Len(old) + 1
      /\ out # <<>>
  BY <1>5, <1>a
<1> HIDE DEF out
<1>8. InReach(seg, next, ack, next, w, e, isn)
  BY <1>5, <1>6, Zenon DEF InReach
<1>9. Out(out, ack, next, w, e, isn)
  BY <1>7, <1>8, <1>a, Zenon DEF Out
<1>10. Good(t, w, isn, cap) /\ SameButOut(r, t) /\ t.segments_out = out
  BY <1>3, <1>9, OutReplaced DEF ack, e, next
<1>11. Stepped(r, t, w, isn, cap)
  BY <1>1, <1>10, Zenon DEF Stepped, SameButOut, NotStalled, next
<1> QED BY <1>7, <1>10, <1>11, Zenon DEF t

\* The constructor's sender.
LEMMA NewSender ==
    ASSUME NEW isn \in SeqNo, NEW cap \in Nat, NEW r, r = NewTCPSender(cap, isn)
    PROVE  /\ Good(r, 0, isn, cap) /\ NotStalled(r, 0)
           /\ r.segments_out = <<>> /\ r.stream = NewByteStream(cap) /\ r.next_seqno = 0
           /\ r.abs_ackno = 0 /\ r.window_size = 1
<1> DEFINE tm == NewTimer  s == NewByteStream(cap)
<1>2. /\ Shape(r, isn) /\ r.segments_out = <<>> /\ r.segments_track = <<>>
      /\ r.timer = tm /\ r.stream = s /\ r.next_seqno = 0 /\ r.abs_ackno = 0
      /\ r.window_size = 1 /\ r.bytes_in_flight = 0
  <2> HIDE DEF tm, s
  <2>1. r = [isn |-> isn, segments_out |-> <<>>, segments_track |-> <<>>, timer |-> tm,
             stream |-> s, next_seqno |-> 0, abs_ackno |-> 0, window_size |-> 1,
             bytes_in_flight |-> 0]
    BY Zenon DEF NewTCPSender, tm, s
  <2> QED BY <2>1 DEF Shape
<1>3. s.bytes_read = 0 /\ s.bytes_written = 0 /\ InOrder(s, cap)
  BY NewInOrder DEF NewByteStream
<1>4. TimerOK(tm, <<>>)
  <2>1. /\ tm.running = FALSE /\ tm.ms_since_running = 0 /\ tm.rto = InitRTO
        /\ tm.consecutive_retransmissions = 0
        /\ DOMAIN tm = {"running", "ms_since_running", "rto", "consecutive_retransmissions"}
    BY DEF NewTimer
  <2> HIDE DEF tm
  <2>2. 0 \in Nat /\ InitRTO \in Nat \ {0}
    BY SenderAssumption
  <2>3. tm.running = (<<>> # <<>>)
    BY <2>1, Zenon
  <2> QED BY <2>1, <2>2, <2>3, Zenon DEF TimerOK
<1> HIDE DEF tm, s
<1>5. Flight(<<>>, 0, 0, 0, 0, s.end_input, isn)
  <2> DEFINE st == [i \in 1 .. 1 |-> 0]  q == <<>>
  <2>1. q \in Seq(Segs) /\ Len(q) = 0 /\ Len(q) + 1 = 1 /\ st \in [1 .. 1 -> Nat] /\ st[1] = 0
    OBVIOUS
  <2>2. (\A i \in 1 .. 0 : FALSE) /\ (\A i, j \in 1 .. 1 : i < j => FALSE)
    OBVIOUS
  <2> HIDE DEF st, q
  <2>3. Chain(q, st, 0, s.end_input, isn)
    BY <2>1, <2>2, Zenon DEF Chain
  <2>4. 0 <= 0 /\ 0 = 0 - 0 /\ ~(0 > 0)
    OBVIOUS
  <2>5. Flight(q, 0, 0, 0, 0, s.end_input, isn)
    BY <2>1, <2>3, <2>4, Zenon DEF Flight
  <2> QED BY <2>5 DEF q
<1>6. Out(<<>>, 0, 0, 0, s.end_input, isn)
  BY OutEmpty, Zenon
<1>7. Core(r, 0, isn)
  <2>1. 0 \in Nat /\ 0 <= 0 /\ 1 \in 0 .. WindowLimit /\ 0 <= 0 + WindowLimit
    BY WindowLimitType
  <2> QED BY <1>2, <1>4, <1>5, <1>6, <2>1, Zenon DEF Core
<1>8. Sending(r.stream, r.next_seqno, 0, cap)
  BY <1>2, <1>3 DEF Sending
<1>9. NotStalled(r, 0)
  <2>1. ~(r.next_seqno > 0)
    BY <1>2
  <2> QED BY <2>1, Zenon DEF NotStalled
<1> QED BY <1>2, <1>7, <1>8, <1>9, Zenon DEF Good, s

=============================================================================
