------------------------ MODULE SequenceNumbersProofs ------------------------
(***************************************************************************)
(* For every size of the sequence space: what arrives is decoded exactly,  *)
(* and unwrap returns the candidate closest to the checkpoint.             *)
(***************************************************************************)
EXTENDS SequenceNumbers, TCPLemmas

\* A number is near itself.
LEMMA NearSelf == ASSUME NEW c \in Nat PROVE Near(c, c, HalfRange)
BY HalfRangeAssumption DEF Near

\* DecodesExactly holds in every reachable state, for every sequence space: no
\* wrap-around of the headers is ever mistaken.
THEOREM DecodingCorrect == Spec => [](TypeOK /\ DecodesExactly)
<1> DEFINE Inv == TypeOK /\ DecodesExactly
<1>1. Init => Inv
  BY DEF Init, TypeOK, DecodesExactly
<1>2. Inv /\ [Next]_vars => Inv'
  <2> SUFFICES ASSUME Inv, [Next]_vars PROVE Inv'
    OBVIOUS
  <2>1. ASSUME NEW d \in 1 .. HalfRange - 1, Advance(d) PROVE Inv'
    <3>1. isn' \in SeqNo /\ checkpoint' \in Nat /\ actual' = checkpoint'
      BY <2>1, HalfRangeAssumption DEF Advance, TypeOK
    <3>2. Near(checkpoint', checkpoint', HalfRange)
      BY <3>1, NearSelf
    <3>3. header' = wrap(checkpoint', isn') /\ decoded' = unwrap(header', isn', checkpoint')
      BY <2>1 DEF Advance
    <3> QED BY <3>1, <3>2, <3>3, WrapType, UnwrapInvertsWrap DEF TypeOK, DecodesExactly, Near
  <2>2. ASSUME NEW a \in 0 .. MaxCheckpoint + SeqSpace, Arrive(a) PROVE Inv'
    <3>1. isn' \in SeqNo /\ checkpoint' \in Nat /\ checkpoint' = checkpoint /\ isn' = isn /\ actual' = a
      BY <2>2 DEF Arrive, TypeOK
    <3>2. a \in Nat /\ Near(a, checkpoint', HalfRange)
      BY <2>2, <3>1, SpaceType, MaxCheckpointAssumption DEF Arrive
    <3>3. header' = wrap(a, isn') /\ decoded' = unwrap(header', isn', checkpoint')
      BY <2>2, <3>1 DEF Arrive
    <3> QED BY <3>1, <3>2, <3>3, WrapType, UnwrapInvertsWrap DEF TypeOK, DecodesExactly, Near
  <2>3. CASE UNCHANGED vars
    BY <2>3 DEF vars, TypeOK, DecodesExactly
  <2> QED BY <2>1, <2>2, <2>3 DEF Next
<1> QED BY <1>1, <1>2, PTL DEF Spec

\* UnwrapIsClosest holds in every reachable state: wrapping_integers.hh's
\* "closest to checkpoint", for every width of the header field.
THEOREM ClosestCorrect == Spec => []UnwrapIsClosest
<1>1. TypeOK => UnwrapIsClosest
  <2> SUFFICES ASSUME TypeOK, NEW n \in SeqNo,
                      NEW m \in 0 .. checkpoint + SeqSpace, wrap(m, isn) = n
               PROVE  Distance(unwrap(n, isn, checkpoint), checkpoint) <= Distance(m, checkpoint)
    BY UnwrapType, UnwrapWraps, SpaceType DEF UnwrapIsClosest, TypeOK
  <2> DEFINE S == SeqSpace  o == Offset(n, isn, checkpoint)
  <2>1. isn \in SeqNo /\ checkpoint \in Nat /\ m \in Nat
    BY SpaceType DEF TypeOK
  <2>2. PICK k \in Int : m - checkpoint = k * S + o
    BY <2>1, Candidates
  <2>3. o \in 0 .. S - 1
    BY <2>1, OffsetRange
  <2>4. S \in Nat /\ S = HalfRange + HalfRange /\ HalfRange \in Nat /\ HalfRange > 0
    BY SpaceType, HalfRangeAssumption
  <2>5. /\ o >= HalfRange /\ checkpoint + o >= S =>
               unwrap(n, isn, checkpoint) = checkpoint + o - S
        /\ ~(o >= HalfRange /\ checkpoint + o >= S) =>
               unwrap(n, isn, checkpoint) = checkpoint + o
    BY <2>1, UnwrapCases
  <2> HIDE DEF S, o
  <2> DEFINE kS == k * S
  <2>6. kS \in Int /\ (k >= 0 => kS >= 0) /\ (k < 0 => kS <= -S)
    BY <2>4, MultipleSign
  <2>7. m = checkpoint + kS + o
    BY <2>1, <2>2, <2>3, <2>4, <2>6
  <2> HIDE DEF kS
  <2>8. CASE o >= HalfRange /\ checkpoint + o >= S
    <3>1. unwrap(n, isn, checkpoint) = checkpoint + o - S
      BY <2>5, <2>8
    <3> QED BY <2>1, <2>3, <2>4, <2>6, <2>7, <2>8, <3>1 DEF Distance
  <2>9. CASE ~(o >= HalfRange /\ checkpoint + o >= S)
    <3>1. unwrap(n, isn, checkpoint) = checkpoint + o
      BY <2>5, <2>9
    <3> QED BY <2>1, <2>3, <2>4, <2>6, <2>7, <2>9, <3>1 DEF Distance
  <2> QED BY <2>8, <2>9
<1> QED BY <1>1, DecodingCorrect, PTL

=============================================================================
