-------------------------- MODULE WrappingIntegers --------------------------
(***************************************************************************)
(* Sequence-number arithmetic of the stack (libsponge/wrapping_integers).  *)
(* A TCP header carries 32-bit sequence numbers that start at a random     *)
(* initial sequence number (isn) and wrap around; sender and receiver work *)
(* with absolute 64-bit numbers that start at zero.  wrap goes from        *)
(* absolute to header, unwrap back, guided by a recent absolute number.    *)
(*                                                                         *)
(* HalfRange stands for 2^31, SeqSpace for 2^32.  The 64-bit numbers are   *)
(* modelled by Nat: a connection sends fewer than 2^64 bytes.              *)
(***************************************************************************)
EXTENDS Integers

CONSTANT HalfRange

ASSUME HalfRangeAssumption == HalfRange \in Nat \ {0}

SeqSpace == 2 * HalfRange

SeqNo == 0 .. SeqSpace - 1

\* WrappingInt32 wrap(uint64_t n, WrappingInt32 isn): 32-bit addition.
wrap(n, isn) == (isn + n) % SeqSpace

\* The 32-bit difference n - wrap(checkpoint, isn); its sign bit is set
\* exactly when the difference is at least HalfRange.
Offset(n, isn, checkpoint) == (n - wrap(checkpoint, isn)) % SeqSpace

\* Mutant of unwrap: without the test that ret is large enough to subtract from.
unwrap_MayUnderflow(n, isn, checkpoint) ==
    LET offset == Offset(n, isn, checkpoint)
        ret    == checkpoint + offset
    IN  IF offset >= HalfRange THEN ret - SeqSpace ELSE ret

\* Mutant of unwrap: the number is always looked for after the checkpoint.
unwrap_OnlyForward(n, isn, checkpoint) == checkpoint + Offset(n, isn, checkpoint)

unwrap(n, isn, checkpoint) ==
    LET offset == Offset(n, isn, checkpoint)
        ret    == checkpoint + offset
    IN  IF offset >= HalfRange /\ ret >= SeqSpace THEN ret - SeqSpace ELSE ret

=============================================================================
