------------------------------ MODULE SeqArith ------------------------------
(***************************************************************************)
(* Circular sequence-number arithmetic of net/dccp/dccp.h and the modulo-16*)
(* window-counter subtraction of packet_history.h.                         *)
(*                                                                         *)
(* The C code keeps a 48-bit sequence number in a 64-bit register and      *)
(* compares two of them by shifting both 16 bits to the left, so that the  *)
(* sign bit of the 64-bit difference is the sign of the 48-bit distance.   *)
(* The model keeps that structure and scales the widths: a sequence number *)
(* has SeqBits bits (48 in the code), the register SeqBits + PadBits bits  *)
(* (48 + 16 = 64 in the code), a C int IntBits bits (32 in the code).      *)
(* Every operator below is a constant-level function of its arguments; the *)
(* module has no state.                                                    *)
(***************************************************************************)
EXTENDS Integers

CONSTANTS
    SeqBits,    \* width of a sequence number            (code: 48)
    PadBits,    \* width of the shift used to compare    (code: 16)
    IntBits     \* width of `int' and of `u32'           (code: 32)

ASSUME /\ SeqBits \in Nat \ {0}
       /\ PadBits \in Nat \ {0}
       /\ IntBits \in 2..SeqBits

SeqMod == 2 ^ SeqBits                 \* 2^48
RegMod == 2 ^ (SeqBits + PadBits)     \* 2^64
IntMod == 2 ^ IntBits                 \* 2^32

SeqNo  == 0 .. (SeqMod - 1)
DCCP_MAX_SEQNO == SeqMod - 1

-----------------------------------------------------------------------------
(* C integer conversions *)

U64(x) == x % RegMod                       \* arithmetic in a u64 wraps
S64(x) == IF U64(x) >= RegMod \div 2       \* the cast (s64)x of a u64
          THEN U64(x) - RegMod ELSE U64(x)
Shl16(x) == U64(x * 2 ^ PadBits)           \* x << 16, the top bits fall off

U32(x)   == x % IntMod                     \* conversion to u32
ToInt(x) == IF U32(x) >= IntMod \div 2     \* conversion to int: the low
            THEN U32(x) - IntMod           \* IntBits bits, two's complement
            ELSE U32(x)

-----------------------------------------------------------------------------
(* dccp.h *)

\* Mutant: the comparison of the raw values, without the shift.
before48_raw(seq1, seq2) == S64(seq1 - seq2) < 0

\* is seq1 < seq2 ?
before48(seq1, seq2) == S64(Shl16(seq1) - Shl16(seq2)) < 0

\* is seq1 > seq2 ?
after48(seq1, seq2) == S64(Shl16(seq2) - Shl16(seq1)) < 0

\* Mutant: the distances taken from seq1 instead of seq2.
between48_from_seq1(seq1, seq2, seq3) ==
    U64(Shl16(seq3) - Shl16(seq1)) >= U64(Shl16(seq2) - Shl16(seq1))

\* is seq2 <= seq1 <= seq3 ?  (an unsigned comparison of two distances)
between48(seq1, seq2, seq3) ==
    U64(Shl16(seq3) - Shl16(seq2)) >= U64(Shl16(seq1) - Shl16(seq2))

max48(seq1, seq2) == IF after48(seq1, seq2) THEN seq1 ELSE seq2

\* one conditional subtraction, not a modulo
dccp_set_seqno(value) ==
    IF value > DCCP_MAX_SEQNO THEN U64(value - (DCCP_MAX_SEQNO + 1)) ELSE value

\* Mutant: the difference is not shifted back.
dccp_delta_seqno_unshifted(seqno1, seqno2) == U64(Shl16(seqno2) - Shl16(seqno1))

\* the u64 distance from seqno1 forward to seqno2, in 0 .. 2^48 - 1
dccp_delta_seqno(seqno1, seqno2) ==
    U64(Shl16(seqno2) - Shl16(seqno1)) \div 2 ^ PadBits

\* Mutant: the wrap happens one step late.
dccp_inc_seqno_late(seqno) == IF seqno > DCCP_MAX_SEQNO THEN 0 ELSE seqno + 1

dccp_inc_seqno(seqno) == IF seqno + 1 > DCCP_MAX_SEQNO THEN 0 ELSE seqno + 1

-----------------------------------------------------------------------------
(* packet_history.h *)

\* Subtraction a-b modulo-16, respects circular wrap-around
SUB16(a, b) == (a + 16 - b) % 16

=============================================================================
