---------------------------- MODULE SeqArithLaws ----------------------------
(***************************************************************************)
(* The laws the rest of the project relies on when it uses SeqArith,       *)
(* checked over every triple of sequence numbers of a scaled-down space.   *)
(* Three registers are driven round the whole space by the two operations  *)
(* dccp.h offers to move a sequence number, dccp_inc_seqno and             *)
(* dccp_set_seqno; each law is an invariant over the registers and compares*)
(* a dccp.h operator with its textbook definition in modular arithmetic.   *)
(***************************************************************************)
EXTENDS SeqArith

CONSTANT MaxJump        \* largest addend handed to dccp_set_seqno

ASSUME MaxJump \in 1 .. SeqMod

VARIABLES seq1, seq2, seq3

regs == <<seq1, seq2, seq3>>

-----------------------------------------------------------------------------
(* Reference definitions: plain modular arithmetic, no shifts *)

Half == SeqMod \div 2

RefDelta(a, b) == (b - a) % SeqMod          \* forward distance a -> b

RefBefore(a, b) == RefDelta(a, b) \in 1 .. Half

-----------------------------------------------------------------------------

Init == seq1 = 0 /\ seq2 = 0 /\ seq3 = 0

\* dccp_inc_seqno(&seq)
Inc1 == seq1' = dccp_inc_seqno(seq1) /\ UNCHANGED <<seq2, seq3>>
Inc2 == seq2' = dccp_inc_seqno(seq2) /\ UNCHANGED <<seq1, seq3>>
Inc3 == seq3' = dccp_inc_seqno(seq3) /\ UNCHANGED <<seq1, seq2>>

\* dccp_set_seqno(&seq, seq + k), the way dccp_update_gsr computes a window edge
Set1 == \E k \in 1 .. MaxJump :
            seq1' = dccp_set_seqno(seq1 + k) /\ UNCHANGED <<seq2, seq3>>

Next == Inc1 \/ Inc2 \/ Inc3 \/ Set1

Spec == Init /\ [][Next]_regs

-----------------------------------------------------------------------------

TypeOK == seq1 \in SeqNo /\ seq2 \in SeqNo /\ seq3 \in SeqNo

(***************************************************************************)
(* before48 and after48 order two sequence numbers by the half of the      *)
(* circle the second lies in: seq1 is before seq2 exactly when seq2 is 1 to*)
(* 2^47 steps ahead of it, after48 is before48 with the operands exchanged,*)
(* and max48 returns the later of the two.  This is the shift-and-sign     *)
(* comparison of dccp.h before48/after48/max48; a comparison of the raw    *)
(* values breaks it as soon as the numbers wrap.                           *)
(***************************************************************************)
HalfSpaceOrder ==
    /\ before48(seq1, seq2) <=> RefBefore(seq1, seq2)
    /\ after48(seq1, seq2) <=> RefBefore(seq2, seq1)
    /\ max48(seq1, seq2) = IF RefBefore(seq2, seq1) THEN seq1 ELSE seq2

(***************************************************************************)
(* between48(seq1, seq2, seq3) holds exactly when seq1 lies on the arc that*)
(* runs forward from seq2 to seq3, ends included: the window tests of      *)
(* dccp_check_seqno depend on the operand order of dccp.h between48.       *)
(***************************************************************************)
IntervalMembership ==
    between48(seq1, seq2, seq3) <=> RefDelta(seq2, seq1) <= RefDelta(seq2, seq3)

(***************************************************************************)
(* dccp_delta_seqno is the forward distance modulo 2^48: it is zero only   *)
(* for equal numbers, the two directions add up to the size of the space,  *)
(* dccp_inc_seqno moves one step forward and wraps from the maximum to 0,  *)
(* and a sequence number read back as a C int is its signed distance as    *)
(* long as that distance fits an int (packet_history.c stores every        *)
(* distance in an int).                                                    *)
(***************************************************************************)
DeltaLaws ==
    LET d12 == dccp_delta_seqno(seq1, seq2)
        d21 == dccp_delta_seqno(seq2, seq1)
    IN  /\ d12 = RefDelta(seq1, seq2)
        /\ (d12 = 0) <=> (seq1 = seq2)
        /\ seq1 # seq2 => d12 + d21 = SeqMod
        /\ dccp_delta_seqno(seq1, dccp_inc_seqno(seq1)) = 1
        /\ d12 < IntMod \div 2 => ToInt(d12) = d12
        /\ d21 \in 1 .. IntMod \div 2 => ToInt(d12) = - d21

=============================================================================
