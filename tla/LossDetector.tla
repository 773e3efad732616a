---------------------------- MODULE LossDetector ----------------------------
(***************************************************************************)
(* What the loss detection of a TFRC receiver promises (RFC 4342, 6.1, and *)
(* spec.md 4.2), said without a ring, without indices and without C        *)
(* integers.                                                               *)
(*                                                                         *)
(* The receiver knows an anchor, the sequence number before which nothing  *)
(* is outstanding, and a set of pending packets above it.  A packet that   *)
(* follows the anchor (it is the next number, or its NDP count accounts    *)
(* for the numbers in between) becomes the anchor; the others wait.  When  *)
(* NDupAck packets wait above a hole, the hole is reported as a loss and   *)
(* the lowest of them becomes the anchor.                                  *)
(***************************************************************************)
EXTENDS Integers, FiniteSets

CONSTANTS
    SeqSpace,       \* sequence numbers are 0 .. SeqSpace - 1, on a circle
    Ndp,            \* NDP counts a packet may carry
    NDupAck,        \* packets to wait for above a hole (3)
    NONE

ASSUME /\ SeqSpace \in Nat \ {0}
       /\ Ndp \subseteq Nat
       /\ NDupAck \in Nat \ {0}

VARIABLES
    anchor,     \* a sequence number, NONE before the first packet
    pending,    \* the packets above the anchor that wait
    loss        \* the hole <<below, above>> reported by the last step, or NONE

avars == <<anchor, pending, loss>>

Pkt == [seq : 0 .. SeqSpace - 1, ndp : Ndp]

Dist(a, b) == (b - a) % SeqSpace

\* b is ahead of a on the circle
Ahead(a, b) == Dist(a, b) \in 1 .. SeqSpace \div 2

\* no data packet is missing between the number a and the packet p
Follows(a, p) == Dist(a, p.seq) = 1 \/ p.ndp >= Dist(a, p.seq)

Lowest(P) == CHOOSE p \in P : \A q \in P \ {p} : Ahead(p.seq, q.seq)

\* the anchor moves up for as long as the lowest pending packet follows it
RECURSIVE Settle(_, _)
Settle(a, P) ==
    IF P = {} \/ ~Follows(a, Lowest(P))
    THEN [anchor |-> a, pending |-> P]
    ELSE Settle(Lowest(P).seq, P \ {Lowest(P)})

-----------------------------------------------------------------------------

AInit == anchor = NONE /\ pending = {} /\ loss = NONE

\* the connection ends, or a new one begins
Reset == anchor' = NONE /\ pending' = {} /\ loss' = NONE

First(p) ==
    /\ anchor = NONE
    /\ anchor' = p.seq
    /\ pending' = {}
    /\ loss' = NONE

\* a packet at or before the anchor, or one that is waiting already
Duplicate(p) ==
    /\ anchor # NONE
    /\ ~Ahead(anchor, p.seq) \/ p.seq \in {q.seq : q \in pending}
    /\ loss' = NONE
    /\ UNCHANGED <<anchor, pending>>

Receive(p) ==
    /\ anchor # NONE
    /\ Ahead(anchor, p.seq)
    /\ p.seq \notin {q.seq : q \in pending}
    /\ LET s  == Settle(anchor, pending \cup {p})
           lo == Lowest(s.pending)
           r  == Settle(lo.seq, s.pending \ {lo})
       IN  IF Cardinality(s.pending) < NDupAck
           THEN anchor' = s.anchor /\ pending' = s.pending /\ loss' = NONE
           ELSE anchor' = r.anchor /\ pending' = r.pending
                /\ loss' = <<s.anchor, lo.seq>>

ANext ==
    \/ Reset
    \/ \E p \in Pkt : First(p) \/ Duplicate(p) \/ Receive(p)

ASpec == AInit /\ [][ANext]_avars

=============================================================================
