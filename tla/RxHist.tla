------------------------------- MODULE RxHist -------------------------------
(***************************************************************************)
(* The receiver packet history of net/dccp/ccids/lib/packet_history.c:     *)
(* a ring of TFRC_NDUPACK + 1 = 4 entries, the loss-detection state machine*)
(* over it (__one_after_loss, __two_after_loss, __three_after_loss) and the*)
(* window-counter RTT sampler tfrc_rx_hist_sample_rtt.                     *)
(*                                                                         *)
(* The variable h is struct tfrc_rx_hist.  Every C function is an operator *)
(* from a history (and a packet) to the history it leaves behind, so that  *)
(* the receive path, which calls several of them while it holds the socket *)
(* lock, is one atomic action.  That receive path (the CCID calling the    *)
(* library) and the four inline accessors of the ring are not part of      *)
(* src/; they are written from spec.md and marked so.                      *)
(*                                                                         *)
(* Data abstracted: a packet is its sequence number, window counter and NDP*)
(* count; the packet type stored in an entry is never read by this file and*)
(* is left out.                                                            *)
(***************************************************************************)
EXTENDS SeqArith, Sequences

CONSTANTS
    NULL,           \* ring[i] of a history that holds no memory
    UNINIT,         \* an entry fresh from kmem_cache_alloc, never written
    NdpVals,        \* NDP counts packets carry
    CCVals,         \* window-counter values packets carry (subset of 0..15)
    MaxTime,        \* the clock stops advancing here
    SaneRttMax,     \* DCCP_SANE_RTT_MAX
    InitSeq,        \* sequence number of the first packet of a connection
    Span,           \* a connection uses the numbers InitSeq .. InitSeq + Span
    Fwd,            \* how far ahead of the highest number seen a packet may be
    Back,           \* how far behind it
    StaleArrivals   \* TRUE: packets older than the anchor reach the history

ASSUME /\ NdpVals \subseteq 0 .. IntMod - 1 /\ NdpVals # {}
       /\ MaxTime \in Nat /\ SaneRttMax \in Nat
       /\ CCVals \subseteq 0 .. 15 /\ CCVals # {}
       /\ InitSeq \in SeqNo /\ Span \in 0 .. SeqMod \div 2 - 1
       /\ Fwd \in Nat \ {0} /\ Back \in Nat
       /\ Back + Fwd < SeqMod \div 2
       /\ StaleArrivals \in BOOLEAN

VARIABLES
    h,      \* struct tfrc_rx_hist: ring, loss_count, loss_start
    now,    \* ktime_get_real()
    gsr,    \* highest sequence number delivered so far (NULL before the first)
    out,    \* what the last call returned
    rcvd    \* history variable: the sequence numbers delivered on this connection

vars == <<h, now, gsr, out, rcvd>>

TFRC_NDUPACK == 3
Slots == 0 .. TFRC_NDUPACK

Packet == [seq : SeqNo, ccval : CCVals, ndp : NdpVals]
Entry  == [seqno : SeqNo, ccval : CCVals, ndp : NdpVals, tstamp : 0 .. MaxTime]

-----------------------------------------------------------------------------
(* Accessors of the ring (spec.md 3: entry(i) = ring[(loss_start + i) mod 4]) *)

tfrc_rx_hist_index(g, n) == (g.loss_start + n) % (TFRC_NDUPACK + 1)

tfrc_rx_hist_entry(g, n) == g.ring[tfrc_rx_hist_index(g, n)]

\* the anchor: the entry before which nothing is missing
tfrc_rx_hist_loss_prev(g) == g.ring[g.loss_start]

\* index of the entry with the highest sequence number received so far
tfrc_rx_hist_last_rcv(g) == tfrc_rx_hist_index(g, g.loss_count)

-----------------------------------------------------------------------------
(* Writing an entry, the fast path, the duplicate test *)

\* tfrc_rx_hist_entry_from_skb(g->ring[i], skb, ndp)
tfrc_rx_hist_entry_from_skb(g, i, skb, t) ==
    [g EXCEPT !.ring[i] = [seqno |-> skb.seq, ccval |-> skb.ccval,
                           ndp |-> skb.ndp, tstamp |-> t]]

\* Mutant: the packet is always written to the first slot of the ring.
tfrc_rx_hist_add_packet_first(g, skb, t) ==
    tfrc_rx_hist_entry_from_skb(g, 0, skb, t)

tfrc_rx_hist_add_packet(g, skb, t) ==
    tfrc_rx_hist_entry_from_skb(g, tfrc_rx_hist_last_rcv(g), skb, t)

\* Mutant: the test against the pending entries starts at entry 2.
tfrc_rx_hist_duplicate_from2(g, skb) ==
    \/ dccp_delta_seqno(tfrc_rx_hist_loss_prev(g).seqno, skb.seq) <= 0
    \/ \E i \in 2 .. g.loss_count : tfrc_rx_hist_entry(g, i).seqno = skb.seq

\* has the packet been seen before?  The distance is a u64: `<= 0' is `= 0'.
tfrc_rx_hist_duplicate(g, skb) ==
    \/ dccp_delta_seqno(tfrc_rx_hist_loss_prev(g).seqno, skb.seq) <= 0
    \/ \E i \in 1 .. g.loss_count : tfrc_rx_hist_entry(g, i).seqno = skb.seq

tfrc_rx_hist_loss_indicated(g) == [g EXCEPT !.loss_count = 1]

tfrc_rx_hist_loss_pending(g) == g.loss_count

\* d == 1 || n >= d, with n a u32 and d an int: the comparison is unsigned
SuccessorU(d, n) == d = 1 \/ U32(n) >= U32(d)

\* Mutant: an NDP count equal to the distance does not account for it.
SuccessorS_strict(d, n) == d = 1 \/ n > d

\* d == 1 || n >= d, with n and d both int
SuccessorS(d, n) == d = 1 \/ n >= d

\* Mutant: every distance above 0 opens a gap.
tfrc_rx_hist_new_loss_indicated_any(g, skb) ==
    LET delta == ToInt(dccp_delta_seqno(
                     g.ring[tfrc_rx_hist_last_rcv(g)].seqno, skb.seq))
    IN  IF delta > 0 /\ U32(skb.ndp) < U32(delta)
        THEN tfrc_rx_hist_loss_indicated(g) ELSE g

\* any data packets missing between last reception and skb ?
tfrc_rx_hist_new_loss_indicated(g, skb) ==
    LET delta == ToInt(dccp_delta_seqno(
                     g.ring[tfrc_rx_hist_last_rcv(g)].seqno, skb.seq))
    IN  IF delta > 1 /\ U32(skb.ndp) < U32(delta)
        THEN tfrc_rx_hist_loss_indicated(g) ELSE g

\* Mutant: the first pointer is not saved before it is overwritten.
tfrc_rx_hist_swap_lossy(g, a, b) ==
    LET idx_a == tfrc_rx_hist_index(g, a)
        idx_b == tfrc_rx_hist_index(g, b)
    IN  [g EXCEPT !.ring[idx_a] = g.ring[idx_b]]

tfrc_rx_hist_swap(g, a, b) ==
    LET idx_a == tfrc_rx_hist_index(g, a)
        idx_b == tfrc_rx_hist_index(g, b)
    IN  [g EXCEPT !.ring[idx_a] = g.ring[idx_b], !.ring[idx_b] = g.ring[idx_a]]

-----------------------------------------------------------------------------
(* Loss detection.  Si is the sequence number of entry i, Ni its NDP count. *)

\* Mutant: the pending entries are dropped.
MoveAnchor_forgets(g, i, count) ==
    [g EXCEPT !.loss_start = tfrc_rx_hist_index(g, i), !.loss_count = 0]

\* Mutant: the anchor moves one entry too far.
MoveAnchor_beyond(g, i, count) ==
    [g EXCEPT !.loss_start = tfrc_rx_hist_index(g, i + 1), !.loss_count = count]

\* Entry i becomes the anchor, and count entries behind it stay pending.
MoveAnchor(g, i, count) ==
    [g EXCEPT !.loss_start = tfrc_rx_hist_index(g, i), !.loss_count = count]

\* Mutant: the ring is not rotated after the swap.
InsertAfterAnchor_norotate(g, skb, t, count) ==
    LET s == tfrc_rx_hist_swap(g, 0, 3)
    IN  [tfrc_rx_hist_entry_from_skb(s, tfrc_rx_hist_index(s, 1), skb, t)
            EXCEPT !.loss_count = count]

\* Reorder history to insert the packet between S0 and S1: the anchor moves to
\* the free fourth slot, the ring is rotated by one, the packet is entry 1.
InsertAfterAnchor(g, skb, t, count) ==
    LET s == tfrc_rx_hist_swap(g, 0, 3)
        r == [s EXCEPT !.loss_start = tfrc_rx_hist_index(s, 3)]
    IN  [tfrc_rx_hist_entry_from_skb(r, tfrc_rx_hist_index(r, 1), skb, t)
            EXCEPT !.loss_count = count]

__one_after_loss(g, skb, t) ==
    LET s0  == tfrc_rx_hist_loss_prev(g).seqno
        s1  == tfrc_rx_hist_entry(g, 1).seqno
        n1  == ToInt(tfrc_rx_hist_entry(g, 1).ndp)
        d12 == ToInt(dccp_delta_seqno(s1, skb.seq))
        d2  == ToInt(dccp_delta_seqno(s0, skb.seq))
        d21 == - d12
    IN  CASE d12 > 0 ->                                     \* S1 < S2
                [tfrc_rx_hist_entry_from_skb(g, tfrc_rx_hist_index(g, 2), skb, t)
                    EXCEPT !.loss_count = 2]
          [] d12 <= 0 /\ SuccessorU(d2, skb.ndp) /\ SuccessorS(d21, n1) ->
                \* hole is filled: S0, S2, and S1 are consecutive
                MoveAnchor(g, 1, 0)
          [] d12 <= 0 /\ SuccessorU(d2, skb.ndp) /\ ~SuccessorS(d21, n1) ->
                \* gap between S2 and S1: just update loss_prev
                tfrc_rx_hist_entry_from_skb(g, g.loss_start, skb, t)
          [] d12 <= 0 /\ ~SuccessorU(d2, skb.ndp) ->         \* hole between S0 and S2
                InsertAfterAnchor(g, skb, t, 2)

\* Returns the history and 1 if a new loss event has been identified.
__two_after_loss(g, skb, t) ==
    LET s0  == tfrc_rx_hist_loss_prev(g).seqno
        s1  == tfrc_rx_hist_entry(g, 1).seqno
        s2  == tfrc_rx_hist_entry(g, 2).seqno
        n1  == ToInt(tfrc_rx_hist_entry(g, 1).ndp)
        n2  == ToInt(tfrc_rx_hist_entry(g, 2).ndp)
        d23 == ToInt(dccp_delta_seqno(s2, skb.seq))
        d13 == ToInt(dccp_delta_seqno(s1, skb.seq))
        d3  == ToInt(dccp_delta_seqno(s0, skb.seq))
        d2  == ToInt(dccp_delta_seqno(s1, s2))
        d31 == - d13
        swapped == tfrc_rx_hist_swap(g, 2, 3)
    IN  CASE d23 > 0 ->                                     \* S2 < S3
                [g |-> [tfrc_rx_hist_entry_from_skb(
                            g, tfrc_rx_hist_index(g, 3), skb, t)
                          EXCEPT !.loss_count = 3],
                 ret |-> 1]
          [] d23 <= 0 /\ d13 > 0 ->                         \* S1 < S3 < S2
                [g |-> [tfrc_rx_hist_entry_from_skb(
                            swapped, tfrc_rx_hist_index(swapped, 2), skb, t)
                          EXCEPT !.loss_count = 3],
                 ret |-> 1]
          [] d23 <= 0 /\ d13 <= 0 /\ SuccessorU(d3, skb.ndp)
                      /\ SuccessorS(d31, n1) /\ SuccessorS(d2, n2) ->
                \* entire hole filled by S0, S3, S1, S2
                [g |-> MoveAnchor(g, 2, 0), ret |-> 0]
          [] d23 <= 0 /\ d13 <= 0 /\ SuccessorU(d3, skb.ndp)
                      /\ SuccessorS(d31, n1) /\ ~SuccessorS(d2, n2) ->
                \* gap remains between S1 and S2
                [g |-> MoveAnchor(g, 1, 1), ret |-> 0]
          [] d23 <= 0 /\ d13 <= 0 /\ SuccessorU(d3, skb.ndp)
                      /\ ~SuccessorS(d31, n1) ->
                \* gap exists between S3 and S1, loss_count stays at 2
                [g |-> tfrc_rx_hist_entry_from_skb(g, g.loss_start, skb, t),
                 ret |-> 0]
          [] d23 <= 0 /\ d13 <= 0 /\ ~SuccessorU(d3, skb.ndp) ->
                \* sequence order is S0, S3, S1, S2
                [g |-> InsertAfterAnchor(g, skb, t, 3), ret |-> 1]

\* the signed distance from entry e1 to entry e2
tfrc_rx_hist_delta_seqno(g, e1, e2) ==
    S64(dccp_delta_seqno(tfrc_rx_hist_entry(g, e1).seqno,
                         tfrc_rx_hist_entry(g, e2).seqno))

\* Mutant: the anchor always moves to the newest entry.
__three_after_loss_newest(g) == MoveAnchor(g, 3, 0)

\* Mutant: the counter is left at 3.
__three_after_loss_norecycle(g) == g

\* recycle RX history records to continue loss detection if necessary
__three_after_loss(g) ==
    LET d2 == ToInt(tfrc_rx_hist_delta_seqno(g, 1, 2))
        d3 == ToInt(tfrc_rx_hist_delta_seqno(g, 2, 3))
        n2 == ToInt(tfrc_rx_hist_entry(g, 2).ndp)
        n3 == ToInt(tfrc_rx_hist_entry(g, 3).ndp)
    IN  CASE SuccessorS(d2, n2) /\ SuccessorS(d3, n3)  -> MoveAnchor(g, 3, 0)
          [] SuccessorS(d2, n2) /\ ~SuccessorS(d3, n3) -> MoveAnchor(g, 2, 1)
          [] ~SuccessorS(d2, n2)                       -> MoveAnchor(g, 1, 2)

\* The entries 0 .. loss_count in logical order: what the loss-interval
\* database is shown by tfrc_lh_interval_add.
Tracked(g) == [i \in 1 .. g.loss_count + 1 |-> tfrc_rx_hist_entry(g, i - 1)]

\* li is what tfrc_lh_interval_add returns when it is called.
tfrc_rx_handle_loss(g, skb, t, li) ==
    LET two == __two_after_loss(g, skb, t)
        quiet(f, bug) == [g |-> f, is_new_loss |-> 0, li_seen |-> <<>>,
                          bug |-> bug]
    IN  CASE g.loss_count = 1 -> quiet(__one_after_loss(g, skb, t), FALSE)
          [] g.loss_count \notin {1, 2} -> quiet(g, TRUE)      \* DCCP_BUG
          [] g.loss_count = 2 /\ two.ret = 0 -> quiet(two.g, FALSE)
          [] g.loss_count = 2 /\ two.ret = 1 ->
                [g |-> __three_after_loss(two.g), is_new_loss |-> li,
                 li_seen |-> Tracked(two.g), bug |-> FALSE]

-----------------------------------------------------------------------------
(* RTT sampling.  rtt_sample_prev is a second name of loss_start. *)

tfrc_rx_hist_rtt_last_s(g) == g.ring[0]

tfrc_rx_hist_rtt_prev_s(g) == g.ring[g.loss_start]

\* Mutant: a packet of the reference's own window is kept as a candidate.
KeepRef_candidate(g, p) ==
    [g |-> [g EXCEPT !.loss_start = 2], sample |-> 0, fault |-> FALSE]

\* keep_ref_for_next_time: no sample; ring[0] stays the reference, and
\* rtt_sample_prev = p is where tfrc_rx_hist_add_packet will put the packet
KeepRef(g, p) ==
    [g |-> [g EXCEPT !.loss_start = p], sample |-> 0, fault |-> FALSE]

\* the sample s, clamped; the packet will be the next reference
UseSample(g, s, f) ==
    [g |-> [g EXCEPT !.loss_start = 0],
     sample |-> IF s > SaneRttMax THEN SaneRttMax ELSE s, fault |-> f]

\* Returns the history, the sample (0: none) and whether the DCCP_BUG of the
\* "in principle not possible" branch was hit.
tfrc_rx_hist_sample_rtt(g, skb, t) ==
    LET last    == tfrc_rx_hist_rtt_last_s(g)
        prev    == tfrc_rx_hist_rtt_prev_s(g)
        delta_v == SUB16(skb.ccval, last.ccval)
        ratio   == SUB16(prev.ccval, last.ccval)
        unsuitable == delta_v < 1 \/ delta_v > 4
    IN  CASE unsuitable /\ g.loss_start = 2 /\ ratio # 0 ->   \* candidate stored
                UseSample(g, U32((4 \div ratio) * (prev.tstamp - last.tstamp)), FALSE)
          [] unsuitable /\ g.loss_start = 2 /\ ratio = 0 -> UseSample(g, 0, TRUE)
          [] unsuitable /\ g.loss_start # 2 /\ delta_v < 1 -> KeepRef(g, 1)
          [] unsuitable /\ g.loss_start # 2 /\ delta_v >= 1 -> UseSample(g, 0, FALSE)
          [] delta_v = 4 ->                                   \* optimal match
                UseSample(g, U32(t - last.tstamp), FALSE)
          [] delta_v \in 1 .. 3 -> KeepRef(g, 2)              \* suboptimal match

-----------------------------------------------------------------------------
(* Allocation *)

Allocated(g) == \A i \in Slots : g.ring[i] # NULL

\* every kmem_cache_alloc succeeds
tfrc_rx_hist_alloc(g) ==
    [ring |-> [i \in Slots |-> UNINIT], loss_count |-> 0, loss_start |-> 0]

\* kmem_cache_alloc number n returns NULL: the entries before it are freed
tfrc_rx_hist_alloc_fail(g, n) ==
    [g EXCEPT !.ring = [i \in Slots |-> IF i <= n THEN NULL ELSE g.ring[i]]]

tfrc_rx_hist_purge(g) == [g EXCEPT !.ring = [i \in Slots |-> NULL]]

-----------------------------------------------------------------------------
(* The state machine *)

\* out: the call (event) and its packet, what tfrc_rx_handle_loss returned
\* (is_new_loss) and showed tfrc_lh_interval_add (li_seen), what
\* tfrc_rx_hist_sample_rtt returned (sample), the DCCP_BUGs that were hit
Quiet == [event |-> "none", skb |-> NULL, is_new_loss |-> 0, li_seen |-> <<>>,
          sample |-> 0, fault |-> FALSE, bug |-> FALSE]

Init ==
    /\ h = [ring |-> [i \in Slots |-> NULL], loss_count |-> 0, loss_start |-> 0]
    /\ now = 0
    /\ gsr = NULL
    /\ out = Quiet
    /\ rcvd = {}

\* connection setup
Alloc ==
    /\ ~Allocated(h)
    /\ h' = tfrc_rx_hist_alloc(h)
    /\ gsr' = NULL
    /\ rcvd' = {}
    /\ out' = [Quiet EXCEPT !.event = "alloc"]
    /\ UNCHANGED now

\* connection setup fails with -ENOBUFS
AllocFail ==
    /\ ~Allocated(h)
    /\ \E n \in Slots : h' = tfrc_rx_hist_alloc_fail(h, n)
    /\ out' = [Quiet EXCEPT !.event = "enobufs"]
    /\ UNCHANGED <<now, gsr, rcvd>>

\* connection teardown
Purge ==
    /\ Allocated(h)
    /\ h' = tfrc_rx_hist_purge(h)
    /\ out' = [Quiet EXCEPT !.event = "purge"]
    /\ UNCHANGED <<now, gsr, rcvd>>

\* time passes between two packets
Tick ==
    /\ now < MaxTime
    /\ now' = now + 1
    /\ UNCHANGED <<h, gsr, out, rcvd>>

Started == Allocated(h) /\ tfrc_rx_hist_loss_prev(h) # UNINIT

\* The packets the layer below may hand over next: of this connection, inside
\* the sequence window round the highest number seen, and, unless
\* StaleArrivals, not older than the anchor.
Arrivals ==
    IF ~Started
    THEN {skb \in Packet : skb.seq = InitSeq}
    ELSE {skb \in Packet :
            /\ dccp_delta_seqno(InitSeq, skb.seq) <= Span
            /\ \/ dccp_delta_seqno(gsr, skb.seq) <= Fwd
               \/ dccp_delta_seqno(skb.seq, gsr) <= Back
            /\ StaleArrivals \/ ~before48(skb.seq, tfrc_rx_hist_loss_prev(h).seqno)}

\* the layer below has delivered skb
Seen(skb) ==
    /\ gsr' = IF gsr = NULL THEN skb.seq ELSE max48(skb.seq, gsr)
    /\ rcvd' = rcvd \cup {skb.seq}

\* the first packet of a connection only fills the anchor
RecvFirst(skb) ==
    /\ Allocated(h) /\ ~Started
    /\ h' = tfrc_rx_hist_add_packet(h, skb, now)
    /\ out' = [Quiet EXCEPT !.event = "first", !.skb = skb]
    /\ Seen(skb)
    /\ UNCHANGED now

\* duplicate check: done receiving
RecvDuplicate(skb) ==
    /\ Started
    /\ tfrc_rx_hist_duplicate(h, skb)
    /\ out' = [Quiet EXCEPT !.event = "dup", !.skb = skb]
    /\ Seen(skb)
    /\ UNCHANGED <<h, now>>

\* a gap is pending: loss handling
RecvLossPending(skb) ==
    /\ Started
    /\ ~tfrc_rx_hist_duplicate(h, skb)
    /\ tfrc_rx_hist_loss_pending(h) # 0
    /\ \E li \in {0, 1} :
        LET r == tfrc_rx_handle_loss(h, skb, now, li)
        IN  /\ h' = r.g
            /\ out' = [Quiet EXCEPT !.event = "loss", !.skb = skb,
                                    !.is_new_loss = r.is_new_loss,
                                    !.li_seen = r.li_seen, !.bug = r.bug]
    /\ Seen(skb)
    /\ UNCHANGED now

\* no gap pending and the packet opens one: it becomes the first pending entry
RecvNewLoss(skb) ==
    /\ Started
    /\ ~tfrc_rx_hist_duplicate(h, skb)
    /\ tfrc_rx_hist_loss_pending(h) = 0
    /\ LET g == tfrc_rx_hist_new_loss_indicated(h, skb)
       IN  /\ tfrc_rx_hist_loss_pending(g) # 0
           /\ h' = tfrc_rx_hist_add_packet(g, skb, now)
    /\ out' = [Quiet EXCEPT !.event = "newloss", !.skb = skb]
    /\ Seen(skb)
    /\ UNCHANGED now

\* the fast path: sample the RTT, then the packet becomes the anchor
RecvInOrder(skb) ==
    /\ Started
    /\ ~tfrc_rx_hist_duplicate(h, skb)
    /\ tfrc_rx_hist_loss_pending(h) = 0
    /\ tfrc_rx_hist_loss_pending(tfrc_rx_hist_new_loss_indicated(h, skb)) = 0
    /\ LET r == tfrc_rx_hist_sample_rtt(h, skb, now)
       IN  /\ h' = tfrc_rx_hist_add_packet(r.g, skb, now)
           /\ out' = [Quiet EXCEPT !.event = "inorder", !.skb = skb,
                                   !.sample = r.sample, !.fault = r.fault]
    /\ Seen(skb)
    /\ UNCHANGED now

Next ==
    \/ Alloc
    \/ AllocFail
    \/ Purge
    \/ Tick
    \/ \E skb \in Arrivals : RecvFirst(skb)
    \/ \E skb \in Arrivals : RecvDuplicate(skb)
    \/ \E skb \in Arrivals : RecvLossPending(skb)
    \/ \E skb \in Arrivals : RecvNewLoss(skb)
    \/ \E skb \in Arrivals : RecvInOrder(skb)

Spec == Init /\ [][Next]_vars

-----------------------------------------------------------------------------
(* Properties *)

Slot == Entry \cup {NULL, UNINIT}

\* The variables have their types.  loss_count is a two-bit field that the
\* code lets reach 3 inside tfrc_rx_handle_loss only: __three_after_loss has
\* brought it back to 0 .. 2 whenever the receive path returns, so that the
\* DCCP_BUG("invalid loss_count") of the next call cannot be reached.
TypeOK ==
    /\ h \in [ring : [Slots -> Slot], loss_count : 0 .. 2, loss_start : Slots]
    /\ now \in 0 .. MaxTime
    /\ gsr \in SeqNo \cup {NULL}
    /\ out.event \in {"none", "alloc", "enobufs", "purge",
                      "first", "dup", "loss", "newloss", "inorder"}
    /\ rcvd \subseteq SeqNo
    /\ out.skb \in Packet \cup {NULL}
    /\ out.is_new_loss \in {0, 1}
    /\ out.li_seen \in Seq(Entry)
    /\ out.sample \in 0 .. SaneRttMax
    /\ out.fault \in BOOLEAN /\ out.bug = FALSE

\* e and f are written entries, and e is older than f
Older(e, f) == e \in Entry /\ f \in Entry /\ before48(e.seqno, f.seqno)

\* f is a written entry that is not a successor of e: more than one number
\* ahead of it, its NDP count smaller than the distance (the condition under
\* which tfrc_rx_hist_new_loss_indicated opens a gap)
HoleBetween(e, f) ==
    /\ Older(e, f)
    /\ LET d == dccp_delta_seqno(e.seqno, f.seqno) IN d > 1 /\ f.ndp < d

\* the entries 0 .. loss_count of a sequence of entries are in order
InOrder(es) == \A i, j \in DOMAIN es : i < j => Older(es[i], es[j])

\* What the next call of the receive path reads has been written before:
\* the anchor, the pending entries, and the sampler's reference ring[0], even
\* though kmem_cache_alloc hands out entries with arbitrary content and the
\* swaps of __one_after_loss and __two_after_loss move the never-written
\* fourth entry round the ring.
ReadsInitialised ==
    Started => /\ \A i \in 0 .. h.loss_count : tfrc_rx_hist_entry(h, i) \in Entry
               /\ tfrc_rx_hist_rtt_last_s(h) \in Entry

\* The anchor and the pending entries are in strictly increasing sequence
\* order, whatever the order the packets arrived in: the insertions of
\* __one_after_loss and __two_after_loss keep the ring sorted, and
\* tfrc_rx_hist_duplicate keeps a number from being tracked twice.
TrackedInOrder == Started => InOrder(Tracked(h))

\* The comment of __three_after_loss: "the distance between S0 and S1 is
\* always greater than 1 and the NDP count of S1 is smaller than this
\* distance".  It has to hold for every way of reaching a pending gap, the
\* anchor updates and recyclings of all three __after_loss functions included.
GapBehindPending ==
    Started /\ h.loss_count > 0 =>
        HoleBetween(tfrc_rx_hist_loss_prev(h), tfrc_rx_hist_entry(h, 1))

\* RFC 4342, 8.1, as tfrc_rx_hist_sample_rtt and tfrc_rx_hist_add_packet carry
\* it out between them: while no loss has been seen, a stored candidate
\* (rtt_sample_prev = 2) is a written entry whose window counter is 1 to 3
\* ahead of the reference's, and it is not older than the reference.  The
\* quotient 4 / (CCVal difference) of the next call then cannot divide by 0.
CandidateSuitable ==
    Started /\ h.loss_count = 0 /\ h.loss_start = 2 =>
        /\ tfrc_rx_hist_rtt_prev_s(h) \in Entry
        /\ tfrc_rx_hist_rtt_last_s(h) \in Entry
        /\ SUB16(tfrc_rx_hist_rtt_prev_s(h).ccval,
                 tfrc_rx_hist_rtt_last_s(h).ccval) \in 1 .. 3
        /\ tfrc_rx_hist_rtt_last_s(h).tstamp <= tfrc_rx_hist_rtt_prev_s(h).tstamp

\* A call that keeps its reference for next time leaves ring[0] as it was:
\* the packet goes to ring[rtt_sample_prev], because rtt_sample_prev is
\* loss_start and tfrc_rx_hist_add_packet writes relative to loss_start.
ReferenceKept ==
    [][out'.event = "inorder" /\ h'.loss_start # 0 => h'.ring[0] = h.ring[0]]_vars

\* the sequence numbers strictly between a and b
Inside(a, b) == {s \in SeqNo : before48(a, s) /\ before48(s, b)}

\* The packets delivered with a number above the anchor's are exactly the
\* pending entries: none of them is forgotten when the ring is reordered,
\* rotated or recycled, and none is tracked that did not arrive.  With
\* GapBehindPending, nothing between the anchor and entry 1 has arrived.
PendingAreTheReceivedAhead ==
    Started =>
        /\ \A i \in 0 .. h.loss_count : tfrc_rx_hist_entry(h, i) \in Entry
        /\ tfrc_rx_hist_loss_prev(h).seqno \in rcvd
        /\ {s \in rcvd : before48(tfrc_rx_hist_loss_prev(h).seqno, s)}
             = {tfrc_rx_hist_entry(h, i).seqno : i \in 1 .. h.loss_count}

\* RFC 4342, 6.1, as tfrc_rx_handle_loss implements it: the loss-interval
\* database is called with the anchor and TFRC_NDUPACK entries in sequence
\* order (__two_after_loss returns 1 with entries 0 .. 3 sorted), and the
\* loss it records is real: entry 1 is no successor of the anchor and none
\* of the numbers between them has been delivered, in whatever order the
\* four packets and the ones before them arrived.
LossConfirmedByThree ==
    out.li_seen # <<>> =>
        /\ Len(out.li_seen) = TFRC_NDUPACK + 1
        /\ InOrder(out.li_seen)
        /\ HoleBetween(out.li_seen[1], out.li_seen[2])
        /\ Inside(out.li_seen[1].seqno, out.li_seen[2].seqno)
              \cap rcvd = {}

\* Among the entries es the number s lies in a gap that the NDP count of
\* the entry above the gap accounts for.
Excused(es, s) ==
    \E lo, hi \in es :
        /\ before48(lo.seqno, s) /\ before48(s, hi.seqno)
        /\ \A e \in es : ~(before48(lo.seqno, e.seqno) /\ before48(e.seqno, hi.seqno))
        /\ hi.ndp >= dccp_delta_seqno(lo.seqno, hi.seqno)

\* what a call of the receive path knows: the entries tracked before it, and
\* its packet
Known(g, skb) ==
    {tfrc_rx_hist_entry(g, i) : i \in 0 .. g.loss_count}
        \cup {[seqno |-> skb.seq, ccval |-> skb.ccval, ndp |-> skb.ndp, tstamp |-> 0]}

\* The anchor is "the entry before which nothing is missing": a call that
\* moves it passes only numbers of packets it knows, numbers that an NDP
\* count accounts for, and the numbers of the hole that this very call
\* reports to the loss-interval database.  A gap that __three_after_loss or
\* the hole-filled branches of __one_after_loss and __two_after_loss jumped
\* over would never be reported.
NoHoleSkipped ==
    [][Started /\ Started' /\ tfrc_rx_hist_loss_prev(h)' \in Entry =>
          \A s \in Inside(tfrc_rx_hist_loss_prev(h).seqno,
                          tfrc_rx_hist_loss_prev(h)'.seqno) :
              \/ s \in {e.seqno : e \in Known(h, out'.skb)}
              \/ Excused(Known(h, out'.skb), s)
              \/ /\ Len(out'.li_seen) > 1
                 /\ s \in Inside(out'.li_seen[1].seqno, out'.li_seen[2].seqno)]_vars

\* The comment in tfrc_rx_hist_sample_rtt: a stored candidate with the window
\* counter of the reference "is in principle not possible".  The DCCP_BUG of
\* that branch is never reached.
SamplerFaultImpossible == ~out.fault

\* The NDP count of a packet is the number of non-data packets before it
\* (spec.md, glossary; RFC 4340, 7.7): a gap of d - 1 numbers in front of a
\* packet with an NDP count of d - 1 or more has lost no data, and is not
\* left pending as a loss.
PendingGapLostData ==
    Started /\ h.loss_count > 0 =>
        /\ Older(tfrc_rx_hist_loss_prev(h), tfrc_rx_hist_entry(h, 1))
        /\ tfrc_rx_hist_entry(h, 1).ndp
              < dccp_delta_seqno(tfrc_rx_hist_loss_prev(h).seqno,
                                 tfrc_rx_hist_entry(h, 1).seqno) - 1

\* spec.md 4.3: for a packet 1 to 3 windows ahead of the reference, "if an
\* interim candidate is already stored", the sample is (4 / raw) times the
\* time between the reference and the candidate.  A call of
\* tfrc_rx_hist_sample_rtt with such a packet, a candidate stored and time
\* between the two entries returns a sample.
CandidateUsedWhenAmbiguous ==
    [][/\ out'.event = "inorder"
       /\ h.loss_start = 2
       /\ SUB16(out'.skb.ccval, tfrc_rx_hist_rtt_last_s(h).ccval) \in 1 .. 3
       /\ SUB16(tfrc_rx_hist_rtt_prev_s(h).ccval,
                tfrc_rx_hist_rtt_last_s(h).ccval) # 0
       /\ tfrc_rx_hist_rtt_prev_s(h).tstamp > tfrc_rx_hist_rtt_last_s(h).tstamp
       => out'.sample # 0]_vars

\* While a connection lasts the anchor never moves back to an older sequence
\* number: not when tfrc_rx_hist_add_packet overwrites it, not when a late
\* packet is inserted behind it, not when the ring is recycled.
AnchorAdvances ==
    [][Started /\ Started' =>
          /\ tfrc_rx_hist_loss_prev(h)' \in Entry
          /\ ~before48(tfrc_rx_hist_loss_prev(h)'.seqno,
                       tfrc_rx_hist_loss_prev(h).seqno)]_vars

-----------------------------------------------------------------------------
(* Refinement *)

\* the packet an entry holds, as the abstract specification sees it
AsPkt(e) == [seq |-> e.seqno, ndp |-> e.ndp]

LD == INSTANCE LossDetector WITH
        SeqSpace <- SeqMod,
        Ndp      <- NdpVals,
        NDupAck  <- TFRC_NDUPACK,
        NONE     <- NULL,
        anchor   <- IF Started THEN tfrc_rx_hist_loss_prev(h).seqno ELSE NULL,
        pending  <- IF Started
                    THEN {AsPkt(tfrc_rx_hist_entry(h, i)) : i \in 1 .. h.loss_count}
                    ELSE {},
        loss     <- IF out.li_seen = <<>> THEN NULL
                    ELSE <<out.li_seen[1].seqno, out.li_seen[2].seqno>>

\* The ring with its swaps, its rotating base and its int and u32 distances
\* implements the loss detection of RFC 4342, 6.1: every call of the receive
\* path (tfrc_rx_hist_duplicate, tfrc_rx_hist_new_loss_indicated,
\* tfrc_rx_handle_loss, tfrc_rx_hist_add_packet) changes the anchor and the set
\* of pending packets, and reports a hole, exactly as the abstract receiver
\* does for the same packet.
ImplementsLossDetector == LD!ASpec

=============================================================================
