------------------------------ MODULE RdsIbSend ------------------------------
(***************************************************************************)
(* The send path of RDS over InfiniBand: net/rds/ib_send.c.  The core      *)
(* hands a message to the transport in up to three calls (the RDMA         *)
(* operation, the atomic operation, the data); each call takes entries of  *)
(* the send ring, fills them in and posts them to the queue pair.  The     *)
(* completion handler runs in interrupt context, gives the entries back    *)
(* and releases the messages.  With flow control a SEND costs a credit;    *)
(* both credit counters are the two halves of the one atomic word          *)
(* i_credits, which the send path, the acknowledgement path and the        *)
(* receive path change without a lock.                                     *)
(*                                                                         *)
(* The ring counters (ib_ring.c), the acknowledgement and refill of the    *)
(* receive path (ib_recv.c), connection set-up and shutdown (ib_cm.c), the *)
(* send loop of the core (send.c), the adapter and the peer are outside    *)
(* this file.                                                              *)
(***************************************************************************)
EXTENDS Integers, Sequences, FiniteSets

CONSTANTS
    W_NR,                \* i_send_ring.w_nr
    RecvWr,              \* the receive buffers each end posts
    CreditBits,          \* width of each half of i_credits (16)
    RDS_MAX_ADV_CREDIT,  \* the most credits one header carries
    AckAt,               \* posted credits that ask for an update (16)
    MaxUnsig,            \* rds_ib_sysctl_max_unsig_wrs
    MaxSge,              \* rds_ibdev->max_sge
    Kinds,               \* the messages the core may queue
    MaxMsgs,             \* messages queued in a behaviour
    MaxPeerPkts,         \* packets the peer sends of its own accord
    AckReq,              \* whether they ask for an acknowledgement
    FlowCtl,             \* the values of i_flowctl a connection may get
    Faults               \* the steps that may fail

Half == 2 ^ CreditBits
NULL == 0
ACK  == W_NR            \* RDS_IB_ACK_WR_ID: no entry of the ring
Ids  == 1 .. MaxMsgs
Slots == 0 .. W_NR - 1

ASSUME /\ W_NR \in Nat \ {0} /\ RecvWr \in 1 .. Half - 1
       /\ MaxUnsig \in Nat /\ MaxSge \in Nat \ {0} /\ AckAt \in 1 .. RecvWr
       /\ FlowCtl \subseteq BOOLEAN /\ FlowCtl # {}

VARIABLES
    ic,     \* struct rds_ib_connection, with the state of its
            \* rds_connection and the bit RDS_LL_SEND_FULL of c_flags
    sends,  \* ic->i_sends
    rm,     \* the messages: kind, references held by the transport, state
    snd,    \* the send thread: the core's position and the locals of a call
    ack,    \* the context that sends an acknowledgement
    qp,     \* the work requests posted and not yet executed
    cq,     \* the completions not yet polled
    peer,   \* the other end: its buffers and its own i_credits
    hist    \* history: entries executed and not yet given back (done),
            \* BUG_ON reached (bug), NULL dereferenced (oops)

vars == <<ic, sends, rm, snd, ack, qp, cq, peer, hist>>

Least(a, b) == IF a < b THEN a ELSE b
Ceil(a, b) == (a + b - 1) \div b

-----------------------------------------------------------------------------
\* ib.h: the two halves of i_credits.
IB_GET_SEND_CREDITS(v) == v % Half
IB_GET_POST_CREDITS(v) == v \div Half
IB_SET_SEND_CREDITS(v) == v % Half
IB_SET_POST_CREDITS(v) == (v * Half) % (Half * Half)
atomic_add(i, v) == (v + i) % (Half * Half)

Bill_noreserve(oldval, wanted, need_posted, max_posted) ==
    LET posted == IB_GET_POST_CREDITS(oldval)
        avail  == IB_GET_SEND_CREDITS(oldval)
        got    == Least(avail, wanted)
        advertise == IF posted > 0 /\ (got > 0 \/ need_posted)
                     THEN Least(posted, max_posted) ELSE 0
    IN  [newval |-> atomic_add(- IB_SET_SEND_CREDITS(got)
                               - IB_SET_POST_CREDITS(advertise), oldval),
         got |-> got, advertise |-> advertise, full |-> avail < wanted]

\* One pass of rds_ib_send_grab_credits over the value it read.
Bill(oldval, wanted, need_posted, max_posted) ==
    LET posted == IB_GET_POST_CREDITS(oldval)
        avail  == IF IB_GET_SEND_CREDITS(oldval) > 0 /\ posted = 0
                  THEN IB_GET_SEND_CREDITS(oldval) - 1
                  ELSE IB_GET_SEND_CREDITS(oldval)
        got    == Least(avail, wanted)
        advertise == IF posted > 0 /\ (got > 0 \/ need_posted)
                     THEN Least(posted, max_posted) ELSE 0
    IN  [newval |-> atomic_add(- IB_SET_SEND_CREDITS(got)
                               - IB_SET_POST_CREDITS(advertise), oldval),
         got |-> got, advertise |-> advertise, full |-> avail < wanted]

Swapped_blind(cur, oldval) == TRUE

\* atomic_cmpxchg stored the new value.
Swapped(cur, oldval) == cur = oldval

\* The word and RDS_LL_SEND_FULL after rds_ib_send_add_credits.
rds_ib_send_add_credits(c, credits) ==
    IF credits = 0 THEN c
    ELSE [c EXCEPT !.i_credits = atomic_add(IB_SET_SEND_CREDITS(credits), @),
                   !.SEND_FULL = FALSE]

rds_ib_advertise_credits(c, posted) ==
    IF posted = 0 THEN c
    ELSE LET v == atomic_add(IB_SET_POST_CREDITS(posted), c.i_credits)
         IN  [c EXCEPT !.i_credits = v,
                       !.ACK_REQUESTED = @ \/ IB_GET_POST_CREDITS(v) >= AckAt]

Unsignaled_noreset(u, notify) == IF notify THEN MaxUnsig ELSE u - 1

\* rds_ib_set_wr_signal_state: the counter after a work request, and whether
\* the request is signalled.
Unsignaled(u, notify) == IF u = 0 \/ notify THEN MaxUnsig ELSE u - 1
Signals(u, notify) == u = 0 \/ notify

RECURSIVE UnsignaledAfter(_, _)
UnsignaledAfter(u, n) ==
    IF n = 0 THEN u ELSE UnsignaledAfter(Unsignaled(u, FALSE), n - 1)

-----------------------------------------------------------------------------
\* ib_ring.c, as ib_send.c uses it.
Ring0 == [w_alloc_ptr |-> 0, w_free_ptr |-> 0, w_used |-> 0]

rds_ib_ring_alloc(r, val) ==
    LET ret == Least(val, W_NR - r.w_used)
    IN  [ring |-> [r EXCEPT !.w_alloc_ptr = (@ + ret) % W_NR, !.w_used = @ + ret],
         ret |-> ret, pos |-> r.w_alloc_ptr]

rds_ib_ring_unalloc(r, val) ==
    [r EXCEPT !.w_alloc_ptr = (@ - val) % W_NR, !.w_used = @ - val]

rds_ib_ring_free(r, val) ==
    [r EXCEPT !.w_free_ptr = (@ + val) % W_NR, !.w_used = @ - val]

rds_ib_ring_completed(wr_id, oldest) ==
    IF oldest <= wr_id THEN wr_id - oldest + 1 ELSE W_NR - oldest + wr_id + 1

-----------------------------------------------------------------------------
\* A kind of message: whether it has data and of how many fragments, the
\* scatterlist entries of its RDMA operation (0: none), whether it has an
\* atomic operation, and whether the operations ask for a notification.
NoKind == [data |-> FALSE, frags |-> 0, rdma |-> 0, atomic |-> FALSE, notify |-> FALSE]
NoMsg == [kind |-> NoKind, refs |-> 0, op_mapped |-> FALSE, unmapped |-> FALSE,
          rdma_note |-> <<>>, atomic_note |-> <<>>]

\* An entry of vmalloc'ed, zeroed memory.
Send0 == [s_rm |-> NULL, s_op |-> NULL, opcode |-> "none", signaled |-> FALSE]

\* rds_ib_send_complete: what the core is told of a status; nothing of a flush.
Notified(note, wc_status) ==
    CASE wc_status = "WR_FLUSH_ERR"   -> note
      [] wc_status = "SUCCESS"        -> Append(note, "RDMA_SUCCESS")
      [] wc_status = "REM_ACCESS_ERR" -> Append(note, "RDMA_REMOTE_ERROR")
      [] OTHER                        -> Append(note, "RDMA_OTHER_ERROR")

Released_keep(msg, wc_status) ==
    [msg EXCEPT !.op_mapped = FALSE, !.unmapped = TRUE,
                !.rdma_note = IF msg.kind.rdma > 0 THEN Notified(@, wc_status) ELSE @,
                !.atomic_note = IF msg.kind.atomic THEN Notified(@, wc_status) ELSE @]

\* What rds_ib_send_unmap_rm does to the message.
Released(msg, wc_status) ==
    [msg EXCEPT !.op_mapped = FALSE, !.unmapped = TRUE, !.refs = @ - 1,
                !.rdma_note = IF msg.kind.rdma > 0 THEN Notified(@, wc_status) ELSE @,
                !.atomic_note = IF msg.kind.atomic THEN Notified(@, wc_status) ELSE @]

\* w holds the entries, the messages and whether a NULL message was read.
rds_ib_send_unmap_rm(w, i, wc_status) ==
    IF w.sends[i].s_rm = NULL THEN [w EXCEPT !.oops = TRUE]
    ELSE [w EXCEPT !.rm[w.sends[i].s_rm] = Released(@, wc_status),
                   !.sends[i].s_rm = NULL]

rds_ib_send_init_ring(s) == [i \in Slots |-> [s[i] EXCEPT !.s_rm = NULL, !.s_op = NULL]]

RECURSIVE ClearFrom(_, _)
ClearFrom(w, i) ==
    IF i = W_NR THEN w
    ELSE ClearFrom(IF w.sends[i].s_rm = NULL \/ w.sends[i].opcode = "dead" THEN w
                   ELSE rds_ib_send_unmap_rm(w, i, "WR_FLUSH_ERR"), i + 1)

rds_ib_send_clear_ring(w) == ClearFrom(w, 0)

\* The error of an RDMA operation is told at once; found is whether
\* rds_send_get_message still finds the message of the operation.
ToldAtOnce(w, i, op, wc_status, found) ==
    IF wc_status = "REM_ACCESS_ERR" /\ op # NULL /\ found
    THEN [rds_ib_send_unmap_rm(w, i, wc_status)
             EXCEPT !.rm[op].rdma_note = Notified(@, wc_status)]
    ELSE w

\* The body of the loop of the completion handler for the entry oldest.
Reaped(w, oldest, wc_status, found) ==
    LET s == w.sends[oldest]
        unmapped == IF s.opcode \in {"SEND", "RDMA", "ATOMIC"} /\ s.s_rm # NULL
                    THEN rds_ib_send_unmap_rm(w, oldest, wc_status) ELSE w
    IN  ToldAtOnce([unmapped EXCEPT !.sends[oldest].opcode = "dead"],
                   oldest, s.s_op, wc_status, found)

RECURSIVE ReapedFrom(_, _, _, _, _)
ReapedFrom(w, oldest, completed, wc_status, found) ==
    IF completed = 0 THEN w
    ELSE ReapedFrom(Reaped(w, oldest, wc_status, found), (oldest + 1) % W_NR,
                    completed - 1, wc_status, found)

\* rds_ib_attempt_ack of ib_recv.c: one acknowledgement at a time.
rds_ib_attempt_ack(c, a) ==
    IF c.ACK_REQUESTED /\ ~c.ACK_IN_FLIGHT
    THEN [ic |-> [c EXCEPT !.ACK_IN_FLIGHT = TRUE], ack |-> [a EXCEPT !.pc = "read"]]
    ELSE [ic |-> c, ack |-> a]

\* rds_ib_conn_error: the connection is dropped and the queue pair flushed.
rds_ib_conn_error(c) ==
    IF c.state = "UP" THEN [c EXCEPT !.state = "ERROR", !.qp_err = TRUE] ELSE c

-----------------------------------------------------------------------------
Down == [state |-> "DOWN", SEND_FULL |-> FALSE, i_flowctl |-> FALSE,
         i_credits |-> 0, ring |-> Ring0, i_rm |-> NULL,
         i_unsignaled_wrs |-> MaxUnsig, ACK_REQUESTED |-> FALSE,
         ACK_IN_FLIGHT |-> FALSE, qp_err |-> FALSE]

Snd0 == [pc |-> "idle", m |-> NULL, sg |-> 0, rdma_sent |-> FALSE,
         atomic_sent |-> FALSE, queued |-> 0, pos |-> 0, work_alloc |-> 0,
         credit_alloc |-> 0, adv_credits |-> 0, flow_controlled |-> FALSE,
         call |-> 1, oldval |-> 0]

Ack0 == [pc |-> "idle", oldval |-> 0]
Peer0 == [buf |-> RecvWr, need |-> 0, credits |-> IB_SET_SEND_CREDITS(RecvWr)]

Init ==
    /\ ic = Down /\ sends = [i \in Slots |-> Send0]
    /\ rm = [m \in Ids |-> NoMsg]
    /\ snd = Snd0 /\ ack = Ack0 /\ qp = <<>> /\ cq = <<>> /\ peer = Peer0
    /\ hist = [done |-> 0, pkts |-> 0, bug |-> FALSE, oops |-> FALSE]

\* At most one of the steps of a call fails.
FaultChoice(steps) == {{}} \cup {{x} : x \in Faults \cap steps}

\* The call returns to the core: its locals are gone.
Returned(s) == [Snd0 EXCEPT !.m = s.m, !.sg = s.sg, !.rdma_sent = s.rdma_sent,
                            !.atomic_sent = s.atomic_sent, !.queued = s.queued]

\* What the send loop of the core calls next for its message.
Stage(s) ==
    LET k == rm[s.m].kind
    IN  CASE s.m = NULL -> "none"
          [] k.rdma > 0 /\ ~s.rdma_sent -> "rdma"
          [] k.atomic /\ ~s.atomic_sent -> "atomic"
          [] k.data -> "data"
          [] OTHER -> "done"

\* The core goes on to the next message when nothing of this one is left.
Settled(s) ==
    LET k == rm[s.m].kind
    IN  IF k.data \/ (k.atomic /\ ~s.atomic_sent) THEN s
        ELSE [Snd0 EXCEPT !.queued = s.queued]

Slot(pos, j) == (pos + j) % W_NR

\* The connection comes up: a ring of fresh entries, the credits of the
\* handshake.
Connect ==
    /\ ic.state = "DOWN"
    /\ \E fc \in FlowCtl :
          ic' = [Down EXCEPT !.state = "UP", !.i_flowctl = fc,
                             !.i_credits = IF fc THEN IB_SET_SEND_CREDITS(RecvWr) ELSE 0]
    /\ sends' = rds_ib_send_init_ring([i \in Slots |-> Send0])
    /\ peer' = Peer0
    /\ UNCHANGED <<rm, snd, ack, qp, cq, hist>>

\* rds_sendmsg: the core has a message to send.
Queue ==
    /\ ic.state = "UP" /\ snd.m = NULL /\ snd.queued < MaxMsgs
    /\ \E k \in Kinds :
          /\ snd' = [Snd0 EXCEPT !.m = snd.queued + 1, !.queued = snd.queued + 1]
          /\ rm' = [rm EXCEPT ![snd.queued + 1] = [NoMsg EXCEPT !.kind = k]]
    /\ UNCHANGED <<ic, sends, ack, qp, cq, peer, hist>>

rds_ib_xmit_rdma ==
    /\ ic.state = "UP" /\ snd.pc = "idle" /\ Stage(snd) = "rdma"
    /\ LET k == rm[snd.m].kind
           a == rds_ib_ring_alloc(ic.ring, Ceil(k.rdma, MaxSge))
           u(j) == IF k.notify THEN MaxUnsig ELSE UnsignaledAfter(ic.i_unsignaled_wrs, j)
           built == [i \in Slots |->
                       IF \E j \in 0 .. a.ret - 1 : i = Slot(a.pos, j)
                       THEN [sends[i] EXCEPT !.s_op = snd.m, !.opcode = "RDMA",
                               !.signaled = \E j \in 0 .. a.ret - 1 :
                                   /\ i = Slot(a.pos, j)
                                   /\ Signals(UnsignaledAfter(ic.i_unsignaled_wrs, j), k.notify)]
                       ELSE sends[i]]
       IN  /\ rm' = [rm EXCEPT ![snd.m].op_mapped = TRUE]
           /\ IF a.ret # Ceil(k.rdma, MaxSge)
              THEN /\ ~rm[snd.m].op_mapped
                   /\ UNCHANGED <<ic, sends, snd, qp>>
              ELSE \E f \in FaultChoice({"rdma_post"}) :
                     /\ sends' = built
                     /\ ic' = [ic EXCEPT !.i_unsignaled_wrs = u(a.ret),
                                         !.ring = IF f = {} THEN a.ring ELSE @]
                     /\ qp' = IF f # {} THEN qp
                              ELSE qp \o [j \in 1 .. a.ret |->
                                     [wr_id |-> Slot(a.pos, j - 1), opcode |-> "RDMA",
                                      credit |-> 0,
                                      signaled |-> built[Slot(a.pos, j - 1)].signaled]]
                     /\ snd' = IF f # {} THEN snd
                               ELSE Settled([snd EXCEPT !.rdma_sent = TRUE])
    /\ UNCHANGED <<ack, cq, peer, hist>>

rds_ib_xmit_atomic ==
    /\ ic.state = "UP" /\ snd.pc = "idle" /\ Stage(snd) = "atomic"
    /\ LET k == rm[snd.m].kind
           a == rds_ib_ring_alloc(ic.ring, 1)
           e == [sends[a.pos] EXCEPT
                   !.opcode = "ATOMIC",
                   !.signaled = @ \/ Signals(ic.i_unsignaled_wrs, k.notify),
                   !.s_rm = IF k.rdma = 0 /\ ~k.data THEN snd.m ELSE @]
       IN  /\ a.ret = 1
           /\ \E f \in FaultChoice({"atomic_map", "atomic_post"}) :
                /\ sends' = [sends EXCEPT ![a.pos] = e]
                /\ ic' = [ic EXCEPT
                            !.i_unsignaled_wrs = Unsignaled(@, k.notify),
                            !.ring = IF f = {} THEN a.ring ELSE @]
                /\ qp' = IF f # {} THEN qp
                         ELSE Append(qp, [wr_id |-> a.pos, opcode |-> "ATOMIC",
                                          credit |-> 0, signaled |-> e.signaled])
                /\ snd' = IF f # {} THEN snd
                          ELSE Settled([snd EXCEPT !.atomic_sent = TRUE])
    /\ UNCHANGED <<rm, ack, cq, peer, hist>>

-----------------------------------------------------------------------------
\* rds_ib_xmit, up to the allocation of the entries.
XmitAlloc ==
    /\ ic.state = "UP" /\ snd.pc = "idle" /\ Stage(snd) = "data"
    /\ LET frags == rm[snd.m].kind.frags
           a == rds_ib_ring_alloc(ic.ring, IF frags = 0 THEN 1 ELSE frags)
       IN  /\ ic' = [ic EXCEPT !.ring = a.ring]
           /\ snd' = IF a.ret = 0 THEN [snd EXCEPT !.pc = "full"]
                     ELSE [snd EXCEPT !.pc = IF ic.i_flowctl THEN "read" ELSE "map",
                                      !.pos = a.pos, !.work_alloc = a.ret]
    /\ UNCHANGED <<sends, rm, ack, qp, cq, peer, hist>>

\* The ring was full: the bit is set after the ring was looked at.
XmitRingFull ==
    /\ snd.pc = "full"
    /\ ic' = [ic EXCEPT !.SEND_FULL = TRUE]
    /\ snd' = Returned(snd)
    /\ UNCHANGED <<sends, rm, ack, qp, cq, peer, hist>>

\* rds_ib_send_grab_credits reads the word ...
XmitGrabRead ==
    /\ snd.pc = "read"
    /\ snd' = [snd EXCEPT !.pc = "cas", !.oldval = ic.i_credits]
    /\ UNCHANGED <<ic, sends, rm, ack, qp, cq, peer, hist>>

Credited_keeps_entries(b) ==
    /\ ic' = [ic EXCEPT !.i_credits = b.newval, !.SEND_FULL = @ \/ b.full]
    /\ snd' = IF b.got = 0 THEN Returned(snd)
              ELSE [snd EXCEPT !.pc = "map", !.work_alloc = b.got,
                               !.credit_alloc = b.got, !.adv_credits = b.advertise,
                               !.flow_controlled = b.got < snd.work_alloc]
    /\ hist' = hist

\* The first call of rds_ib_xmit got its credits: the entries it has no
\* credit for go back.
Credited(b) ==
    /\ ic' = [ic EXCEPT !.i_credits = b.newval,
                        !.SEND_FULL = @ \/ b.full,
                        !.ring = IF b.got < snd.work_alloc
                                 THEN rds_ib_ring_unalloc(@, snd.work_alloc - b.got)
                                 ELSE @]
    /\ snd' = IF b.got = 0 THEN Returned(snd)
              ELSE [snd EXCEPT !.pc = "map", !.work_alloc = b.got,
                               !.credit_alloc = b.got, !.adv_credits = b.advertise,
                               !.flow_controlled = b.got < snd.work_alloc]
    /\ hist' = hist

\* The second call took the posted credits for the header.
Advertised(b) ==
    /\ ic' = [ic EXCEPT !.i_credits = b.newval]
    /\ snd' = [snd EXCEPT !.pc = "post", !.adv_credits = @ + b.advertise]
    /\ hist' = [hist EXCEPT !.bug = @ \/ snd.adv_credits + b.advertise > 255]

\* ... and bills what it took, or starts again when the word has changed.
XmitGrabCas ==
    /\ snd.pc = "cas"
    /\ LET b == IF snd.call = 1
                THEN Bill(snd.oldval, snd.work_alloc, FALSE, RDS_MAX_ADV_CREDIT)
                ELSE Bill(snd.oldval, 0, TRUE, RDS_MAX_ADV_CREDIT - snd.adv_credits)
       IN  IF Swapped(ic.i_credits, snd.oldval)
           THEN IF snd.call = 1 THEN Credited(b) ELSE Advertised(b)
           ELSE /\ ic' = [ic EXCEPT !.SEND_FULL = @ \/ b.full]
                /\ snd' = [snd EXCEPT !.pc = "read"]
                /\ hist' = hist
    /\ UNCHANGED <<sends, rm, ack, qp, cq, peer>>

\* The message is mapped the first time it is seen.
XmitMap ==
    /\ snd.pc = "map"
    /\ IF ic.i_rm # NULL
       THEN /\ snd' = [snd EXCEPT !.pc = "post"]
            /\ UNCHANGED <<ic, rm, hist>>
       ELSE \E f \in FaultChoice({"map"}) :
              IF f # {} /\ rm[snd.m].kind.frags > 0
              THEN /\ ic' = [ic EXCEPT !.ring = rds_ib_ring_unalloc(@, snd.work_alloc)]
                   /\ hist' = [hist EXCEPT !.bug = @ \/ snd.adv_credits > 0]
                   /\ snd' = Returned(snd)
                   /\ rm' = rm
              ELSE /\ rm' = [rm EXCEPT ![snd.m].refs = @ + 1]
                   /\ ic' = [ic EXCEPT !.i_rm = snd.m, !.ACK_REQUESTED = FALSE]
                   /\ snd' = [snd EXCEPT !.pc = IF ic.i_flowctl THEN "read" ELSE "post",
                                         !.call = 2]
                   /\ hist' = hist
    /\ UNCHANGED <<sends, ack, qp, cq, peer>>

\* The entries are filled in and posted; what was not used goes back.
XmitPost ==
    /\ snd.pc = "post"
    /\ LET left == rm[snd.m].kind.frags - snd.sg
           n == IF left = 0 THEN 1 ELSE Least(snd.work_alloc, left)
           finished == left <= n
           last == Slot(snd.pos, n - 1)
           built == [i \in Slots |->
                       IF \E j \in 0 .. n - 1 : i = Slot(snd.pos, j)
                       THEN [s_rm |-> IF i = last /\ finished THEN ic.i_rm
                                                              ELSE sends[i].s_rm,
                             s_op |-> NULL, opcode |-> "SEND",
                             signaled |-> \E j \in 0 .. n - 1 :
                                /\ i = Slot(snd.pos, j)
                                /\ \/ UnsignaledAfter(ic.i_unsignaled_wrs, j) = 0
                                   \/ /\ ic.i_flowctl /\ snd.flow_controlled
                                      /\ j = snd.work_alloc - 1]
                       ELSE sends[i]]
           back == IF ic.i_flowctl /\ n < snd.credit_alloc
                   THEN rds_ib_send_add_credits(ic, snd.credit_alloc - n) ELSE ic
           used == [back EXCEPT
                      !.i_unsignaled_wrs = UnsignaledAfter(@, n),
                      !.ring = rds_ib_ring_unalloc(@, snd.work_alloc - n)]
       IN  \E f \in FaultChoice({"post"}) :
             IF f = {}
             THEN /\ sends' = built
                  /\ ic' = [used EXCEPT !.i_rm = IF finished THEN NULL ELSE @]
                  /\ qp' = qp \o [j \in 1 .. n |->
                             [wr_id |-> Slot(snd.pos, j - 1), opcode |-> "SEND",
                              signaled |-> built[Slot(snd.pos, j - 1)].signaled,
                              credit |-> IF j = 1 /\ ic.i_flowctl
                                         THEN snd.adv_credits ELSE 0]]
                  /\ snd' = IF finished THEN [Snd0 EXCEPT !.queued = snd.queued]
                            ELSE [Returned(snd) EXCEPT !.sg = @ + n]
             ELSE /\ sends' = [built EXCEPT ![last].s_rm = NULL]
                  /\ ic' = rds_ib_conn_error(
                             [used EXCEPT !.ring = rds_ib_ring_unalloc(@, n),
                                          !.i_rm = IF built[last].s_rm # NULL
                                                   THEN built[last].s_rm ELSE @])
                  /\ qp' = qp
                  /\ snd' = Returned(snd)
    /\ UNCHANGED <<rm, ack, cq, peer, hist>>

-----------------------------------------------------------------------------
\* rds_ib_xmit_complete: the send loop is done and tries a waiting
\* acknowledgement.
rds_ib_xmit_complete ==
    /\ ic.state = "UP" /\ snd.pc = "idle"
    /\ ic.ACK_REQUESTED /\ ~ic.ACK_IN_FLIGHT
    /\ ic' = rds_ib_attempt_ack(ic, ack).ic
    /\ ack' = rds_ib_attempt_ack(ic, ack).ack
    /\ UNCHANGED <<sends, rm, snd, qp, cq, peer, hist>>

AckWr(credit) == [wr_id |-> ACK, opcode |-> "SEND", signaled |-> TRUE, credit |-> credit]

\* The acknowledgement asks for its credit; without flow control it has it.
AckGrabRead ==
    /\ ack.pc = "read"
    /\ IF ic.i_flowctl
       THEN /\ ack' = [pc |-> "cas", oldval |-> ic.i_credits]
            /\ UNCHANGED <<ic, qp>>
       ELSE /\ ack' = Ack0
            /\ ic' = [ic EXCEPT !.ACK_REQUESTED = FALSE]
            /\ qp' = Append(qp, AckWr(0))
    /\ UNCHANGED <<sends, rm, snd, cq, peer, hist>>

AckGrabCas ==
    /\ ack.pc = "cas"
    /\ LET b == Bill(ack.oldval, 1, FALSE, RDS_MAX_ADV_CREDIT)
       IN  IF ~Swapped(ic.i_credits, ack.oldval)
           THEN /\ ic' = [ic EXCEPT !.SEND_FULL = @ \/ b.full]
                /\ ack' = [ack EXCEPT !.pc = "read"]
                /\ qp' = qp
           ELSE /\ ack' = Ack0
                /\ ic' = [ic EXCEPT !.i_credits = b.newval,
                                    !.SEND_FULL = @ \/ b.full,
                                    !.ACK_IN_FLIGHT = b.got # 0,
                                    !.ACK_REQUESTED = @ /\ b.got = 0]
                /\ qp' = IF b.got = 0 THEN qp ELSE Append(qp, AckWr(b.advertise))
    /\ UNCHANGED <<sends, rm, snd, cq, peer, hist>>

\* One completion of rds_ib_send_cq_comp_handler.
rds_ib_send_cq_comp_handler ==
    /\ cq # <<>>
    /\ cq' = Tail(cq)
    /\ LET wc == Head(cq)
           oldest == ic.ring.w_free_ptr
           completed == rds_ib_ring_completed(wc.wr_id, oldest)
       IN  IF wc.wr_id = ACK
           THEN /\ ic' = rds_ib_attempt_ack([ic EXCEPT !.ACK_IN_FLIGHT = FALSE], ack).ic
                /\ ack' = rds_ib_attempt_ack([ic EXCEPT !.ACK_IN_FLIGHT = FALSE], ack).ack
                /\ UNCHANGED <<sends, rm, hist>>
           ELSE \E found \in IF wc.status = "REM_ACCESS_ERR" THEN BOOLEAN ELSE {FALSE} :
                  \E w \in {ReapedFrom([sends |-> sends, rm |-> rm, oops |-> hist.oops],
                                       oldest, completed, wc.status, found)} :
                     /\ sends' = w.sends /\ rm' = w.rm
                     /\ hist' = [hist EXCEPT !.oops = w.oops, !.done = @ - completed]
                     /\ ic' = LET freed == [ic EXCEPT
                                              !.ring = rds_ib_ring_free(@, completed),
                                              !.SEND_FULL = FALSE]
                              IN  IF wc.status # "SUCCESS"
                                  THEN rds_ib_conn_error(freed) ELSE freed
                     /\ ack' = ack
    /\ UNCHANGED <<snd, qp, peer>>

-----------------------------------------------------------------------------
\* The adapter executes the oldest work request.  A SEND waits for a
\* buffer of the peer; only a signalled or failed request is reported.
Statuses(wr) ==
    CASE ic.qp_err -> {"WR_FLUSH_ERR"}
      [] wr.opcode = "SEND" -> {"SUCCESS"}
      [] OTHER -> {"SUCCESS"} \cup
                  (IF "rem_access" \in Faults THEN {"REM_ACCESS_ERR"} ELSE {})

HwExecute ==
    /\ qp # <<>>
    /\ LET wr == Head(qp)
       IN  \E status \in Statuses(wr) :
             /\ status = "SUCCESS" /\ wr.opcode = "SEND" => peer.buf > 0
             /\ qp' = Tail(qp)
             /\ cq' = IF wr.signaled \/ status # "SUCCESS"
                      THEN Append(cq, [wr_id |-> wr.wr_id, status |-> status])
                      ELSE cq
             /\ peer' = IF status = "SUCCESS" /\ wr.opcode = "SEND"
                        THEN [peer EXCEPT
                                !.buf = @ - 1, !.need = @ + 1,
                                !.credits = atomic_add(IB_SET_SEND_CREDITS(wr.credit), @)]
                        ELSE peer
             /\ ic' = [ic EXCEPT !.qp_err = @ \/ status # "SUCCESS"]
             /\ hist' = [hist EXCEPT !.done = IF wr.wr_id = ACK THEN @ ELSE @ + 1]
    /\ UNCHANGED <<sends, rm, snd, ack>>

\* The peer posts its buffers again and owes the credits for them.
PeerRefill ==
    /\ peer.need > 0
    /\ peer' = [peer EXCEPT !.buf = @ + peer.need, !.need = 0,
                            !.credits = atomic_add(IB_SET_POST_CREDITS(peer.need), @)]
    /\ UNCHANGED <<ic, sends, rm, snd, ack, qp, cq, hist>>

\* A packet of the peer arrives: it cost the peer a credit and carries the
\* credits the peer owed.  The receive path adds them, posts the buffer
\* again (rds_ib_advertise_credits) and notes the acknowledgement the
\* packet asks for.
Arrives(ackreq) ==
    LET b == Bill(peer.credits, 1, FALSE, RDS_MAX_ADV_CREDIT)
        added == rds_ib_send_add_credits(ic, b.advertise)
    IN  /\ ic.state = "UP" /\ b.got = 1
        /\ peer' = [peer EXCEPT !.credits = b.newval]
        /\ ic' = [(IF ic.i_flowctl THEN rds_ib_advertise_credits(added, 1) ELSE ic)
                    EXCEPT !.ACK_REQUESTED = @ \/ ackreq]
        /\ UNCHANGED <<sends, rm, snd, ack, qp, cq>>

PeerPacket ==
    /\ hist.pkts < MaxPeerPkts
    /\ \E ackreq \in AckReq : Arrives(ackreq)
    /\ hist' = [hist EXCEPT !.pkts = @ + 1]

\* The peer sends its credit update when it owes enough.
PeerUpdate ==
    /\ IB_GET_POST_CREDITS(peer.credits) >= AckAt
    /\ Arrives(FALSE)
    /\ hist' = hist

\* The receive path tries the acknowledgement it was asked for.
RecvAttemptAck ==
    /\ ic.state = "UP" /\ ic.ACK_REQUESTED /\ ~ic.ACK_IN_FLIGHT
    /\ ic' = rds_ib_attempt_ack(ic, ack).ic
    /\ ack' = rds_ib_attempt_ack(ic, ack).ack
    /\ UNCHANGED <<sends, rm, snd, qp, cq, peer, hist>>

\* rds_ib_conn_shutdown, once the send path is quiet: the ring is cleared
\* and the message in transmission let go.
Shutdown ==
    /\ ic.state = "ERROR" /\ snd.pc = "idle" /\ ack.pc = "idle"
    /\ qp = <<>> /\ cq = <<>>
    /\ \E w \in {rds_ib_send_clear_ring([sends |-> sends, rm |-> rm, oops |-> hist.oops])} :
          /\ sends' = w.sends
          /\ rm' = IF ic.i_rm = NULL THEN w.rm
                   ELSE [w.rm EXCEPT ![ic.i_rm].refs = @ - 1]
          /\ hist' = [hist EXCEPT !.oops = w.oops, !.done = 0]
    /\ ic' = Down /\ peer' = Peer0
    /\ snd' = [Snd0 EXCEPT !.queued = snd.queued]
    /\ UNCHANGED <<ack, qp, cq>>

Next ==
    \/ Connect \/ Queue
    \/ rds_ib_xmit_rdma \/ rds_ib_xmit_atomic
    \/ XmitAlloc \/ XmitRingFull \/ XmitGrabRead \/ XmitGrabCas \/ XmitMap \/ XmitPost
    \/ rds_ib_xmit_complete \/ RecvAttemptAck \/ AckGrabRead \/ AckGrabCas
    \/ rds_ib_send_cq_comp_handler \/ HwExecute
    \/ PeerRefill \/ PeerUpdate \/ PeerPacket
    \/ Shutdown

\* A call of the send path that has started goes on, and the core calls
\* again for a message it has left.
XmitStep ==
    \/ rds_ib_xmit_rdma \/ rds_ib_xmit_atomic
    \/ XmitAlloc \/ XmitRingFull \/ XmitGrabRead \/ XmitGrabCas \/ XmitMap \/ XmitPost

AckStep == rds_ib_xmit_complete \/ RecvAttemptAck \/ AckGrabRead \/ AckGrabCas

\* Every context is scheduled again and again: the send loop of the core,
\* the tasklet of the completion queue, the adapter, the receive paths of
\* both ends and the worker that shuts the connection down and connects
\* again.  The loop around atomic_cmpxchg is lock-free and not wait-free:
\* that a caller is not overtaken for ever is the strong fairness of the
\* swap that succeeds.
Fairness ==
    /\ WF_vars(XmitStep) /\ WF_vars(AckStep)
    /\ WF_vars(rds_ib_send_cq_comp_handler) /\ WF_vars(HwExecute)
    /\ WF_vars(PeerRefill) /\ WF_vars(PeerUpdate)
    /\ WF_vars(Shutdown) /\ WF_vars(Connect)

Spec == Init /\ [][Next]_vars /\ Fairness

-----------------------------------------------------------------------------
Msg == [kind : [data : BOOLEAN, frags : Nat, rdma : Nat, atomic : BOOLEAN,
                notify : BOOLEAN],
        refs : 0 .. 1, op_mapped : BOOLEAN, unmapped : BOOLEAN,
        rdma_note : Seq({"RDMA_SUCCESS", "RDMA_REMOTE_ERROR", "RDMA_OTHER_ERROR"}),
        atomic_note : Seq({"RDMA_SUCCESS", "RDMA_REMOTE_ERROR", "RDMA_OTHER_ERROR"})]

\* The values are of their types: the counters of the ring and of the
\* credits stay in their ranges (rds_ib_ring_free never gives back more than
\* is in use), the transport holds at most one reference of a message, and
\* the calls of rds_ib_xmit leave their locals behind when they return.
TypeOK ==
    /\ ic \in [state : {"DOWN", "UP", "ERROR"}, SEND_FULL : BOOLEAN,
               i_flowctl : BOOLEAN, i_credits : 0 .. Half * Half - 1,
               ring : [w_alloc_ptr : Slots, w_free_ptr : Slots, w_used : 0 .. W_NR],
               i_rm : Ids \cup {NULL}, i_unsignaled_wrs : 0 .. MaxUnsig,
               ACK_REQUESTED : BOOLEAN, ACK_IN_FLIGHT : BOOLEAN,
               qp_err : BOOLEAN]
    /\ sends \in [Slots -> [s_rm : Ids \cup {NULL}, s_op : Ids \cup {NULL},
                            opcode : {"none", "SEND", "RDMA", "ATOMIC", "dead"},
                            signaled : BOOLEAN]]
    /\ rm \in [Ids -> Msg]
    /\ snd \in [pc : {"idle", "full", "read", "cas", "map", "post"},
                m : Ids \cup {NULL}, sg : Nat, rdma_sent : BOOLEAN,
                atomic_sent : BOOLEAN, queued : 0 .. MaxMsgs, pos : Slots,
                work_alloc : 0 .. W_NR, credit_alloc : 0 .. W_NR,
                adv_credits : 0 .. RDS_MAX_ADV_CREDIT, flow_controlled : BOOLEAN,
                call : 1 .. 2, oldval : 0 .. Half * Half - 1]
    /\ snd.pc = "idle" => snd.work_alloc = 0 /\ snd.credit_alloc = 0
    /\ ack \in [pc : {"idle", "read", "cas"}, oldval : 0 .. Half * Half - 1]
    /\ qp \in Seq([wr_id : Slots \cup {ACK}, opcode : {"SEND", "RDMA", "ATOMIC"},
                   signaled : BOOLEAN, credit : 0 .. RDS_MAX_ADV_CREDIT])
    /\ cq \in Seq([wr_id : Slots \cup {ACK},
                   status : {"SUCCESS", "WR_FLUSH_ERR", "REM_ACCESS_ERR"}])
    /\ peer \in [buf : 0 .. RecvWr, need : 0 .. RecvWr, credits : 0 .. Half * Half - 1]
    /\ hist \in [done : 0 .. W_NR, pkts : 0 .. MaxPeerPkts, bug : BOOLEAN, oops : BOOLEAN]

\* The SENDs and acknowledgements in the queue pair.
Sending == {i \in DOMAIN qp : qp[i].opcode = "SEND"}

\* The entries of the ring in the queue pair.
Posted == {i \in DOMAIN qp : qp[i].wr_id # ACK}

\* With flow control the receive queue of the peer is never overrun: the
\* credits in i_credits, the credits rds_ib_xmit holds between
\* rds_ib_send_grab_credits and ib_post_send, and the SENDs posted are
\* together no more than the buffers the peer has posted, although the send
\* path, the acknowledgement and the receive path change the word at once.
CreditsBacked ==
    ic.i_flowctl =>
        IB_GET_SEND_CREDITS(ic.i_credits) + snd.credit_alloc + Cardinality(Sending)
            <= peer.buf

\* The alloc and unalloc of the send path and the free of the completion
\* handler keep the ring in step (the comment above
\* rds_ib_send_cq_comp_handler): the entries in use are those the adapter
\* has executed, those posted, in the order of the ring, and those
\* rds_ib_xmit holds, and nothing else.
RingAccounted ==
    /\ ic.ring.w_used = hist.done + Cardinality(Posted) + snd.work_alloc
    /\ ic.ring.w_alloc_ptr = Slot(ic.ring.w_free_ptr, ic.ring.w_used)
    /\ \A i \in Posted :
          qp[i].wr_id = Slot(ic.ring.w_free_ptr,
                             hist.done + Cardinality({j \in Posted : j < i}))

\* Every reference rds_ib_xmit takes of a message is held by i_rm or by
\* exactly one entry of the ring, until rds_ib_send_unmap_rm puts it: no
\* message is released twice by a reused entry, and none is left behind by
\* a failed post or by rds_ib_send_clear_ring.
TransportRefsBalanced ==
    \A m \in Ids :
        rm[m].refs = (IF ic.i_rm = m THEN 1 ELSE 0)
                     + Cardinality({i \in Slots : sends[i].s_rm = m})

\* No message waits for ever in the send path: with the credit the code
\* keeps back for the side that has credits to advertise, and the
\* acknowledgement rds_ib_advertise_credits asks for, the two ends never
\* wait for each other's credits, and the completion handler frees the ring
\* for the caller that found it full.  A message leaves the send path when
\* its last fragment is posted, or when the connection is shut down.
EveryMessagePosted == \A m \in Ids : (snd.m = m) ~> (snd.m # m)

\* rds_ib_send_unmap_rm reads the message of the entry it is given: its
\* callers in the completion handler and in rds_ib_send_clear_ring test
\* s_rm first, and no call passes an entry without a message.
NeverUnmapsNull == ~hist.oops

\* BUG_ON(adv_credits) at the end of rds_ib_xmit and BUG_ON(adv_credits >
\* 255): the posted credits a call has taken from i_credits have gone into
\* a header when the call returns.
AdvertisedCreditsSent == ~hist.bug

=============================================================================
