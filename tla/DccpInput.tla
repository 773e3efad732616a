----------------------------- MODULE DccpInput -----------------------------
(***************************************************************************)
(* The receive path of a DCCP socket: net/dccp/input.c, with the window    *)
(* updates dccp_update_gsr and dccp_update_gss and dccp_set_state of       *)
(* net/dccp/dccp.h.                                                        *)
(*                                                                         *)
(* One socket is modelled.  Its peer and the network are the environment:  *)
(* any packet type with a sequence number near the window and an           *)
(* acknowledgement number near what was sent may arrive at any time, which *)
(* covers loss, reordering, duplication and forged packets.  The socket    *)
(* lock makes the processing of one packet atomic, so one packet is one    *)
(* step.                                                                   *)
(*                                                                         *)
(* Each C function is an operator from a context c to the context it       *)
(* leaves.  c.sk is the socket; c.fx collects what the call did to the     *)
(* packet and to the world outside the socket (packets sent, the skb       *)
(* queued or freed, the CCID called, assertions tripped); c.ret is the     *)
(* value of the last return statement.                                     *)
(***************************************************************************)
EXTENDS SeqArith, Sequences

CONSTANTS
    W,              \* dccpo_sequence_window
    SendAckVector,  \* dccpo_send_ack_vector
    ISS,            \* initial sequence number this socket sends
    ISR,            \* initial sequence number the peer sends
    MaxSent,        \* the socket sends at most this many packets
    Span,           \* the peer sends sequence numbers ISR .. ISR + Span
    Fwd, Back,      \* how far from GSR an arriving sequence number may be
    AckFwd, AckBack,\* how far from GSS an arriving acknowledgement may be
    Types           \* the packet types that arrive

ASSUME /\ W \in Nat \ {0}
       /\ SendAckVector \in BOOLEAN
       /\ ISS \in SeqNo /\ ISR \in SeqNo
       /\ MaxSent \in 1 .. SeqMod \div 2 - 1
       /\ Span \in 1 .. SeqMod \div 2 - 1
       /\ {Fwd, Back, AckFwd, AckBack} \subseteq Nat
       /\ PadBits >= 2
       /\ Types \subseteq {"REQUEST", "RESPONSE", "DATA", "ACK", "DATAACK",
                          "CLOSEREQ", "CLOSE", "RESET", "SYNC", "SYNCACK"}

VARIABLES
    sk,     \* struct sock with its struct dccp_sock
    out     \* the type of the last packet, what the call did and returned

vars == <<sk, out>>

PktTypes == {"REQUEST", "RESPONSE", "DATA", "ACK", "DATAACK",
             "CLOSEREQ", "CLOSE", "RESET", "SYNC", "SYNCACK"}

States == {"CLOSED", "LISTEN", "REQUESTING", "RESPOND", "PARTOPEN",
           "OPEN", "CLOSING", "TIME_WAIT"}

Roles == {"UNDEFINED", "LISTEN", "CLIENT", "SERVER"}

DCCP_PKT_WITHOUT_ACK_SEQ == U64(DCCP_MAX_SEQNO * 4)

\* nothing done yet to the packet in hand
NoFx == [sent |-> <<>>, queued |-> 0, freed |-> 0, ccid |-> 0,
         valid |-> FALSE, trap |-> FALSE, warn |-> FALSE, woken |-> FALSE]

Ret(c, v) == [c EXCEPT !.ret = v]

-----------------------------------------------------------------------------
(* dccp.h *)

dccp_packet_without_ack(skb) == skb.type \in {"DATA", "REQUEST"}

\* WARN_ON(state == oldstate); the MIB counters and the hash tables are left out
dccp_set_state(c, state) ==
    [c EXCEPT !.sk.state = state,
              !.fx.warn  = @ \/ state = c.sk.state]

\* Mutant: the upper edge of the window is not wrapped to 48 bits.
dccp_update_gsr_nowrap(s, seq) ==
    LET tmp_gsr == dccp_set_seqno(U64(s.gsr + 1 - W \div 4))
    IN  [s EXCEPT !.gsr = seq,
                  !.swl = dccp_set_seqno(max48(tmp_gsr, s.isr)),
                  !.swh = U64(seq + (3 * W) \div 4)]

\* tmp_gsr is computed from the GSR the call replaces; the u64 subtraction
\* may wrap, and dccp_set_seqno takes 2^48 off once
dccp_update_gsr(s, seq) ==
    LET tmp_gsr == dccp_set_seqno(U64(s.gsr + 1 - W \div 4))
    IN  [s EXCEPT !.gsr = seq,
                  !.swl = dccp_set_seqno(max48(tmp_gsr, s.isr)),
                  !.swh = dccp_set_seqno(U64(seq + (3 * W) \div 4))]

dccp_update_gss(s, seq) ==
    LET tmp_gss == dccp_set_seqno(U64(s.gss - W + 1))
    IN  [s EXCEPT !.awl = max48(tmp_gss, s.iss),
                  !.awh = seq,
                  !.gss = seq]

-----------------------------------------------------------------------------
(* What input.c calls and src/ does not hold.  Written from the comments   *)
(* of input.c and the draft they quote.                                    *)

\* dccp_transmit_skb: a packet leaves with the next sequence number
Transmit(c, type, ackno) ==
    [c EXCEPT !.sk      = dccp_update_gss(c.sk, dccp_inc_seqno(c.sk.gss)),
              !.fx.sent = Append(@, type)]

dccp_send_sync(c, seq) == Transmit(c, "SYNC", seq)
dccp_send_ack(c)       == Transmit(c, "ACK", c.sk.gsr)
dccp_send_close(c)     == Transmit(c, "CLOSE", c.sk.gsr)
dccp_v4_send_reset(c)  == Transmit(c, "RESET", c.sk.gsr)

\* "S.state := TIMEWAIT, Set TIMEWAIT timer" (Step 9)
dccp_time_wait(c) ==
    [c EXCEPT !.sk.state = "TIME_WAIT", !.sk.retrans = FALSE, !.sk.dack = FALSE,
              !.sk.ack_sched = FALSE]

\* inet_csk_clear_xmit_timer(sk, ICSK_TIME_DACK) also forgets the pending ack
ClearDack(c) == [c EXCEPT !.sk.dack = FALSE, !.sk.ack_sched = FALSE]

\* inet_csk_schedule_ack and inet_csk_reset_xmit_timer(sk, ICSK_TIME_DACK, ..)
ScheduleAck(c) == [c EXCEPT !.sk.dack = TRUE, !.sk.ack_sched = TRUE]

\* ccid_hc_rx_packet_recv and ccid_hc_tx_packet_recv
CcidPacketRecv(c) == [c EXCEPT !.fx.ccid = @ + 1]

\* __kfree_skb(skb)
Free(c) == [c EXCEPT !.fx.freed = @ + 1]

\* __skb_queue_tail(&sk->sk_receive_queue, skb) and sk_data_ready
Queue(c) == [c EXCEPT !.fx.queued = @ + 1]


\* dccp_ackpkts_check_rcv_ackno: the peer has seen the ack vector sent with
\* sequence number dccpap_ack_seqno
dccp_ackpkts_check_rcv_ackno(c, ackno) ==
    IF c.sk.ap_ack_seqno = ackno
    THEN [c EXCEPT !.sk.ap_ack_seqno = DCCP_MAX_SEQNO + 1]
    ELSE c

-----------------------------------------------------------------------------
(* input.c *)

dccp_fin(c) ==
    Queue([c EXCEPT !.sk.shutdown = TRUE, !.sk.done = TRUE])

dccp_rcv_close(c) ==
    IF c.sk.state \in {"PARTOPEN", "OPEN"}
    THEN dccp_set_state(dccp_fin(dccp_v4_send_reset(c)), "CLOSED")
    ELSE c

\* Mutant: a server obeys a CloseReq as a client does.
dccp_rcv_closereq_anyrole(c, skb) ==
    IF c.sk.state \in {"PARTOPEN", "OPEN"}
    THEN dccp_send_close(dccp_set_state(c, "CLOSING"))
    ELSE c

dccp_rcv_closereq(c, skb) ==
    CASE c.sk.role # "CLIENT" -> dccp_send_sync(c, skb.seq)
      [] c.sk.role = "CLIENT" /\ c.sk.state \in {"PARTOPEN", "OPEN"} ->
            dccp_send_close(dccp_set_state(c, "CLOSING"))
      [] OTHER -> c

dccp_event_ack_recv(c, skb) ==
    IF SendAckVector THEN dccp_ackpkts_check_rcv_ackno(c, skb.ack) ELSE c

\* the second half of Step 6: S.GAR follows every packet but a Sync
UpdateGar(s, skb) ==
    IF skb.type # "SYNC" /\ skb.ack # DCCP_PKT_WITHOUT_ACK_SEQ
    THEN [s EXCEPT !.gar = skb.ack] ELSE s

IsSync(skb)    == skb.type \in {"SYNC", "SYNCACK"}
IsClosing(skb) == skb.type \in {"CLOSEREQ", "CLOSE", "RESET"}

\* Step 5: the test a Sync or SyncAck has to pass before anything is updated
Step5Valid(s, skb) ==
    /\ between48(skb.ack, s.awl, s.awh)
    /\ ~before48(skb.seq, s.swl)

\* Mutant: the acknowledgement number is not looked at.
Step6Valid_noack(s, s5, skb) ==
    LET lswl == IF IsClosing(skb) THEN dccp_inc_seqno(s.gsr) ELSE s.swl
    IN  between48(skb.seq, lswl, s5.swh)

\* Step 6, with LSWL and LAWL read from s and SWH, AWH read from s5, the
\* socket after Step 5
Step6Valid(s, s5, skb) ==
    LET lswl == IF IsClosing(skb) THEN dccp_inc_seqno(s.gsr) ELSE s.swl
        lawl == IF IsClosing(skb) THEN s.gar ELSE s.awl
    IN  /\ between48(skb.seq, lswl, s5.swh)
        /\ \/ skb.ack = DCCP_PKT_WITHOUT_ACK_SEQ
           \/ between48(skb.ack, lawl, s5.awh)

\* Mutant: LSWL is read after Step 5 has moved the window.
dccp_check_seqno_reread(c, skb) ==
    LET s  == c.sk
        s5 == IF IsSync(skb) THEN dccp_update_gsr(s, skb.seq) ELSE s
    IN  CASE IsSync(skb) /\ ~Step5Valid(s, skb) -> Ret(c, -1)
          [] (IsSync(skb) => Step5Valid(s, skb)) /\ Step6Valid(s5, s5, skb) ->
                Ret([c EXCEPT !.sk = UpdateGar(dccp_update_gsr(s5, skb.seq), skb),
                              !.fx.valid = TRUE], 0)
          [] OTHER ->
                Ret(dccp_send_sync([c EXCEPT !.sk = s5], skb.seq), -1)

\* lswl and lawl are read when the function is entered, SWH and AWH when
\* Step 6 is reached
dccp_check_seqno(c, skb) ==
    LET s  == c.sk
        s5 == IF IsSync(skb) THEN dccp_update_gsr(s, skb.seq) ELSE s
    IN  CASE IsSync(skb) /\ ~Step5Valid(s, skb) -> Ret(c, -1)
          [] (IsSync(skb) => Step5Valid(s, skb)) /\ Step6Valid(s, s5, skb) ->
                Ret([c EXCEPT !.sk = UpdateGar(dccp_update_gsr(s5, skb.seq), skb),
                              !.fx.valid = TRUE], 0)
          [] OTHER ->
                Ret(dccp_send_sync([c EXCEPT !.sk = s5], skb.seq), -1)

\* the label discard: and the statements behind it
Discard(c) == Ret(Free(c), 0)

\* Step 7 of dccp_rcv_established: the cases REQUEST and RESPONSE of the switch
UnexpectedInOpen(c, skb) ==
    LET role_ok == IF skb.type = "REQUEST" THEN c.sk.role = "LISTEN"
                                           ELSE c.sk.role = "CLIENT"
    IN  IF ~role_ok \/ ~before48(skb.seq, c.sk.osr)
        THEN dccp_send_sync(c, skb.seq) ELSE c

\* the switch on the packet type that ends dccp_rcv_established
DeliverByType(c, skb) ==
    CASE skb.type \in {"DATAACK", "DATA"} -> Ret(Queue(c), 0)
      [] skb.type = "ACK"      -> Discard(c)
      [] skb.type = "RESET"    -> Ret(dccp_time_wait(dccp_fin(c)), 0)
      [] skb.type = "CLOSEREQ" -> Discard(dccp_rcv_closereq(c, skb))
      [] skb.type = "CLOSE"    -> Ret(dccp_rcv_close(c), 0)
      [] skb.type \in {"REQUEST", "RESPONSE"} ->
            Discard(UnexpectedInOpen(c, skb))
      [] OTHER -> Discard(c)

\* dccp_event_ack_recv is called for a packet that carries an
\* acknowledgement number
AckRecv(c, skb) ==
    IF skb.ack # DCCP_PKT_WITHOUT_ACK_SEQ THEN dccp_event_ack_recv(c, skb) ELSE c

\* dccp_rcv_established after its two tests: c is what dccp_check_seqno left
\* full: dccp_ackpkts_add finds its buffer full
EstablishedAccept(c, skb, full) ==
    LET c2 == AckRecv(c, skb)
        c3 == IF SendAckVector /\ ~c2.sk.ack_sched THEN ScheduleAck(c2) ELSE c2
    IN  IF SendAckVector /\ full
        THEN Discard(ScheduleAck(
                 [c2 EXCEPT !.sk.ap_ack_seqno = DCCP_MAX_SEQNO + 1]))
        ELSE DeliverByType(CcidPacketRecv(c3), skb)

\* c1: what dccp_check_seqno left;  optbad: dccp_parse_options rejects the
\* packet
EstablishedChecked(c1, skb, optbad, full) ==
    IF c1.ret # 0 \/ optbad THEN Discard(c1)
    ELSE EstablishedAccept(c1, skb, full)

dccp_rcv_established(c, skb, optbad, full) ==
    EstablishedChecked(dccp_check_seqno(c, skb), skb, optbad, full)

\* sk->sk_state_change(sk) and sk_wake_async
Wake(c) == [c EXCEPT !.fx.woken = TRUE]

\* Step 4 and Step 10.  The REQUEST timer is stopped and the Request freed
\* before the acknowledgement number is looked at.
\* ccidfail: ccid_hc_rx_init or ccid_hc_tx_init fails
\* saveack:  sk_write_pending, pingpong or defer_accept is set
dccp_rcv_request_sent_state_process(c, skb, ccidfail, saveack) ==
    LET c1 == [c EXCEPT !.sk.retrans   = FALSE,
                        !.fx.trap      = @ \/ ~c.sk.send_head,
                        !.sk.send_head = FALSE]
        c2 == [c1 EXCEPT !.sk = dccp_update_gsr([c1.sk EXCEPT !.isr = skb.seq],
                                                skb.seq),
                         !.fx.valid = TRUE]
        c3 == Wake(dccp_set_state(c2, "PARTOPEN"))
    IN  IF skb.type # "RESPONSE" THEN Ret(c, 1)
        ELSE IF ~between48(skb.ack, c.sk.awl, c.sk.awh) THEN Ret(c1, 1)
        ELSE IF ccidfail THEN Ret(c2, 1)
        ELSE IF saveack THEN Ret(Free(c3), 0)
        ELSE Ret(dccp_send_ack(c3), -1)

\* Mutant: the result of dccp_rcv_established is taken for `not queued'.
dccp_rcv_respond_partopen_state_process_q0(c, skb, optbad, full) ==
    CASE skb.type = "RESET" -> Ret(ClearDack(c), 0)
      [] skb.type \in {"DATAACK", "ACK"} ->
            LET c1 == IF c.sk.state = "PARTOPEN" THEN ClearDack(c) ELSE c
                c2 == dccp_set_state([c1 EXCEPT !.sk.osr = skb.seq], "OPEN")
            IN  IF skb.type = "DATAACK"
                THEN Ret(dccp_rcv_established(c2, skb, optbad, full), 0)
                ELSE Ret(c2, 0)
      [] OTHER -> Ret(c, 0)

dccp_rcv_respond_partopen_state_process(c, skb, optbad, full) ==
    CASE skb.type = "RESET" -> Ret(ClearDack(c), 0)
      [] skb.type \in {"DATAACK", "ACK"} ->
            LET c1 == IF c.sk.state = "PARTOPEN" THEN ClearDack(c) ELSE c
                c2 == dccp_set_state([c1 EXCEPT !.sk.osr = skb.seq], "OPEN")
            IN  IF skb.type = "DATAACK"
                THEN Ret(dccp_rcv_established(c2, skb, optbad, full), 1)
                ELSE Ret(c2, 0)
      [] OTHER -> Ret(c, 0)

\* Step 7 of dccp_rcv_state_process
UnexpectedType(s, skb) ==
    \/ s.role # "CLIENT" /\ skb.type \in {"RESPONSE", "CLOSEREQ"}
    \/ s.role = "CLIENT" /\ skb.type = "REQUEST"
    \/ s.state = "RESPOND" /\ skb.type = "DATA"

\* Step 3: a listening socket.  connfail: dccp_v4_conn_request fails
ProcessListen(c, skb, connfail) ==
    CASE skb.type = "REQUEST" -> IF connfail THEN Ret(c, 1) ELSE Discard(c)
      [] skb.type = "RESET"   -> Discard(c)
      [] OTHER                -> Ret(c, 1)

\* "if (queued >= 0) return queued; __kfree_skb(skb); return 0"
ReturnOrFree(q) == IF q.ret >= 0 THEN q ELSE Discard(q)

\* "if (!queued) discard: __kfree_skb(skb); return 0", after the wake-up of
\* a socket that was in PARTOPEN
FreeUnlessQueued(q, skb, old_state) ==
    LET woken == skb.type \in {"ACK", "DATAACK"} /\ old_state = "PARTOPEN"
    IN  [q EXCEPT !.fx.woken = @ \/ woken,
                  !.fx.freed = IF q.ret = 0 THEN @ + 1 ELSE @,
                  !.ret      = 0]

\* Step 9, Step 7 and the switch on the state
\* ch: what the functions outside src/ answer during this call
ProcessByState(c, skb, old_state, ch) ==
    CASE skb.type = "RESET" -> Ret(dccp_time_wait(dccp_fin(c)), 0)
      [] skb.type # "RESET" /\ UnexpectedType(c.sk, skb) ->
            Discard(dccp_send_sync(c, skb.seq))
      [] OTHER ->
            CASE old_state = "CLOSED" -> Ret(c, 1)
              [] old_state = "REQUESTING" ->
                    ReturnOrFree(dccp_rcv_request_sent_state_process(
                                     c, skb, ch.ccidfail, ch.saveack))
              [] old_state \in {"RESPOND", "PARTOPEN"} ->
                    FreeUnlessQueued(dccp_rcv_respond_partopen_state_process(
                                         c, skb, ch.optbad, ch.full2),
                                     skb, old_state)
              [] OTHER -> Discard(c)

\* the packet has passed dccp_check_seqno and dccp_parse_options: the
\* acknowledgement, the CCID, then the ack vector
ProcessAccepted(c, skb, old_state, ch) ==
    LET c2 == CcidPacketRecv(AckRecv(c, skb))
        c3 == IF c2.sk.ap_ack_seqno = DCCP_MAX_SEQNO + 1 /\ ~c2.sk.ack_sched
              THEN ScheduleAck(c2) ELSE c2
    IN  CASE ~SendAckVector -> ProcessByState(c2, skb, old_state, ch)
          [] SendAckVector /\ ch.full -> Discard(c2)
          [] OTHER -> ProcessByState(c3, skb, old_state, ch)

\* c1: what dccp_check_seqno left
ProcessChecked(c1, skb, old_state, ch) ==
    IF c1.ret # 0 \/ ch.optbad THEN Discard(c1)
    ELSE ProcessAccepted(c1, skb, old_state, ch)

dccp_rcv_state_process(c, skb, ch) ==
    CASE c.sk.state = "LISTEN" -> ProcessListen(c, skb, ch.connfail)
      [] c.sk.state = "REQUESTING" -> ProcessByState(c, skb, c.sk.state, ch)
      [] OTHER -> ProcessChecked(dccp_check_seqno(c, skb), skb, c.sk.state, ch)

-----------------------------------------------------------------------------
(* The socket and its callers.  The callers are not in src/: they are      *)
(* written from the comments of input.c that name them.                    *)

\* a socket as sk_alloc leaves it; dccp_ackpkts_alloc sets the ack sequence
\* number to "none"
Fresh ==
    [state |-> "CLOSED", role |-> "UNDEFINED",
     iss |-> 0, gss |-> 0, awl |-> 0, awh |-> 0, gar |-> 0,
     isr |-> 0, gsr |-> 0, swl |-> 0, swh |-> 0, osr |-> 0,
     shutdown |-> FALSE, done |-> FALSE, send_head |-> FALSE,
     retrans |-> FALSE, dack |-> FALSE, ack_sched |-> FALSE,
     ap_ack_seqno |-> DCCP_MAX_SEQNO + 1]

\* out after a step that is not the arrival of a packet
Quiet == [type |-> "NONE", ackok |-> FALSE, fx |-> NoFx, ret |-> 0]

\* "Caller (dccp_v4_do_rcv) will send Reset(No Connection)": an established
\* socket takes the fast path, any other the state machine; a non-zero
\* return is answered with a Reset from the control socket
ResetUnlessZero(c) ==
    IF c.ret = 0 THEN c ELSE Free([c EXCEPT !.fx.sent = Append(@, "RESET")])

dccp_v4_do_rcv(s, skb, ch) ==
    LET c0 == [sk |-> s, fx |-> NoFx, ret |-> 0]
    IN  ResetUnlessZero(IF s.state = "OPEN"
                        THEN dccp_rcv_established(c0, skb, ch.optbad, ch.full)
                        ELSE dccp_rcv_state_process(c0, skb, ch))

MaySend(s) == dccp_delta_seqno(s.iss, s.gss) < MaxSent

\* the sequence and acknowledgement numbers a packet can arrive with
NearGsr(s) ==
    LET base == IF sk.role \in {"CLIENT", "SERVER"} /\ sk.state # "REQUESTING"
                THEN sk.gsr ELSE ISR
    IN  /\ dccp_delta_seqno(base, s) <= Fwd \/ dccp_delta_seqno(s, base) <= Back
        /\ dccp_delta_seqno(ISR, s) <= Span \/ dccp_delta_seqno(s, ISR) <= Back

NearGss(a) ==
    \/ dccp_delta_seqno(sk.gss, a) <= AckFwd
    \/ dccp_delta_seqno(a, sk.gss) <= AckBack

\* dccp_v4_rcv gives a packet without acknowledgement number the value
\* DCCP_PKT_WITHOUT_ACK_SEQ
Arrivals ==
    {skb \in [type : Types, seq : {s \in SeqNo : NearGsr(s)},
              ack : {a \in SeqNo : NearGss(a)} \cup {DCCP_PKT_WITHOUT_ACK_SEQ}] :
        dccp_packet_without_ack(skb) <=> skb.ack = DCCP_PKT_WITHOUT_ACK_SEQ}

Flag(relevant) == IF relevant THEN BOOLEAN ELSE {FALSE}

\* What the functions outside src/ answer during the call for skb.  A flag
\* is chosen only where the call consults it: the option parser comes before
\* the ack vector buffer, the first dccp_ackpkts_add before the second.
Choices(skb) ==
    LET checked   == sk.state \notin {"LISTEN", "REQUESTING"}
        handshake == sk.state \in {"RESPOND", "PARTOPEN"}
    IN  {ch \in [optbad   : Flag(checked),
                 connfail : Flag(sk.state = "LISTEN" /\ skb.type = "REQUEST"),
                 ccidfail : Flag(sk.state = "REQUESTING" /\ skb.type = "RESPONSE"),
                 saveack  : Flag(sk.state = "REQUESTING" /\ skb.type = "RESPONSE"),
                 full     : Flag(SendAckVector /\ checked),
                 full2    : Flag(SendAckVector /\ handshake /\ skb.type = "DATAACK")] :
            /\ ch.optbad => ~ch.full /\ ~ch.full2
            /\ ch.full => ~ch.full2
            /\ ch.ccidfail => ~ch.saveack}

Init == sk = Fresh /\ out = Quiet

\* connect(): a Request leaves, the REQUEST timer runs
Connect ==
    /\ sk.state = "CLOSED" /\ sk.role = "UNDEFINED"
    /\ sk' = [sk EXCEPT !.state = "REQUESTING", !.role = "CLIENT",
                        !.iss = ISS, !.gss = ISS, !.awl = ISS, !.awh = ISS,
                        !.gar = ISS, !.send_head = TRUE, !.retrans = TRUE]
    /\ out' = Quiet

Listen ==
    /\ sk.state = "CLOSED" /\ sk.role = "UNDEFINED"
    /\ sk' = [sk EXCEPT !.state = "LISTEN", !.role = "LISTEN"]
    /\ out' = Quiet

\* Step 3: "Generate a new socket ... S.state = RESPOND, Choose S.ISS,
\* Set S.ISR, S.GSR, S.SWL, S.SWH from packet"
Child ==
    /\ sk.state = "CLOSED" /\ sk.role = "UNDEFINED"
    /\ sk' = [sk EXCEPT !.state = "RESPOND", !.role = "SERVER",
                        !.iss = ISS, !.gss = ISS, !.awl = ISS, !.awh = ISS,
                        !.gar = ISS, !.isr = ISR, !.gsr = ISR, !.swl = ISR,
                        !.swh = dccp_set_seqno(ISR + (3 * W) \div 4)]
    /\ out' = Quiet

\* the REQUEST timer fires: the Request leaves again with a new number
RetransTimer ==
    /\ sk.state = "REQUESTING" /\ sk.retrans /\ MaySend(sk)
    /\ sk' = dccp_update_gss(sk, dccp_inc_seqno(sk.gss))
    /\ out' = Quiet

\* the application sends data
Send ==
    /\ sk.state \in {"PARTOPEN", "OPEN"} /\ MaySend(sk)
    /\ sk' = dccp_update_gss(sk, dccp_inc_seqno(sk.gss))
    /\ out' = Quiet

\* the delayed-ack timer fires: an Ack leaves, with the ack vector if any
DelAckTimer ==
    /\ sk.dack /\ MaySend(sk)
    /\ LET s == dccp_update_gss(sk, dccp_inc_seqno(sk.gss))
       IN  sk' = [s EXCEPT !.dack = FALSE, !.ack_sched = FALSE,
                           !.ap_ack_seqno = IF SendAckVector THEN s.gss ELSE @]
    /\ out' = Quiet

Rcv(skb, ch) ==
    \E c \in {dccp_v4_do_rcv(sk, skb, ch)} :
        /\ dccp_delta_seqno(c.sk.iss, c.sk.gss) <= MaxSent
        /\ sk' = c.sk
        /\ out' = [type  |-> skb.type,
                   ackok |-> between48(skb.ack, sk.awl, sk.awh),
                   fx    |-> c.fx,
                   ret   |-> c.ret]

RcvEstablished ==
    /\ sk.state = "OPEN"
    /\ \E skb \in Arrivals : \E ch \in Choices(skb) : Rcv(skb, ch)

RcvStateProcess ==
    /\ sk.state \notin {"OPEN", "TIME_WAIT"} /\ sk.role # "UNDEFINED"
    /\ \E skb \in Arrivals : \E ch \in Choices(skb) : Rcv(skb, ch)

\* the socket is destroyed and its memory used for the next one
Release ==
    /\ sk.state \in {"CLOSED", "TIME_WAIT", "LISTEN"} /\ sk.role # "UNDEFINED"
    /\ sk' = Fresh
    /\ out' = Quiet

Next ==
    \/ Connect \/ Listen \/ Child
    \/ RetransTimer \/ Send \/ DelAckTimer
    \/ RcvEstablished \/ RcvStateProcess
    \/ Release

Spec == Init /\ [][Next]_vars

-----------------------------------------------------------------------------
(* Properties *)

Reg == 0 .. RegMod - 1

\* The socket holds registers, flags and a state; a call returns -1, 0 or 1
\* and sends at most two packets.
TypeOK ==
    /\ sk \in [state : States, role : Roles,
               iss : SeqNo, gss : SeqNo, awl : Reg, awh : SeqNo, gar : SeqNo,
               isr : SeqNo, gsr : SeqNo, swl : Reg, swh : SeqNo, osr : SeqNo,
               shutdown : BOOLEAN, done : BOOLEAN, send_head : BOOLEAN,
               retrans : BOOLEAN, dack : BOOLEAN, ack_sched : BOOLEAN,
               ap_ack_seqno : 0 .. DCCP_MAX_SEQNO + 1]
    /\ out.ret \in {-1, 0, 1}
    /\ Len(out.fx.sent) <= 2

\* Every packet handed to dccp_v4_do_rcv ends in exactly one place: on the
\* receive queue or freed, and never both or twice.  dccp_rcv_state_process
\* frees what its helpers report as not queued, dccp_rcv_established frees
\* or queues by itself, and the two are nested for the DataAck that
\* completes the handshake.
SkbOwnedOnce ==
    out.type # "NONE" => out.fx.queued + out.fx.freed = 1

\* S.GAR, the greatest acknowledgement number received, acknowledges a
\* packet this socket has sent: dccp_check_seqno stores only numbers inside
\* the acknowledgement window, which dccp_update_gss moves with every packet
\* that leaves.
GarWithinSent ==
    sk.role \in {"CLIENT", "SERVER"} => between48(sk.gar, sk.iss, sk.gss)

\* The socket changes state along the edges of the DCCP state diagram only,
\* CLOSING is entered by a client only (a server answers CloseReq with a
\* Sync), and the WARN_ON of dccp_set_state never fires.
StateEdges ==
    [][/\ ~out'.fx.warn
       /\ \/ sk'.state = sk.state
          \/ sk.state = "CLOSED" /\ sk.role = "UNDEFINED"
          \/ sk' = Fresh
          \/ sk.state = "REQUESTING" /\ sk'.state = "PARTOPEN"
          \/ sk.state \in {"RESPOND", "PARTOPEN"} /\ sk'.state = "OPEN"
          \/ sk.state = "OPEN" /\ sk'.state = "CLOSED" /\ out'.type = "CLOSE"
          \/ /\ sk.state = "OPEN" /\ sk'.state = "CLOSING"
             /\ sk.role = "CLIENT" /\ out'.type = "CLOSEREQ"
          \/ sk.state # "LISTEN" /\ sk'.state = "TIME_WAIT" /\ out'.type = "RESET"
      ]_vars

\* "After this update, P will pass the tests in Step 6" (Step 5): a Sync or
\* SyncAck is never answered with a Sync.  dccp_check_seqno moves the window
\* to the Sync in Step 5 and tests the Sync against the moved window in
\* Step 6; were the test to fail, two ends out of step would answer each
\* other's Syncs for ever.
SyncNeverAnsweredBySync ==
    out.type \in {"SYNC", "SYNCACK"} =>
        \A i \in 1 .. Len(out.fx.sent) : out.fx.sent[i] # "SYNC"

-----------------------------------------------------------------------------
(* What the comments, the names and the assertions of the code say, and    *)
(* the code does not do.                                                   *)

\* BUG_TRAP(sk->sk_send_head != NULL) in
\* dccp_rcv_request_sent_state_process: a client that receives a Response
\* still holds the Request it is retransmitting.
SendHeadHeld == ~out.fx.trap

\* S.GSR is the greatest sequence number received: a packet that passes
\* dccp_check_seqno never makes it smaller.
GsrNeverMovesBack ==
    [][/\ sk.role \in {"CLIENT", "SERVER"} /\ sk'.role = sk.role
       /\ sk.state # "REQUESTING"
       => ~before48(sk'.gsr, sk.gsr)]_vars

\* "queued = 1; packet was queued (by dccp_rcv_established)": the DataAck
\* that completes the handshake is on the receive queue when
\* dccp_rcv_respond_partopen_state_process returns.
HandshakeDataAckQueued ==
    [][/\ sk.state \in {"RESPOND", "PARTOPEN"} /\ sk'.state = "OPEN"
       /\ out'.type = "DATAACK"
       => out'.fx.queued = 1]_vars

\* Step 4: in REQUEST a Reset is processed only "If (P.type == Response or
\* P.type == Reset) and S.AWL <= P.ackno <= S.AWH".
ResetInRequestAcksRequest ==
    [][sk.state = "REQUESTING" /\ sk'.state = "TIME_WAIT" => out'.ackok]_vars

\* dccp_set_seqno keeps what it stores within 48 bits: the edges of the two
\* windows are sequence numbers.
WindowEdgesFit48 == sk.swl \in SeqNo /\ sk.awl \in SeqNo

=============================================================================
