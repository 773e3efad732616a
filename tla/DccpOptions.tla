----------------------------- MODULE DccpOptions -----------------------------
(***************************************************************************)
(* The options of a DCCP packet: net/dccp/options.c.  Two sockets exchange *)
(* packets; the sender builds the option area with dccp_insert_options and *)
(* the receiver reads it with dccp_parse_options.  The area is a sequence  *)
(* of bytes, so what one side encodes is what the other has to decode.     *)
(* skb_push puts each new option in front of the ones already there.       *)
(*                                                                         *)
(* The network loses packets, and a third party sends option areas of its  *)
(* own (Forged).  The CCIDs, the ack vector and the feature negotiation of *)
(* feat.c are outside this file: they are the operators marked "outside".  *)
(* The clock counts microseconds since dccps_epoch.                        *)
(***************************************************************************)
EXTENDS Integers, Sequences, SequencesExt

CONSTANTS
    DCCP_MAX_OPT_LEN, \* room for options in one packet (dccp.h: 128)
    SendNdpCount,     \* dccpo_send_ndp_count
    SendAckVector,    \* dccpo_send_ack_vector
    NdpStart,         \* the values of dccps_ndp_count a behaviour starts from
    MaxNdp,           \* no non-data packet is sent once dccps_ndp_count is this
    MaxForged,        \* the third party sends at most this many
    Times,            \* the readings of the clock at which something happens
    AckVecLens,       \* the sizes of the ack vector a packet may carry
    FeatVals,         \* the values of a feature, as byte sequences
    MaxConf,          \* at most this many confirms wait in dccpo_conf
    CcidTimes,        \* the elapsed times the receiver's CCID reports
    TypesOf,          \* the packet types each socket sends
    Forged,           \* the option areas the third party sends
    ForgedAt,         \* the sockets it sends them to
    HcSender,         \* the sockets whose sending CCID adds options
    HcReceiver,       \* the sockets whose receiving CCID adds options
    FeatAt            \* the sockets that ask for a change of the feature

Ends == {"a", "b"}
Peer(n) == IF n = "a" THEN "b" ELSE "a"
Bytes == 0 .. 255

ASSUME /\ DCCP_MAX_OPT_LEN \in 8 .. 252 /\ DCCP_MAX_OPT_LEN % 4 = 0
       /\ {SendNdpCount, SendAckVector} \subseteq BOOLEAN
       /\ MaxNdp < 2^24 /\ NdpStart \subseteq 0 .. MaxNdp /\ MaxForged \in Nat
       /\ Times \subseteq 0 .. 2147483647
       /\ AckVecLens \subseteq 1 .. 253 /\ MaxConf \in Nat
       /\ \A v \in FeatVals : v \in Seq(Bytes) /\ Len(v) > 0
       /\ \A b \in Forged : b \in Seq(Bytes)
       /\ CcidTimes \subseteq 1 .. 2147483647
       /\ ForgedAt \cup HcSender \cup HcReceiver \cup FeatAt \subseteq Ends

VARIABLES
    ep,     \* the two sockets
    wire,   \* wire[n]: the packet on its way to n, or NoPkt; one at a time
    now,    \* the clock
    hist,   \* history: what each socket really sent and accepted
    out     \* whether any dccp_parse_options so far read past the area,
            \* or accepted an area that is not a sequence of whole options

vars == <<ep, wire, now, hist, out>>

\* Option numbers of include/linux/dccp.h.
DCCPO_PADDING == 0
DCCPO_MANDATORY == 1
DCCPO_MAX_RESERVED == 31
DCCPO_CHANGE_L == 32
DCCPO_CONFIRM_L == 33
DCCPO_CHANGE_R == 34
DCCPO_CONFIRM_R == 35
DCCPO_NDP_COUNT == 37
DCCPO_ACK_VECTOR_0 == 38
DCCPO_ACK_VECTOR_1 == 39
DCCPO_TIMESTAMP == 41
DCCPO_TIMESTAMP_ECHO == 42
DCCPO_ELAPSED_TIME == 43
CcidRxOpts == 128 .. 191    \* parsed by the HC-receiver
CcidTxOpts == 192 .. 255    \* parsed by the HC-sender
TFRC_OPT == 192             \* the option the receiver's CCID adds
FEAT == 1                   \* the one feature that is negotiated

NoPkt == [type |-> "none"]
NoSc == <<>>                \* dccpop_sc == NULL
NoGot == [ts |-> -1, at |-> 0]
NoRecv == [ndp |-> 0, timestamp |-> 0, timestamp_echo |-> 0, elapsed_time |-> 0]

dccp_non_data_packet(type) ==
    type \in {"ACK", "CLOSE", "CLOSEREQ", "RESET", "SYNC", "SYNCACK"}

dccp_packet_without_ack(type) == type \in {"DATA", "REQUEST"}

-----------------------------------------------------------------------------
(* Encoding and decoding of values. *)

dccp_decode_value_var(bf, len) ==
    FoldLeft(LAMBDA v, b : v * 256 + b, 0, SubSeq(bf, 1, IF len > 3 THEN 4 ELSE len))

dccp_encode_value_var(value, len) ==
    [i \in 1 .. len |-> (value \div 256 ^ (len - i)) % 256]

htonl(v) == dccp_encode_value_var(v, 4)

\* Mutant: the first threshold is one too high.
dccp_ndp_len_256(ndp) == IF ndp <= 256 THEN 1 ELSE IF ndp <= 65535 THEN 2 ELSE 3

dccp_ndp_len(ndp) == IF ndp <= 255 THEN 1 ELSE IF ndp <= 65535 THEN 2 ELSE 3

\* Mutant: the second threshold is one too high.
dccp_elapsed_time_len_65536(e) == IF e = 0 THEN 0 ELSE IF e <= 65536 THEN 2 ELSE 4

dccp_elapsed_time_len(e) == IF e = 0 THEN 0 ELSE IF e <= 65535 THEN 2 ELSE 4

\* The clock reading of a socket; the loop only normalises tv_usec.
dccp_timestamp(clock) == clock

-----------------------------------------------------------------------------
(* Building the option area.  skb is [opts, opt_len]; the insert functions *)
(* that touch the socket work on c = [dp, skb].                            *)

Fits(skb, len) == skb.opt_len + len <= DCCP_MAX_OPT_LEN

\* dccpd_opt_len += len; skb_push(skb, len); the bytes written.
Put(skb, bytes) ==
    [opts |-> bytes \o skb.opts, opt_len |-> skb.opt_len + Len(bytes)]

dccp_insert_option(skb, option, value) ==
    IF Fits(skb, Len(value) + 2)
    THEN Put(skb, <<option, Len(value) + 2>> \o value) ELSE skb

NdpOption(skb, ndp) ==
    IF Fits(skb, dccp_ndp_len(ndp) + 2)
    THEN Put(skb, <<DCCPO_NDP_COUNT, dccp_ndp_len(ndp) + 2>>
                  \o dccp_encode_value_var(ndp, dccp_ndp_len(ndp)))
    ELSE skb

\* Mutant: the counter is never set back to 0.
dccp_insert_option_ndp_noreset(c, type) ==
    [dp  |-> [c.dp EXCEPT !.ndp_count = @ + 1],
     skb |-> IF c.dp.ndp_count > 0 THEN NdpOption(c.skb, c.dp.ndp_count)
             ELSE c.skb]

dccp_insert_option_ndp(c, type) ==
    [dp  |-> [c.dp EXCEPT !.ndp_count =
                 IF dccp_non_data_packet(type) THEN @ + 1 ELSE 0],
     skb |-> IF c.dp.ndp_count > 0 THEN NdpOption(c.skb, c.dp.ndp_count)
             ELSE c.skb]

dccp_insert_option_elapsed_time(skb, e) ==
    IF dccp_elapsed_time_len(e) # 0 /\ Fits(skb, 2 + dccp_elapsed_time_len(e))
    THEN Put(skb, <<DCCPO_ELAPSED_TIME, 2 + dccp_elapsed_time_len(e)>>
                  \o dccp_encode_value_var(e, dccp_elapsed_time_len(e)))
    ELSE skb

dccp_insert_option_timestamp(skb, clock) ==
    dccp_insert_option(skb, DCCPO_TIMESTAMP, htonl(dccp_timestamp(clock) \div 10))

\* Mutant: the echo is forgotten although it found no room.
EchoOption_forget(c, e) ==
    [dp  |-> [c.dp EXCEPT !.timestamp_echo = 0, !.timestamp_time = 0],
     skb |-> IF Fits(c.skb, 6 + dccp_elapsed_time_len(e))
             THEN Put(c.skb, <<DCCPO_TIMESTAMP_ECHO, 6 + dccp_elapsed_time_len(e)>>
                             \o htonl(c.dp.timestamp_echo)
                             \o dccp_encode_value_var(e, dccp_elapsed_time_len(e)))
             ELSE c.skb]

EchoOption(c, e) ==
    IF Fits(c.skb, 6 + dccp_elapsed_time_len(e))
    THEN [dp  |-> [c.dp EXCEPT !.timestamp_echo = 0, !.timestamp_time = 0],
          skb |-> Put(c.skb, <<DCCPO_TIMESTAMP_ECHO, 6 + dccp_elapsed_time_len(e)>>
                             \o htonl(c.dp.timestamp_echo)
                             \o dccp_encode_value_var(e, dccp_elapsed_time_len(e)))]
    ELSE c

dccp_insert_option_timestamp_echo(c, clock) ==
    EchoOption(c, (dccp_timestamp(clock) - c.dp.timestamp_time) \div 10)

\* Its callers ignore the -1 it returns when the option does not fit.
dccp_insert_feat_opt(skb, type, feat, val) ==
    IF Fits(skb, Len(val) + 3)
    THEN Put(skb, <<type, Len(val) + 3, feat>> \o val) ELSE skb

\* One entry of dccpo_pending: its confirm, then the change itself.
PendingOpts(skb, o) ==
    LET s == IF o.sc # NoSc
             THEN dccp_insert_feat_opt(skb, o.type + 1, FEAT, o.sc) ELSE skb
    IN  IF o.conf THEN s ELSE dccp_insert_feat_opt(s, o.type, FEAT, o.val)

dccp_insert_feat(c) ==
    [dp  |-> [c.dp EXCEPT
                 !.conf = <<>>,
                 !.pending = [i \in DOMAIN @ |-> [@[i] EXCEPT !.sc = NoSc]],
                 !.xmit_timer = @ \/ (/\ \E i \in DOMAIN c.dp.pending :
                                            ~c.dp.pending[i].conf
                                      /\ c.dp.role # "LISTEN")],
     skb |-> FoldLeft(PendingOpts,
                 FoldLeft(LAMBDA s, o : dccp_insert_feat_opt(s, o.type, FEAT, o.val),
                          c.skb, c.dp.conf),
                 c.dp.pending)]

\* outside: dccp_insert_option_ackvec of ackvec.c adds the vector if it fits.
dccp_insert_option_ackvec(skb, av) ==
    dccp_insert_option(skb, DCCPO_ACK_VECTOR_0, [i \in 1 .. av |-> 0])

\* outside: the receiver's CCID reports the time it held the packet and a
\* rate, the sender's CCID stamps the packet.
ccid_hc_rx_insert_options(skb, e) ==
    dccp_insert_option(dccp_insert_option_elapsed_time(skb, e), TFRC_OPT, htonl(e))

ccid_hc_tx_insert_options(skb, clock) == dccp_insert_option_timestamp(skb, clock)

InsertAcks(c, type, clock, av) ==
    IF dccp_packet_without_ack(type) THEN c
    ELSE LET a == IF SendAckVector /\ av > 0
                  THEN [c EXCEPT !.skb = dccp_insert_option_ackvec(@, av)] ELSE c
         IN  IF a.dp.timestamp_echo # 0
             THEN dccp_insert_option_timestamp_echo(a, clock) ELSE a

InsertCcid(c, clock, e) ==
    [dp  |-> [c.dp EXCEPT !.rx_insert = FALSE, !.tx_insert = FALSE],
     skb |-> LET r == IF c.dp.rx_insert
                      THEN ccid_hc_rx_insert_options(c.skb, e) ELSE c.skb
             IN  IF c.dp.tx_insert THEN ccid_hc_tx_insert_options(r, clock) ELSE r]

InsertFeat(c, type) ==
    IF type \in {"DATA", "DATAACK"} THEN c ELSE dccp_insert_feat(c)

\* Mutant: the remainder is taken for the padding.
Pad_remainder(c) ==
    IF c.skb.opt_len % 4 = 0 THEN c
    ELSE [c EXCEPT !.skb = Put(@, [i \in 1 .. c.skb.opt_len % 4 |-> 0])]

Pad(c) ==
    IF c.skb.opt_len % 4 = 0 THEN c
    ELSE [c EXCEPT !.skb = Put(@, [i \in 1 .. 4 - (c.skb.opt_len % 4) |-> 0])]

\* av: the size of the pending ack vector, 0 if none; e: the time the
\* receiver's CCID reports.
dccp_insert_options(dp, type, clock, av, e) ==
    Pad(InsertFeat(InsertCcid(InsertAcks(
        IF SendNdpCount
        THEN dccp_insert_option_ndp([dp |-> dp, skb |-> [opts |-> <<>>, opt_len |-> 0]], type)
        ELSE [dp |-> dp, skb |-> [opts |-> <<>>, opt_len |-> 0]],
        type, clock, av), clock, e), type))

-----------------------------------------------------------------------------
(* Reading the option area.  opt_ptr and opt_end are indices into buf; p   *)
(* is the state of the loop: the socket, dccps_options_received (recv),    *)
(* opt_ptr, mandatory, the value returned so far and whether a read went   *)
(* past opt_end.                                                           *)

OptEnd(buf) == Len(buf) + 1

Value(buf, h, off, n) ==
    [i \in 1 .. n |-> IF h.value + off + i - 1 \in DOMAIN buf
                      THEN buf[h.value + off + i - 1] ELSE 0]

\* Mutant: the value may end after opt_end.
Header_nocheck(buf, ptr) ==
    LET multi == buf[ptr] > DCCPO_MAX_RESERVED
        len   == IF multi /\ ptr + 1 # OptEnd(buf) THEN buf[ptr + 1] - 2 ELSE 0
    IN  [opt |-> buf[ptr], len |-> len, value |-> ptr + 2,
         next |-> IF multi THEN ptr + 2 + len ELSE ptr + 1,
         ok |-> multi => ptr + 1 # OptEnd(buf) /\ len >= 1]

\* Lines 82-104: the option, the length and the place of its value.
Header(buf, ptr) ==
    LET multi == buf[ptr] > DCCPO_MAX_RESERVED
        len   == IF multi /\ ptr + 1 # OptEnd(buf) THEN buf[ptr + 1] - 2 ELSE 0
    IN  [opt |-> buf[ptr], len |-> len, value |-> ptr + 2,
         next |-> IF multi THEN ptr + 2 + len ELSE ptr + 1,
         ok |-> multi => /\ ptr + 1 # OptEnd(buf)
                         /\ len >= 1
                         /\ ptr + 2 + len <= OptEnd(buf)]

\* outside: feat.c answers a Change with a Confirm, with the confirm of
\* its own pending change, or with an empty Confirm when it fails.
dccp_feat_change_recv(dp, opt, val, rc) ==
    IF rc = 0 /\ dp.pending # <<>>
    THEN [dp EXCEPT !.pending[1].sc = val]
    ELSE [dp EXCEPT !.conf = Append(@, [type |-> opt + 1,
                                        val |-> IF rc = 0 THEN val ELSE <<>>])]

\* outside: feat.c marks the pending change as confirmed.
dccp_feat_confirm_recv(dp) ==
    [dp EXCEPT !.pending = [i \in DOMAIN @ |-> [@[i] EXCEPT !.conf = TRUE]]]

Changes == {DCCPO_CHANGE_L, DCCPO_CHANGE_R}
Confirms == {DCCPO_CONFIRM_L, DCCPO_CONFIRM_R}
AckVectors == {DCCPO_ACK_VECTOR_0, DCCPO_ACK_VECTOR_1}

\* The cases of the switch that end in out_invalid_option.
Invalid(h, mandatory, type, ext) ==
    \/ h.opt = DCCPO_MANDATORY /\ mandatory
    \/ h.opt = DCCPO_NDP_COUNT /\ h.len > 3
    \/ h.opt \in Changes /\ (h.len < 2 \/ (ext.change # 0 /\ mandatory))
    \/ h.opt \in Confirms /\ (h.len < 2 \/ ext.confirm # 0)
    \/ h.opt \in AckVectors /\ type # "DATA" /\ SendAckVector /\ ext.ackvec # 0
    \/ h.opt = DCCPO_TIMESTAMP /\ h.len # 4
    \/ h.opt = DCCPO_TIMESTAMP_ECHO /\ h.len \notin {4, 6, 8}
    \/ h.opt = DCCPO_ELAPSED_TIME /\ h.len \notin {2, 4}
    \/ h.opt \in CcidRxOpts \cup CcidTxOpts /\ ext.ccid # 0

\* The cases that leave the loop body by continue.
Continues(h, type) ==
    type = "DATA" /\ h.opt \in AckVectors \cup {DCCPO_ELAPSED_TIME}

\* The number of bytes the switch reads at value.
Reads(h) ==
    CASE h.opt = DCCPO_TIMESTAMP -> 4
      [] h.opt = DCCPO_TIMESTAMP_ECHO -> IF h.len = 4 THEN 4 ELSE IF h.len = 6 THEN 6 ELSE 8
      [] h.opt = DCCPO_ELAPSED_TIME -> IF h.len = 2 THEN 2 ELSE 4
      [] OTHER -> h.len

Larger(a, b) == IF a > b THEN a ELSE b

\* What the switch does to the socket and to recv when the option is taken.
Taken(buf, h, p, type, clock, ext) ==
    CASE h.opt = DCCPO_NDP_COUNT ->
            [p EXCEPT !.recv.ndp = dccp_decode_value_var(Value(buf, h, 0, h.len), h.len)]
      [] h.opt \in Changes ->
            [p EXCEPT !.dp = dccp_feat_change_recv(@, h.opt, Value(buf, h, 1, h.len - 1),
                                                   ext.change)]
      [] h.opt \in Confirms -> [p EXCEPT !.dp = dccp_feat_confirm_recv(@)]
      [] h.opt = DCCPO_TIMESTAMP ->
            [p EXCEPT !.recv.timestamp = dccp_decode_value_var(Value(buf, h, 0, 4), 4),
                      !.dp.timestamp_echo = dccp_decode_value_var(Value(buf, h, 0, 4), 4),
                      !.dp.timestamp_time = dccp_timestamp(clock)]
      [] h.opt = DCCPO_TIMESTAMP_ECHO ->
            [p EXCEPT !.recv.timestamp_echo = dccp_decode_value_var(Value(buf, h, 0, 4), 4),
                      !.recv.elapsed_time = Larger(@,
                          dccp_decode_value_var(Value(buf, h, 4, Reads(h) - 4), Reads(h) - 4))]
      [] h.opt = DCCPO_ELAPSED_TIME /\ type # "DATA" ->
            [p EXCEPT !.recv.elapsed_time = Larger(@,
                          dccp_decode_value_var(Value(buf, h, 0, Reads(h)), Reads(h)))]
      [] OTHER -> p

\* One turn of the loop for the option h at p.ptr.
Option(buf, h, p, type, clock, ext) ==
    IF ~h.ok THEN [p EXCEPT !.rc = -1]
    ELSE IF Invalid(h, p.mandatory, type, ext)
    THEN [(IF h.opt \in Changes /\ h.len >= 2
           THEN Taken(buf, h, p, type, clock, ext) ELSE p) EXCEPT !.rc = -1]
    ELSE [Taken(buf, h, p, type, clock, ext) EXCEPT
            !.ptr = h.next,
            !.mandatory = IF Continues(h, type) THEN @
                          ELSE h.opt = DCCPO_MANDATORY /\ type # "DATA",
            !.oob = @ \/ (Reads(h) > 0 /\ h.value + Reads(h) > OptEnd(buf))]

RECURSIVE OptionLoop(_, _, _, _, _)
OptionLoop(buf, p, type, clock, ext) ==
    IF p.rc # 0 THEN p
    ELSE IF p.ptr > OptEnd(buf) THEN [p EXCEPT !.oob = TRUE, !.rc = -1]
    ELSE IF p.ptr = OptEnd(buf) THEN [p EXCEPT !.rc = IF p.mandatory THEN -1 ELSE 0]
    ELSE OptionLoop(buf, Option(buf, Header(buf, p.ptr), p, type, clock, ext),
                    type, clock, ext)

dccp_parse_options(dp, buf, type, clock, ext) ==
    OptionLoop(buf, [dp |-> dp, recv |-> NoRecv, ptr |-> 1,
                     mandatory |-> FALSE, rc |-> 0, oob |-> FALSE],
               type, clock, ext)

-----------------------------------------------------------------------------
(* The reference the two sides are compared with: the options of a well    *)
(* formed area (a single byte up to 31, else type, length and value), one  *)
(* record each, or Malformed where the area ends inside an option.         *)

Malformed == [opt |-> -1, val |-> <<>>]

RECURSIVE WireOptions(_)
WireOptions(buf) ==
    IF buf = <<>> THEN <<>>
    ELSE IF Head(buf) <= DCCPO_MAX_RESERVED
    THEN <<[opt |-> Head(buf), val |-> <<>>]>> \o WireOptions(Tail(buf))
    ELSE IF Len(buf) < 2 \/ buf[2] < 2 \/ buf[2] > Len(buf) THEN <<Malformed>>
    ELSE <<[opt |-> buf[1], val |-> SubSeq(buf, 3, buf[2])]>>
         \o WireOptions(SubSeq(buf, buf[2] + 1, Len(buf)))

Carries(buf, opts) == \E i \in DOMAIN WireOptions(buf) : WireOptions(buf)[i].opt \in opts

EmptyConfirm(buf) ==
    \E i \in DOMAIN WireOptions(buf) :
        WireOptions(buf)[i].opt \in Confirms /\ Len(WireOptions(buf)[i].val) = 1

-----------------------------------------------------------------------------
(* The two sockets, the network and the third party. *)

NoError == [change |-> 0, confirm |-> 0, ackvec |-> 0, ccid |-> 0]

\* What the parsers outside may answer for the options buf carries.
Answers(buf) ==
    {x \in [change : {0, -1}, confirm : {0, -1}, ackvec : {0, -1}, ccid : {0, -1}] :
        /\ x.change # 0 => \E b \in Changes : b \in Range(buf)
        /\ x.confirm # 0 => \E b \in Confirms : b \in Range(buf)
        /\ x.ackvec # 0 => SendAckVector /\ \E b \in AckVectors : b \in Range(buf)
        /\ x.ccid # 0 => \E b \in CcidRxOpts \cup CcidTxOpts : b \in Range(buf)}

Init ==
    /\ \E s \in [Ends -> NdpStart] :
          /\ ep = [n \in Ends |->
                     [ndp_count |-> s[n], timestamp_echo |-> 0, timestamp_time |-> 0,
                      rx_insert |-> FALSE, tx_insert |-> FALSE,
                      conf |-> <<>>, pending |-> <<>>, xmit_timer |-> FALSE,
                      role |-> IF n = "a" THEN "CLIENT" ELSE "SERVER"]]
          /\ hist = [n \in Ends |-> [nondata |-> s[n], got |-> NoGot, forged |-> 0]]
    /\ wire = [n \in Ends |-> NoPkt]
    /\ now = 0
    /\ out = [oob |-> FALSE, unsound |-> FALSE]

Tick(t) ==
    /\ t > now
    /\ now' = t
    /\ UNCHANGED <<ep, wire, hist, out>>

\* outside: the application asks feat.c to change the feature.
FeatChange(n, val) ==
    /\ ep[n].pending = <<>>
    /\ ep' = [ep EXCEPT ![n].pending =
                 <<[type |-> DCCPO_CHANGE_L, val |-> val, conf |-> FALSE, sc |-> NoSc]>>]
    /\ UNCHANGED <<wire, now, hist, out>>

\* outside: a CCID asks for its options in the next packet.
CcidWants(n) ==
    /\ ep' = [ep EXCEPT ![n].rx_insert = @ \/ n \in HcReceiver,
                        ![n].tx_insert = @ \/ n \in HcSender]
    /\ ep' # ep
    /\ UNCHANGED <<wire, now, hist, out>>

\* n sends a packet of this type: dccp_insert_options builds its options.
Send(n, type, av, e) ==
    /\ \A m \in Ends : wire[m] = NoPkt
    /\ dccp_non_data_packet(type) => ep[n].ndp_count < MaxNdp
    /\ av > 0 => SendAckVector /\ ~dccp_packet_without_ack(type)
    /\ e > 0 => ep[n].rx_insert
    /\ \E c \in {dccp_insert_options(ep[n], type, now, av, e)} :
          /\ ep' = [ep EXCEPT ![n] = c.dp]
          /\ wire' = [wire EXCEPT ![Peer(n)] =
                         [type |-> type, opts |-> c.skb.opts, opt_len |-> c.skb.opt_len,
                          ndp |-> hist[n].nondata, echo |-> hist[n].got.ts,
                          held |-> (now - hist[n].got.at) \div 10,
                          stamp |-> IF Carries(c.skb.opts, {DCCPO_TIMESTAMP})
                                    THEN now \div 10 ELSE -1]]
    /\ hist' = [hist EXCEPT ![n].nondata =
                   IF dccp_non_data_packet(type) THEN @ + 1 ELSE 0]
    /\ UNCHANGED <<now, out>>

Lose(n) ==
    /\ wire[n] # NoPkt
    /\ wire' = [wire EXCEPT ![n] = NoPkt]
    /\ UNCHANGED <<ep, now, hist, out>>

\* The timestamp n holds after a packet: the one the packet really carried
\* (stamp) if n took it, an unknown one if the packet was cut short or forged.
Got(n, buf, p, stamp) ==
    IF ~Carries(buf, {DCCPO_TIMESTAMP}) THEN hist[n].got
    ELSE IF p.rc = 0 /\ stamp >= 0 THEN [ts |-> stamp, at |-> now]
    ELSE [ts |-> -2, at |-> now]

\* The socket after dccp_parse_options, and what the histories note of it.
Parsed(n, buf, p, stamp, forged) ==
    /\ Len(p.dp.conf) <= MaxConf
    /\ ep' = [ep EXCEPT ![n] = p.dp]
    /\ hist' = [hist EXCEPT ![n].got = Got(n, buf, p, stamp), ![n].forged = @ + forged]
    /\ out' = [oob |-> out.oob \/ p.oob,
               unsound |-> out.unsound \/ (p.rc = 0 /\ Carries(buf, {-1}))]

\* n takes the packet on the wire: dccp_parse_options reads its options.
Deliver(n) ==
    /\ wire[n] # NoPkt
    /\ \E ext \in Answers(wire[n].opts) :
       \E p \in {dccp_parse_options(ep[n], wire[n].opts, wire[n].type, now, ext)} :
          Parsed(n, wire[n].opts, p, wire[n].stamp, 0)
    /\ wire' = [wire EXCEPT ![n] = NoPkt]
    /\ UNCHANGED now

\* n takes a packet of the third party.
Forge(n, buf, type, ext) ==
    /\ hist[n].forged < MaxForged
    /\ \A m \in Ends : wire[m] = NoPkt
    /\ \E p \in {dccp_parse_options(ep[n], buf, type, now, ext)} :
          Parsed(n, buf, p, -1, 1)
    /\ UNCHANGED <<wire, now>>

Next ==
    \/ \E t \in Times : Tick(t)
    \/ \E n \in FeatAt, val \in FeatVals : FeatChange(n, val)
    \/ \E n \in Ends : CcidWants(n)
    \/ \E n \in Ends, av \in {0} \cup AckVecLens, e \in {0} \cup CcidTimes :
          \E type \in TypesOf[n] : Send(n, type, av, e)
    \/ \E n \in Ends : Lose(n)
    \/ \E n \in Ends : Deliver(n)
    \/ \E n \in ForgedAt, buf \in Forged, type \in {"DATA", "ACK"} :
          \E ext \in Answers(buf) : Forge(n, buf, type, ext)

Spec == Init /\ [][Next]_vars

-----------------------------------------------------------------------------
(* Properties. *)

TypeOK ==
    /\ \A n \in Ends :
          /\ ep[n].ndp_count \in 0 .. MaxNdp
          /\ ep[n].timestamp_echo \in Nat /\ ep[n].timestamp_time \in Times \cup {0}
          /\ {ep[n].rx_insert, ep[n].tx_insert, ep[n].xmit_timer} \subseteq BOOLEAN
          /\ Len(ep[n].conf) <= MaxConf /\ Len(ep[n].pending) <= 1
          /\ \A i \in DOMAIN ep[n].conf : ep[n].conf[i].type \in Confirms
          /\ \A i \in DOMAIN ep[n].pending : ep[n].pending[i].type \in Changes
          /\ wire[n] # NoPkt => wire[n].opts \in Seq(Bytes)
    /\ now \in Times \cup {0}
    /\ out \in [oob : BOOLEAN, unsound : BOOLEAN]

\* The option area of the packet on its way to n as n reads it, if the
\* parsers outside find no error.
Reading(n) == dccp_parse_options(ep[n], wire[n].opts, wire[n].type, now, NoError)

(* What dccp_insert_option_ndp and dccp_ndp_len encode, dccp_parse_options *)
(* and dccp_decode_value_var decode: the NDP count that the receiver reads *)
(* from a packet it accepts is the number of non-data packets its sender   *)
(* sent since its last data packet, whatever else is in the option area.   *)
NdpRoundTrip ==
    \A n \in Ends : wire[n] # NoPkt /\ SendNdpCount /\ Reading(n).rc = 0 =>
        Reading(n).recv.ndp = wire[n].ndp

(* dccp_insert_option_timestamp_echo against the TIMESTAMP and             *)
(* TIMESTAMP_ECHO cases of dccp_parse_options: the timestamp echo read     *)
(* from an accepted packet is the timestamp its sender last took from a    *)
(* packet of this socket, and the elapsed time read with it is the time    *)
(* the sender held that timestamp, or a longer time its CCID reports.      *)
EchoRoundTrip ==
    \A n \in Ends :
        /\ wire[n] # NoPkt /\ Reading(n).rc = 0
        /\ Reading(n).recv.timestamp_echo # 0 /\ wire[n].echo # -2
        => /\ Reading(n).recv.timestamp_echo = wire[n].echo
           /\ Reading(n).recv.elapsed_time \in
                  {wire[n].held} \cup {e \in CcidTimes : e >= wire[n].held}

(* The variable-length values of dccp_insert_option_ndp (1, 2 or 3 bytes   *)
(* by dccp_ndp_len) and of dccp_insert_option_timestamp_echo (0, 2 or 4    *)
(* bytes by dccp_elapsed_time_len) survive the way through the option area *)
(* and dccp_parse_options of the peer: what an accepted packet tells the   *)
(* receiver is what its sender counted and held, at every length and next  *)
(* to every other option.                                                  *)
ValuesRoundTrip == NdpRoundTrip /\ EchoRoundTrip

(* dccp_insert_options with every insert function and the padding: the     *)
(* option area of a packet on the wire has the length dccpd_opt_len says,  *)
(* a multiple of 4 and at most DCCP_MAX_OPT_LEN, ends where its last       *)
(* option ends, and dccp_parse_options of the peer accepts it, unless it   *)
(* holds a Confirm without a value.                                        *)
BuiltAreaAccepted ==
    \A n \in Ends : wire[n] # NoPkt =>
        /\ Len(wire[n].opts) = wire[n].opt_len
        /\ wire[n].opt_len % 4 = 0 /\ wire[n].opt_len <= DCCP_MAX_OPT_LEN
        /\ ~Carries(wire[n].opts, {-1})
        /\ ~EmptyConfirm(wire[n].opts) => Reading(n).rc = 0

(* The comments at options.c:131 and :506 say that a failed change is      *)
(* answered with an empty Confirm and that dccp_insert_feat sends it: the  *)
(* peer's dccp_parse_options is expected to accept every option area that  *)
(* dccp_insert_options builds.                                             *)
EveryBuiltAreaAccepted ==
    \A n \in Ends : wire[n] # NoPkt => Reading(n).rc = 0

(* The length checks of dccp_parse_options (lines 88-103 and the checks of *)
(* each case): whatever bytes arrive, no read goes past opt_end, and an    *)
(* area that is accepted is a sequence of whole options.                   *)
ParserInBounds ==
    ~out.oob /\ ~out.unsound

(* The early return of dccp_insert_option_timestamp_echo (line 435): a     *)
(* step that sends a packet clears dccps_timestamp_echo only if the packet *)
(* carries the echo, so a timestamp that found no room is echoed later.    *)
EchoKeptUntilSent ==
    [][\A n \in Ends :
          /\ wire[Peer(n)] = NoPkt /\ wire'[Peer(n)] # NoPkt
          /\ ep[n].timestamp_echo # 0 /\ ep'[n].timestamp_echo = 0
          => Carries(wire'[Peer(n)].opts, {DCCPO_TIMESTAMP_ECHO})]_vars

=============================================================================
