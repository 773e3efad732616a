------------------------------- MODULE CfCtrl -------------------------------
(***************************************************************************)
(* The CAIF control layer: net/caif/cfctrl.c.  It sends the requests that  *)
(* set up and destroy channels, keeps the list of the requests that wait   *)
(* for a response, and matches every response it receives to a request of *)
(* that list to find the client layer that asked.                          *)
(*                                                                         *)
(* The operators work on the record c of struct cfctrl: first_req, the     *)
(* list of waiting requests; dev_id, the id of serv.dev_info that every    *)
(* packet points to; loop_linkused and last_linkid of the loopback; and    *)
(* dn, the packets handed to the transmit of the layer below.  The         *)
(* sequence numbers req_seq_no and rsp_seq_no are written and never read   *)
(* in these files and are left out.  f is the set of steps that fail in    *)
(* the call.                                                               *)
(***************************************************************************)
EXTENDS Integers, Sequences, SequencesExt, FiniteSetsExt

CONSTANTS
    LinkBits    \* width of a link id (u8)

U8 == 2 ^ LinkBits
NULL == "NULL"

\* The link types of which cfctrl_recv parses the parameters.
Services == {"VEI", "DATAGRAM", "RFM", "UTIL", "VIDEO", "DBG"}

NoParam == [linktype |-> "none", chtype |-> 0, priority |-> 0, phyid |-> 0,
            endpoint |-> 0, u |-> 0]
NoReq == [cmd |-> "none", param |-> NoParam, channel_id |-> 0, client_layer |-> NULL]

\* cfctrl_create.
Ctrl0 == [first_req |-> <<>>, dev_id |-> U8 - 1, loop_linkused |-> {},
          last_linkid |-> 0, dn |-> <<>>]

\* u stands for the parameters of the link type: connid, volume, the
\* utility fifo, name and params.
param_eq(p1, p2) ==
    /\ \A fld \in {"linktype", "priority", "phyid", "endpoint", "chtype"} :
          p1[fld] = p2[fld]
    /\ \/ p1.linktype \in {"VEI", "DBG"}
       \/ p1.linktype \in {"DATAGRAM", "RFM", "UTIL", "VIDEO"} /\ p1.u = p2.u

req_eq_cmd_only(r1, r2) == r1.cmd = r2.cmd

cfctrl_req_eq(r1, r2) ==
    /\ r1.cmd = r2.cmd
    /\ IF r1.cmd = "LINK_SETUP" THEN param_eq(r1.param, r2.param)
                                ELSE r1.channel_id = r2.channel_id

cfctrl_insert_req(c, req) == [c EXCEPT !.first_req = Append(@, req)]

\* The places of the requests of the list that equal req.
Equal(c, req) == {i \in DOMAIN c.first_req : cfctrl_req_eq(req, c.first_req[i])}

\* The oldest request that equals req leaves the list and is returned.
cfctrl_remove_req(c, req) ==
    IF Equal(c, req) = {} THEN [ctrl |-> c, req |-> NoReq]
    ELSE [ctrl |-> [c EXCEPT !.first_req = RemoveAt(@, Min(Equal(c, req)))],
          req  |-> c.first_req[Min(Equal(c, req))]]

Pkt(cmd) == [cmd |-> cmd, rsp |-> FALSE, err |-> FALSE, erroneous |-> FALSE,
             param |-> NoParam, linkid |-> 0, phy |-> 0]

\* What cfctrl_linkup_request writes of the parameters and cfctrl_recv reads.
OnWire(param) ==
    [param EXCEPT !.endpoint = @ % 4,
                  !.phyid    = ((param.priority * 8 + param.phyid) % 256) % 8,
                  !.priority = ((param.priority * 8 + param.phyid) % 256) \div 8]

\* dn->transmit, and cfpkt_destroy when it fails.
Transmit(c, pkt, fails) ==
    IF fails THEN c ELSE [c EXCEPT !.dn = Append(@, [pkt EXCEPT !.phy = c.dev_id])]

cfctrl_enum_req(c, physlinkid, f) ==
    IF "enum_pkt" \in f THEN c
    ELSE Transmit([c EXCEPT !.dev_id = physlinkid], Pkt("ENUM"), "enum_tx" \in f)

linkup_request_unlisted(c, param, user_layer, f) ==
    IF {"linkup_pkt", "linkup_req"} \cap f # {} THEN c
    ELSE Transmit([c EXCEPT !.dev_id = param.phyid],
                  [Pkt("LINK_SETUP") EXCEPT !.param = OnWire(param)],
                  "linkup_tx" \in f)

cfctrl_linkup_request(c, param, user_layer, f) ==
    IF {"linkup_pkt", "linkup_req"} \cap f # {} THEN c
    ELSE Transmit([cfctrl_insert_req(c, [NoReq EXCEPT !.cmd = "LINK_SETUP",
                                                      !.param = param,
                                                      !.client_layer = user_layer])
                      EXCEPT !.dev_id = param.phyid],
                  [Pkt("LINK_SETUP") EXCEPT !.param = OnWire(param)],
                  "linkup_tx" \in f)

\* cfctrl_insert_req2 records nothing when kmalloc fails; the request is
\* sent all the same.
cfctrl_linkdown_req(c, channelid, client, f) ==
    IF "linkdown_pkt" \in f THEN [ctrl |-> c, ret |-> "ENOMEM"]
    ELSE [ctrl |-> Transmit(IF "linkdown_req" \in f THEN c
                            ELSE cfctrl_insert_req(c,
                                   [NoReq EXCEPT !.cmd = "LINK_DESTROY",
                                                 !.channel_id = channelid,
                                                 !.client_layer = client]),
                            [Pkt("LINK_DESTROY") EXCEPT !.linkid = channelid],
                            "linkdown_tx" \in f),
          ret  |-> IF "linkdown_tx" \in f THEN "EIO" ELSE "OK"]

SimpleReq(c, cmd, f) ==
    IF "simple_pkt" \in f THEN c ELSE Transmit(c, Pkt(cmd), "simple_tx" \in f)

cfctrl_sleep_req(c, f) == SimpleReq(c, "SLEEP", f)
cfctrl_wake_req(c, f) == SimpleReq(c, "WAKE", f)
cfctrl_getstartreason_req(c, f) == SimpleReq(c, "START_REASON", f)

-----------------------------------------------------------------------------
\* The link ids the two searches of handle_loop visit, in u8.
LoopUp(c) == {l \in c.last_linkid + 1 .. U8 - 2 : l \notin c.loop_linkused}
LoopDown(c) == {l \in 1 .. (c.last_linkid - 1) % U8 : l \notin c.loop_linkused}

LoopTaken_unmarked(c, pkt, linkid) ==
    [ctrl |-> [c EXCEPT !.last_linkid = linkid],
     pkt  |-> [pkt EXCEPT !.linkid = linkid]]

LoopTaken(c, pkt, linkid) ==
    [ctrl |-> [c EXCEPT !.loop_linkused = @ \cup {linkid}, !.last_linkid = linkid],
     pkt  |-> [pkt EXCEPT !.linkid = linkid,
                          !.erroneous = /\ pkt.param.linktype = "UTIL"
                                        /\ pkt.param.chtype # 0]]

\* A request that comes back from the loopback gets what the modem would
\* have added.  When no link id is free the -EINVAL is not CAIF_FAILURE and
\* the packet goes on without a link id.
handle_loop(c, pkt) ==
    CASE pkt.cmd = "LINK_SETUP" ->
            IF LoopUp(c) # {} THEN LoopTaken(c, pkt, Min(LoopUp(c)))
            ELSE IF LoopDown(c) # {} THEN LoopTaken(c, pkt, Max(LoopDown(c)))
            ELSE [ctrl |-> c, pkt |-> [pkt EXCEPT !.erroneous = TRUE]]
      [] pkt.cmd = "LINK_DESTROY" ->
            [ctrl |-> [c EXCEPT !.loop_linkused = @ \ {pkt.linkid}], pkt |-> pkt]
      [] OTHER -> [ctrl |-> c, pkt |-> pkt]

\* The call cfctrl_recv makes of the response functions of cfcnfg.
Call(fn, linkid, pkt, req) ==
    [fn |-> fn, linkid |-> linkid, serv |-> pkt.param.linktype,
     phyid |-> pkt.param.phyid, client_layer |-> req.client_layer]

NoCall == Call("none", 0, Pkt("none"), NoReq)

Removed(c, pkt) ==
    cfctrl_remove_req(c, [NoReq EXCEPT !.cmd = pkt.cmd, !.param = pkt.param,
                                       !.channel_id = pkt.linkid])

\* The switch of cfctrl_recv.
Dispatch(c, pkt) ==
    CASE pkt.cmd = "LINK_SETUP" /\ pkt.param.linktype \in Services ->
            [ctrl |-> Removed(c, pkt).ctrl, ret |-> 0,
             cb   |-> IF pkt.err \/ pkt.erroneous
                      THEN Call("reject_rsp", 0, pkt, Removed(c, pkt).req)
                      ELSE Call("linksetup_rsp", pkt.linkid, pkt, Removed(c, pkt).req)]
      [] pkt.cmd = "LINK_DESTROY" ->
            [ctrl |-> Removed(c, pkt).ctrl, ret |-> 0,
             cb   |-> Call("linkdestroy_rsp", pkt.linkid, pkt, Removed(c, pkt).req)]
      [] pkt.cmd \in {"LINK_ERR", "ENUM", "SLEEP", "WAKE", "LINK_RECONF", "RADIO_SET"} ->
            [ctrl |-> c, ret |-> 0, cb |-> NoCall]
      [] OTHER -> [ctrl |-> c, ret |-> -1, cb |-> NoCall]

Looped(c, pkt) ==
    IF pkt.cmd # "LINK_ERR" /\ ~pkt.rsp THEN handle_loop(c, pkt)
                                        ELSE [ctrl |-> c, pkt |-> pkt]

cfctrl_recv(c, pkt) == Dispatch(Looped(c, pkt).ctrl, Looped(c, pkt).pkt)

=============================================================================
