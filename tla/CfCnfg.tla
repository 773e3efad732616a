------------------------------- MODULE CfCnfg -------------------------------
(***************************************************************************)
(* The CAIF configuration layer, net/caif/cfcnfg.c, on top of the control  *)
(* layer of module CfCtrl.  Clients (adaptation layers) ask for a channel  *)
(* on a physical interface; cfcnfg sends the request through cfctrl, and   *)
(* when cfctrl has matched the response it puts a service layer for the    *)
(* channel into the multiplexer and tells the client.  The modem, or the   *)
(* loopback, answers the requests in any order.                            *)
(*                                                                         *)
(* The multiplexer (cfmuxl.c), the service layers (cfsrvl.c), the clients  *)
(* and the modem are outside these files.                                  *)
(***************************************************************************)
EXTENDS CfCtrl

CONSTANTS
    MAX_PHY_LAYERS, \* size of phy_layers
    Clients,        \* the adaptation layers
    Params,         \* the link parameters clients ask for, without the phyid
    Prefs,          \* the preferences of physical interfaces
    Modes,          \* what the interfaces lead to: "modem", "loop"
    Faults,         \* the steps that may fail
    Careful,        \* clients close only a channel that was answered, and
                    \* an interface is removed only when nothing uses it
    MaxDn           \* bound on the packets below cfctrl, both ways

ASSUME /\ MAX_PHY_LAYERS \in 2 .. 8 /\ MaxDn \in Nat /\ Careful \in BOOLEAN
       /\ Modes \subseteq {"modem", "loop"} /\ NULL \notin Clients

VARIABLES
    ctrl,       \* struct cfctrl, with the packets handed to the layer below
    phy_layers, \* phy_layers[i]: frm_layer set, id, pref, phy_ref_count
    last_phyid,
    mux,        \* the service layers the multiplexer sends payload up to
    adap,       \* adap[a]: id and dn of the adaptation layer, what its
                \* client last did or was told (phase) and asked for
    up,         \* the packets on their way to cfctrl_recv
    modem,      \* the link ids the modem has given out
    phy,        \* phy[i]: the last modemcmd the interface got
    mode

vars == <<ctrl, phy_layers, last_phyid, mux, adap, up, modem, phy, mode>>

PhyIds == 1 .. MAX_PHY_LAYERS - 1
LinkIds == 1 .. U8 - 1
NoPhy == [frm_layer |-> FALSE, id |-> 0, pref |-> "none", phy_ref_count |-> 0]
NoServ == [id |-> 0, serv |-> "none", phy |-> 0, up |-> NULL]
Fresh == [id |-> 0, dn |-> NoServ, phase |-> "idle", asked |-> NoParam]

\* At most one step of a call fails; steps are the steps the call has.
FaultChoice(steps) == {{}} \cup {{x} : x \in Faults \cap steps}

-----------------------------------------------------------------------------
(* Operations on the physical interfaces *)

FreePhyIds == {i \in PhyIds : ~phy_layers[i].frm_layer}

\* The id cfcnfg_add_phy_layer picks, 0 when there is none.
NewPhyId ==
    IF ~phy_layers[last_phyid].frm_layer THEN last_phyid
    ELSE IF FreePhyIds # {} THEN Min(FreePhyIds) ELSE 0

Advanced_noround == IF ~phy_layers[last_phyid].frm_layer THEN last_phyid + 1 ELSE last_phyid

Advanced ==
    IF ~phy_layers[last_phyid].frm_layer
    THEN (last_phyid % (MAX_PHY_LAYERS - 1)) + 1 ELSE last_phyid

cfcnfg_add_phy_layer(pref, f) ==
    /\ last_phyid' = Advanced
    /\ phy_layers' =
         IF NewPhyId = 0 \/ "driver" \in f THEN phy_layers
         ELSE [phy_layers EXCEPT ![NewPhyId] =
                 [frm_layer |-> "frml" \notin f, id |-> NewPhyId, pref |-> pref,
                  phy_ref_count |-> 0]]
    /\ phy' = IF NewPhyId = 0 \/ "driver" \in f THEN phy
              ELSE [phy EXCEPT ![NewPhyId] = "none"]
    /\ UNCHANGED <<ctrl, mux, adap, up, modem, mode>>

Unused(i) ==
    /\ \A s \in mux : s.phy # i
    /\ \A k \in DOMAIN ctrl.first_req : ctrl.first_req[k].param.phyid # i
    /\ \A k \in DOMAIN ctrl.dn : ctrl.dn[k].param.phyid # i
    /\ \A k \in DOMAIN up : up[k].param.phyid # i

cfcnfg_del_phy_layer(i) ==
    /\ phy_layers[i].frm_layer
    /\ Careful => Unused(i)
    /\ phy_layers' = [phy_layers EXCEPT ![i] = NoPhy]
    /\ UNCHANGED <<ctrl, last_phyid, mux, adap, up, modem, phy, mode>>

\* cfcnfg_get_phyid: an interface of the preference, otherwise any that
\* has an id; 0 for NULL.
Preferred(pref) == {i \in PhyIds : /\ phy_layers[i].id = i
                                   /\ phy_layers[i].pref = pref
                                   /\ phy_layers[i].frm_layer}
Known == {i \in PhyIds : phy_layers[i].id = i}

cfcnfg_get_phyid(pref) ==
    IF Preferred(pref) # {} THEN Min(Preferred(pref))
    ELSE IF Known # {} THEN Min(Known) ELSE 0

\* cfcnfg_get_phyinfo: the index of the interface with the id, -1 for NULL.
cfcnfg_get_phyinfo(phyid) ==
    LET found == {i \in DOMAIN phy_layers :
                    phy_layers[i].frm_layer /\ phy_layers[i].id = phyid}
    IN  IF found = {} THEN -1 ELSE Min(found)

-----------------------------------------------------------------------------
(* Requests of the clients *)

\* The client asks for a channel with parameters p on the interface that
\* cfcnfg_get_phyid gave it.
cfcnfg_add_adaptation_layer(a, p, f) ==
    /\ adap[a].phase = "idle"
    /\ Len(ctrl.dn) + Len(up) + 2 <= MaxDn
    /\ IF phy_layers[p.phyid].frm_layer
       THEN /\ ctrl' = cfctrl_linkup_request(cfctrl_enum_req(ctrl, p.phyid, f), p, a, f)
            /\ adap' = [adap EXCEPT ![a].phase = "asked", ![a].asked = p]
       ELSE UNCHANGED <<ctrl, adap>>
    /\ UNCHANGED <<phy_layers, last_phyid, mux, up, modem, phy, mode>>

Connect(a) ==
    \E q \in Params, pref \in Prefs,
       f \in FaultChoice({"enum_pkt", "enum_tx", "linkup_pkt", "linkup_req", "linkup_tx"}) :
        cfcnfg_add_adaptation_layer(a, [q EXCEPT !.phyid = cfcnfg_get_phyid(pref)], f)

Released_keep(i) == UNCHANGED <<phy_layers, phy>>

\* The end of cfcnfg_del_adapt_layer: the interface loses a user.
Released(i) ==
    /\ phy_layers' = [phy_layers EXCEPT ![i].phy_ref_count = @ - 1]
    /\ phy' = IF phy_layers[i].phy_ref_count = 1 THEN [phy EXCEPT ![i] = "USELESS"]
                                                  ELSE phy

\* The client gives the layer up: it waits for DEINIT_RSP when the request
\* was sent, and frees the layer when cfcnfg_del_adapt_layer failed.
cfcnfg_del_adapt_layer(a, f) ==
    /\ adap[a].phase \in {"up", "failed"} \cup (IF Careful THEN {} ELSE {"asked"})
    /\ Len(ctrl.dn) + Len(up) < MaxDn
    /\ \E i \in {IF adap[a].id = 0 \/ adap[a].dn = NoServ
                 THEN -1 ELSE cfcnfg_get_phyinfo(adap[a].dn.phy)} :
          IF i = -1
          THEN /\ adap' = [adap EXCEPT ![a] = Fresh]
               /\ UNCHANGED <<ctrl, phy_layers, phy>>
          ELSE \E r \in {cfctrl_linkdown_req(ctrl, adap[a].id, a, f)} :
                 /\ ctrl' = r.ctrl
                 /\ adap' = [adap EXCEPT ![a] = IF r.ret = "OK"
                                                THEN [@ EXCEPT !.phase = "closing"]
                                                ELSE Fresh]
                 /\ Released(i)
    /\ UNCHANGED <<last_phyid, mux, up, modem, mode>>

\* cfctrl_sleep_req, cfctrl_wake_req and cfctrl_getstartreason_req.
Request(cmd) ==
    /\ Len(ctrl.dn) + Len(up) < MaxDn
    /\ \E f \in FaultChoice({"simple_pkt", "simple_tx"}) :
         ctrl' = CASE cmd = "SLEEP" -> cfctrl_sleep_req(ctrl, f)
                   [] cmd = "WAKE" -> cfctrl_wake_req(ctrl, f)
                   [] OTHER -> cfctrl_getstartreason_req(ctrl, f)
    /\ UNCHANGED <<phy_layers, last_phyid, mux, adap, up, modem, phy, mode>>

-----------------------------------------------------------------------------
(* The response functions *)

\* The state the response functions change.
Here == [phy_layers |-> phy_layers, mux |-> mux, adap |-> adap, phy |-> phy]

cncfg_reject_rsp(s, cb) ==
    IF cb.client_layer = NULL THEN s
    ELSE [s EXCEPT !.adap[cb.client_layer].phase = "failed"]

Counted(s, cb) ==
    [s EXCEPT !.phy_layers[cb.phyid].phy_ref_count = @ + 1,
              !.phy[cb.phyid] = IF /\ s.phy_layers[cb.phyid].phy_ref_count = 0
                                   /\ s.phy_layers[cb.phyid].id # 0
                                THEN "USEFULL" ELSE @,
              !.adap[cb.client_layer].id = cb.linkid]

\* The service layer is made, put into the multiplexer and between the
\* multiplexer and the client, and its INIT_RSP reaches the client.
Served(s, cb) ==
    LET servicel == [id |-> cb.linkid, serv |-> cb.serv, phy |-> cb.phyid,
                     up |-> cb.client_layer]
    IN  [s EXCEPT !.mux = @ \cup {servicel},
                  !.adap[cb.client_layer].dn = servicel,
                  !.adap[cb.client_layer].phase = "up"]

cncfg_linkup_rsp(s, cb, f) ==
    IF cb.client_layer = NULL THEN s
    ELSE IF cb.serv \in Services /\ "servl" \notin f THEN Served(Counted(s, cb), cb)
    ELSE Counted(s, cb)

\* The service layer of the link leaves the multiplexer; it is destroyed,
\* after its DEINIT_RSP reached the client, when it is the client's.
cncfg_linkdestroy_rsp(s, cb) ==
    LET found == {l \in s.mux : l.id = cb.linkid}
    IN  IF found = {} THEN s
        ELSE LET servl == CHOOSE l \in found : TRUE
             IN  IF servl.up # cb.client_layer
                 THEN [s EXCEPT !.mux = @ \ {servl}]
                 ELSE [s EXCEPT !.mux = @ \ {servl}, !.adap[servl.up] = Fresh]

\* cfctrl_recv takes the next packet and calls the response function.
Recv ==
    /\ up # <<>>
    /\ up' = Tail(up)
    /\ \E r \in {cfctrl_recv(ctrl, Head(up))}, f \in FaultChoice({"servl"}) :
         /\ ctrl' = r.ctrl
         /\ \E s \in {CASE r.cb.fn = "linksetup_rsp" -> cncfg_linkup_rsp(Here, r.cb, f)
                        [] r.cb.fn = "reject_rsp" -> cncfg_reject_rsp(Here, r.cb)
                        [] r.cb.fn = "linkdestroy_rsp" -> cncfg_linkdestroy_rsp(Here, r.cb)
                        [] OTHER -> Here} :
              /\ phy_layers' = s.phy_layers /\ mux' = s.mux
              /\ adap' = s.adap /\ phy' = s.phy
    /\ UNCHANGED <<last_phyid, modem, mode>>

-----------------------------------------------------------------------------
(* The other end *)

\* The modem answers one of the requests it has: with a link id it has not
\* given out, or with the error bit.
ModemAnswer(k) ==
    /\ mode = "modem" /\ k \in DOMAIN ctrl.dn
    /\ ctrl' = [ctrl EXCEPT !.dn = RemoveAt(@, k)]
    /\ \E rsp \in {[ctrl.dn[k] EXCEPT !.rsp = TRUE]} :
         CASE rsp.cmd = "LINK_SETUP" ->
                \/ /\ up' = Append(up, [rsp EXCEPT !.err = TRUE])
                   /\ UNCHANGED modem
                \/ \E l \in LinkIds \ modem :
                     /\ up' = Append(up, [rsp EXCEPT !.linkid = l])
                     /\ modem' = modem \cup {l}
           [] rsp.cmd = "LINK_DESTROY" ->
                /\ up' = Append(up, rsp)
                /\ modem' = modem \ {rsp.linkid}
           [] OTHER -> up' = Append(up, rsp) /\ UNCHANGED modem
    /\ UNCHANGED <<phy_layers, last_phyid, mux, adap, phy, mode>>

\* The loopback hands the oldest request back as it is.
Loopback ==
    /\ mode = "loop" /\ ctrl.dn # <<>>
    /\ ctrl' = [ctrl EXCEPT !.dn = Tail(@)]
    /\ up' = Append(up, Head(ctrl.dn))
    /\ UNCHANGED <<phy_layers, last_phyid, mux, adap, modem, phy, mode>>

\* cfcnfg_create and cfctrl_create.
Init ==
    /\ ctrl = Ctrl0
    /\ phy_layers = [i \in 0 .. MAX_PHY_LAYERS - 1 |-> NoPhy]
    /\ last_phyid = 1
    /\ mux = {}
    /\ adap = [a \in Clients |-> Fresh]
    /\ up = <<>> /\ modem = {}
    /\ phy = [i \in PhyIds |-> "none"]
    /\ mode \in Modes

Next ==
    \/ \E pref \in Prefs, f \in FaultChoice({"driver", "frml"}) :
          cfcnfg_add_phy_layer(pref, f)
    \/ \E i \in PhyIds : cfcnfg_del_phy_layer(i)
    \/ \E a \in Clients : Connect(a)
    \/ \E a \in Clients,
          f \in FaultChoice({"linkdown_pkt", "linkdown_req", "linkdown_tx"}) :
          cfcnfg_del_adapt_layer(a, f)
    \/ \E cmd \in {"SLEEP", "WAKE", "START_REASON"} : Request(cmd)
    \/ Recv
    \/ \E k \in DOMAIN ctrl.dn : ModemAnswer(k)
    \/ Loopback

(* The modem does not leave its oldest request without an answer, the     *)
(* loopback returns what it gets, and the receive path hands every packet  *)
(* to cfctrl_recv.                                                         *)
Fairness == WF_vars(Recv) /\ WF_vars(Loopback) /\ WF_vars(ModemAnswer(1))

Spec == Init /\ [][Next]_vars /\ Fairness

-----------------------------------------------------------------------------
ParamType == [linktype : Services \cup {"DECM", "none"}, chtype : 0 .. 15,
              priority : 0 .. 31, phyid : 0 .. 7, endpoint : 0 .. 255, u : Nat]
ServType == [id : LinkIds, serv : Services, phy : PhyIds, up : Clients]

TypeOK ==
    /\ ctrl.dev_id \in 0 .. U8 - 1 /\ ctrl.last_linkid \in 0 .. U8 - 1
    /\ ctrl.loop_linkused \subseteq LinkIds
    /\ \A k \in DOMAIN ctrl.first_req :
          ctrl.first_req[k] \in [cmd : {"LINK_SETUP", "LINK_DESTROY"}, param : ParamType,
                                 channel_id : 0 .. U8 - 1, client_layer : Clients]
    /\ Len(ctrl.dn) + Len(up) <= MaxDn
    /\ phy_layers \in [0 .. MAX_PHY_LAYERS - 1 ->
                         [frm_layer : BOOLEAN, id : 0 .. MAX_PHY_LAYERS - 1,
                          pref : Prefs \cup {"none"}, phy_ref_count : Int]]
    /\ last_phyid \in PhyIds
    /\ mux \subseteq ServType
    /\ adap \in [Clients -> [id : 0 .. U8 - 1, dn : ServType \cup {NoServ}, asked : ParamType,
                             phase : {"idle", "asked", "up", "failed", "closing"}]]
    /\ modem \subseteq LinkIds /\ mode \in Modes

(* cfctrl_remove_req, handle_loop, cncfg_linkup_rsp and                    *)
(* cncfg_linkdestroy_rsp, with requests of several clients answered in any *)
(* order: every service layer of the multiplexer has a link id of its own  *)
(* and sits on top of it the client that holds this link id, and every     *)
(* request that waits in the list of cfctrl is of a client that waits for  *)
(* that answer.                                                            *)
ChannelsMatchClients ==
    /\ \A s \in mux : /\ adap[s.up].phase \in {"up", "closing"}
                      /\ adap[s.up].dn = s /\ adap[s.up].id = s.id
                      /\ \A t \in mux : t.id = s.id => t = s
    /\ \A a \in Clients : adap[a].phase = "up" => adap[a].dn \in mux
    /\ \A k \in DOMAIN ctrl.first_req :
         LET r == ctrl.first_req[k]
         IN  IF r.cmd = "LINK_SETUP"
             THEN adap[r.client_layer].phase = "asked"
             ELSE /\ adap[r.client_layer].phase = "closing"
                  /\ adap[r.client_layer].id = r.channel_id

(* cfctrl_req_eq and param_eq against the parameters cfctrl_recv reads     *)
(* from the response: the channel a client gets is of the link type and on *)
(* the interface it asked for.                                             *)
AnswerIsWhatWasAsked ==
    \A a \in Clients : adap[a].phase \in {"up", "closing"} =>
        /\ adap[a].dn.serv = adap[a].asked.linktype
        /\ adap[a].dn.phy = adap[a].asked.phyid

Users(i) == {a \in Clients : adap[a].phase = "up" /\ adap[a].dn.phy = i}

(* phy_ref_count, counted up in cncfg_linkup_rsp and down in               *)
(* cfcnfg_del_adapt_layer: the count of an interface is the number of      *)
(* channels in use on it, and the interface was told last that it is       *)
(* useful exactly when there is one.                                       *)
PhyUsefulWhileUsed ==
    \A i \in PhyIds : phy_layers[i].frm_layer =>
        /\ phy_layers[i].phy_ref_count = Cardinality(Users(i))
        /\ phy[i] = "USEFULL" <=> Users(i) # {}

(* cfctrl_linkup_request, the modem or handle_loop, cfctrl_recv and the    *)
(* response functions: a client that asked for a channel is told that it   *)
(* is up or that it failed.                                                *)
AskedIsAnswered ==
    \A a \in Clients : adap[a].phase = "asked" ~> adap[a].phase \in {"up", "failed"}

=============================================================================
