----------------------------- MODULE XfrmBundle -----------------------------
(***************************************************************************)
(* What net/xfrm/xfrm_policy.c and net/xfrm/xfrm_output.c do with one      *)
(* bundle and with the code its states run: the maps of transform types    *)
(* and of encapsulation modes that the afinfo object of a family carries,  *)
(* with the reference a state holds to the module of its type and of its   *)
(* mode; the path MTU of a bundle, set by xfrm_init_pmtu and kept by       *)
(* xfrm_bundle_ok; xfrm_dst_ifdown; and xfrm_output, which sends a packet  *)
(* down the bundle one state at a time.                                    *)
(*                                                                         *)
(* A bundle is the chain xd of xfrm_dst entries, xd[1] the one a packet    *)
(* enters at; the child of the last is the route path.  Module loading,    *)
(* the life of a state (xfrm_state.c), the making of a bundle              *)
(* (xfrm4_policy.c) and dst_ifdown (dst.c) are outside these files; what   *)
(* they do is written from their contract.                                 *)
(***************************************************************************)
EXTENDS Integers, Sequences, FiniteSets, SequencesExt, XfrmAfinfo

CONSTANTS
    Types,              \* the xfrm_type objects: [id, proto, family, owner]
    Modes,              \* the xfrm_mode objects: [id, encap, family, owner]
    Modules,            \* the modules that own them
    States,             \* the memory of states: 1 .. n
    Kinds,              \* what the state in each memory is asked to be
    Flows,              \* the flows bundles are tested against
    Routes,             \* the routes under a bundle
    Mtus,               \* the path MTUs a route may have
    MinMtu,             \* the least xfrm_state_mtu answers (68)
    Devs,               \* the devices
    loopback_dev,
    Tasks,
    GenBits,            \* the width of a generation (32)
    Faults              \* the steps that may fail

XFRM_MODE_TRANSPORT == 0
XFRM_MODE_TUNNEL == 1
XFRM_MODE_MAX == 5
XFRM_INF == -1
AF_UNSPEC == 0
Protos == {t.proto : t \in Types} \cup {Kinds[s].proto : s \in States}
Encaps == 0 .. XFRM_MODE_MAX - 1
AfIds == {a.id : a \in Afinfos}

ASSUME /\ States \subseteq Nat \ {NULL} /\ Routes \subseteq Nat \ {NULL}
       /\ loopback_dev \in Devs /\ Mtus \subseteq Nat /\ MinMtu \in Nat
       /\ \A o \in Types \cup Modes : o.id \in Nat \ {NULL} /\ o.owner \in Modules \cup {NULL}
       /\ \A m \in Modules : Cardinality({o \in Types \cup Modes : o.owner = m}) = 1

VARIABLES
    k,          \* the maps, the modules, the states, the bundle, routes, devices
    task,       \* what each task is in the middle of
    out         \* the step taken last and what it returned

vars == <<k, task, out>>

AfinfoOf(id) == CHOOSE a \in Afinfos : a.id = id
TypeOf(id) == CHOOSE t \in Types : t.id = id
ModeOf(id) == CHOOSE m \in Modes : m.id = id
OwnedBy(m) == CHOOSE o \in Types \cup Modes : o.owner = m
\* The flow of a caller that has none (stale_bundle passes NULL).
NoFlow == [id |-> "none"]
NoState == [st |-> "free", type |-> NULL, mode |-> NULL, genid |-> 0, packets |-> 0]
Idle == [pc |-> "idle"]
FaultChoice(steps) == {{}} \cup {{x} : x \in Faults \cap steps}
Least(a, b) == IF a < b THEN a ELSE b

-----------------------------------------------------------------------------
(* Types and modes *)

\* A module that is being removed gives no reference; code that is built
\* in has no owner.
try_module_get(kk, owner) == owner = NULL \/ kk.mod[owner].st = "live"
module_hold(kk, owner) == IF owner = NULL THEN kk ELSE [kk EXCEPT !.mod[owner].refcnt = @ + 1]
module_put(kk, owner) == IF owner = NULL THEN kk ELSE [kk EXCEPT !.mod[owner].refcnt = @ - 1]

xfrm_register_type(kk, type) ==
    LET a == xfrm_policy_lock_afinfo(kk.afinfo, type.family)
    IN  IF a = NULL THEN [k |-> kk, err |-> "EAFNOSUPPORT"]
        ELSE IF kk.type_map[a][type.proto] # NULL THEN [k |-> kk, err |-> "EEXIST"]
        ELSE [k |-> [kk EXCEPT !.type_map[a][type.proto] = type.id], err |-> "ok"]

xfrm_unregister_type(kk, type) ==
    LET a == xfrm_policy_lock_afinfo(kk.afinfo, type.family)
    IN  IF a = NULL THEN [k |-> kk, err |-> "EAFNOSUPPORT"]
        ELSE IF kk.type_map[a][type.proto] # type.id THEN [k |-> kk, err |-> "ENOENT"]
        ELSE [k |-> [kk EXCEPT !.type_map[a][type.proto] = NULL], err |-> "ok"]

get_type_unchecked(kk, proto, family, modload_attempted) ==
    LET a == xfrm_policy_get_afinfo(kk.afinfo, family)
        type == IF a = NULL THEN NULL ELSE kk.type_map[a][proto]
    IN  [k |-> IF type # NULL THEN module_hold(kk, TypeOf(type).owner) ELSE kk,
         obj |-> type, retry |-> a # NULL /\ type = NULL /\ ~modload_attempted]

\* One pass of xfrm_get_type: the type with a reference to its module, or
\* retry when request_module is to be tried first.
xfrm_get_type(kk, proto, family, modload_attempted) ==
    LET a == xfrm_policy_get_afinfo(kk.afinfo, family)
        type == IF a = NULL THEN NULL ELSE kk.type_map[a][proto]
        got == type # NULL /\ try_module_get(kk, TypeOf(type).owner)
    IN  [k |-> IF got THEN module_hold(kk, TypeOf(type).owner) ELSE kk,
         obj |-> IF got THEN type ELSE NULL,
         retry |-> a # NULL /\ ~got /\ ~modload_attempted]

xfrm_put_type(kk, type) == module_put(kk, TypeOf(type).owner)

xfrm_register_mode(kk, mode) ==
    LET a == xfrm_policy_lock_afinfo(kk.afinfo, mode.family)
    IN  IF mode.encap >= XFRM_MODE_MAX THEN [k |-> kk, err |-> "EINVAL"]
        ELSE IF a = NULL THEN [k |-> kk, err |-> "EAFNOSUPPORT"]
        ELSE IF kk.mode_map[a][mode.encap] # NULL THEN [k |-> kk, err |-> "EEXIST"]
        ELSE [k |-> [kk EXCEPT !.mode_map[a][mode.encap] = mode.id], err |-> "ok"]

xfrm_unregister_mode(kk, mode) ==
    LET a == xfrm_policy_lock_afinfo(kk.afinfo, mode.family)
    IN  IF mode.encap >= XFRM_MODE_MAX THEN [k |-> kk, err |-> "EINVAL"]
        ELSE IF a = NULL THEN [k |-> kk, err |-> "EAFNOSUPPORT"]
        ELSE IF kk.mode_map[a][mode.encap] # mode.id THEN [k |-> kk, err |-> "ENOENT"]
        ELSE [k |-> [kk EXCEPT !.mode_map[a][mode.encap] = NULL], err |-> "ok"]

\* One pass of xfrm_get_mode.
xfrm_get_mode(kk, encap, family, modload_attempted) ==
    LET a == xfrm_policy_get_afinfo(kk.afinfo, family)
        mode == IF a = NULL THEN NULL ELSE kk.mode_map[a][encap]
        got == mode # NULL /\ try_module_get(kk, ModeOf(mode).owner)
    IN  IF encap >= XFRM_MODE_MAX THEN [k |-> kk, obj |-> NULL, retry |-> FALSE]
        ELSE [k |-> IF got THEN module_hold(kk, ModeOf(mode).owner) ELSE kk,
              obj |-> IF got THEN mode ELSE NULL,
              retry |-> a # NULL /\ ~got /\ ~modload_attempted]

xfrm_put_mode(kk, mode) == module_put(kk, ModeOf(mode).owner)

\* The route afinfo->dst_lookup finds is the caller's to choose; the result
\* is the error.
xfrm_dst_lookup(kk, family) ==
    LET a == xfrm_policy_get_afinfo(kk.afinfo, family)
    IN  IF a = NULL THEN "EAFNOSUPPORT"
        ELSE IF ~AfinfoOf(a).dst_lookup THEN "EINVAL" ELSE "ok"

-----------------------------------------------------------------------------
(* The path MTU of a bundle *)

\* xfrm_state_mtu of xfrm_state.c: what is left of mtu under the headers
\* of the state.
xfrm_state_mtu(kk, s, mtu) == Max({mtu - Kinds[s].header_len, MinMtu})

dst_check(kk, r) == ~kk.route[r].obsolete

\* dst_mtu of the child of xd[i].
ChildMtu(kk, i) == IF i < Len(kk.xd) THEN kk.xd[i + 1].mtu ELSE kk.route[kk.path].mtu

RECURSIVE InitPmtu(_, _)
InitPmtu(kk, i) ==
    LET pmtu == ChildMtu(kk, i)
        route_mtu_cached == kk.route[kk.xd[i].route].mtu
    IN  IF i = 0 THEN kk
        ELSE InitPmtu([kk EXCEPT !.xd[i].child_mtu_cached = pmtu,
                                 !.xd[i].route_mtu_cached = route_mtu_cached,
                                 !.xd[i].mtu = Least(xfrm_state_mtu(kk, kk.xd[i].xfrm, pmtu),
                                                     route_mtu_cached)],
                      i - 1)

\* From the entry next to the route along next to the first.
xfrm_init_pmtu(kk) == InitPmtu(kk, Len(kk.xd))

xfrm_selector_match(sel, fl) == fl.id \in sel
security_xfrm_flow_state_match(fl, kd) == kd.ctx = 0 \/ kd.ctx = fl.secid
xfrm_state_addr_flow_check(kd, fl) == kd.addr = fl.addr

RECURSIVE OkScan(_, _, _, _, _)
\* The first loop of xfrm_bundle_ok from xd[i] on: whether every entry is
\* good, and last, the deepest entry whose cached MTU was brought up to date.
OkScan(kk, fl, strict, i, last) ==
    LET D == kk.xd[i]
        X == kk.x[D.xfrm]
        kd == Kinds[D.xfrm]
        child == ChildMtu(kk, i)
        route == kk.route[D.route].mtu
        k1 == [kk EXCEPT !.xd[i].child_mtu_cached = child]
        l1 == IF D.child_mtu_cached # child THEN i ELSE last
    IN  IF i > Len(kk.xd) THEN [k |-> kk, ok |-> TRUE, last |-> last]
        ELSE IF \/ fl # NoFlow /\ ~xfrm_selector_match(kd.sel, fl)
                \/ fl # NoFlow /\ ~security_xfrm_flow_state_match(fl, kd)
                \/ X.st # "valid"
                \/ D.genid # X.genid
                \/ /\ strict /\ fl # NoFlow /\ kd.encap # XFRM_MODE_TUNNEL
                   /\ ~xfrm_state_addr_flow_check(kd, fl)
             THEN [k |-> kk, ok |-> FALSE, last |-> last]
        ELSE IF ~dst_check(kk, D.route) THEN [k |-> k1, ok |-> FALSE, last |-> l1]
        ELSE OkScan([k1 EXCEPT !.xd[i].route_mtu_cached = route], fl, strict, i + 1,
                    IF D.route_mtu_cached # route THEN i ELSE l1)

RECURSIVE remetric_unclamped(_, _, _)
remetric_unclamped(kk, i, mtu) ==
    LET m == xfrm_state_mtu(kk, kk.xd[i].xfrm, mtu)
        k1 == [kk EXCEPT !.xd[i].mtu = m]
    IN  IF i = 1 THEN k1
        ELSE remetric_unclamped([k1 EXCEPT !.xd[i - 1].child_mtu_cached = m], i - 1, m)

RECURSIVE Remetric(_, _, _)
\* The second loop: the MTU of xd[i], whose child has mtu, and of all
\* before it.
Remetric(kk, i, mtu) ==
    LET m == Least(xfrm_state_mtu(kk, kk.xd[i].xfrm, mtu), kk.xd[i].route_mtu_cached)
        k1 == [kk EXCEPT !.xd[i].mtu = m]
    IN  IF i = 1 THEN k1
        ELSE Remetric([k1 EXCEPT !.xd[i - 1].child_mtu_cached = m], i - 1, m)

xfrm_bundle_ok(kk, fl, family, strict) ==
    LET r == OkScan(kk, fl, strict, 1, 0)
    IN  IF ~dst_check(kk, kk.path) \/ ~kk.dev[kk.xd[1].dev].running THEN [k |-> kk, ret |-> 0]
        ELSE IF ~r.ok THEN [k |-> r.k, ret |-> 0]
        ELSE IF r.last = 0 THEN [k |-> r.k, ret |-> 1]
        ELSE [k |-> Remetric(r.k, r.last, r.k.xd[r.last].child_mtu_cached), ret |-> 1]

stale_bundle(kk) == xfrm_bundle_ok(kk, NoFlow, AF_UNSPEC, FALSE).ret = 0

ifdown_keeps_hold(kk, dev) ==
    [kk EXCEPT !.xd = [i \in DOMAIN kk.xd |->
                          IF i > 1 /\ kk.xd[i].dev = dev
                          THEN [kk.xd[i] EXCEPT !.dev = loopback_dev] ELSE kk.xd[i]]]

RECURSIVE IfdownFrom(_, _, _)
IfdownFrom(kk, i, dev) ==
    IF i > Len(kk.xd) \/ kk.xd[i].dev # dev THEN kk
    ELSE IfdownFrom([kk EXCEPT !.xd[i].dev = loopback_dev,
                               !.dev = [@ EXCEPT ![loopback_dev].refcnt = @ + 1,
                                                 ![dev].refcnt = @ - 1]],
                    i + 1, dev)

\* The entries below the first that are on the device move to the loopback.
xfrm_dst_ifdown(kk, dev) == IfdownFrom(kk, 2, dev)

-----------------------------------------------------------------------------
(* Modules and states *)

\* After boot: the families that are built in have registered, and so have
\* the types and modes that are, those without an owner.
Init ==
    /\ k = LET tab == FoldLeft(LAMBDA t, a : xfrm_policy_register_afinfo(t, a).tab, NoAfinfo,
                               SetToSeq(Afinfos))
               at(o) == xfrm_policy_get_afinfo(tab, o.family)
               built(O) == {o \in O : o.owner = NULL}
               pick(O) == IF O = {} THEN NULL ELSE (CHOOSE o \in O : TRUE).id
           IN  [afinfo |-> tab,
                type_map |-> [a \in AfIds |-> [p \in Protos |->
                                 pick({o \in built(Types) : at(o) = a /\ o.proto = p})]],
                mode_map |-> [a \in AfIds |-> [e \in Encaps |->
                                 pick({o \in built(Modes) : at(o) = a /\ o.encap = e})]],
                mod |-> [m \in Modules |-> [st |-> "out", refcnt |-> 0]],
                x |-> [s \in States |-> NoState],
                xd |-> <<>>, path |-> NULL, bst |-> "none", users |-> 0,
                route |-> [r \in Routes |-> [mtu |-> Max(Mtus), obsolete |-> FALSE]],
                dev |-> [d \in Devs |-> [running |-> TRUE, registered |-> TRUE, refcnt |-> 0]]]
    /\ task = [t \in Tasks |-> Idle]
    /\ out = [op |-> "boot"]

Env(kk, o) == k' = kk /\ out' = o /\ UNCHANGED task
Goes(t, kk, rec, o) == k' = kk /\ task' = [task EXCEPT ![t] = rec] /\ out' = o
InChain(kk, s) == \E i \in DOMAIN kk.xd : kk.xd[i].xfrm = s

\* modprobe, by hand or from request_module: the init function of the
\* module registers its type or its mode, and the module stays only if
\* that went well.
ModuleInit(m) ==
    /\ k.mod[m].st = "out"
    /\ LET o == OwnedBy(m)
           r == IF o \in Types THEN xfrm_register_type(k, o) ELSE xfrm_register_mode(k, o)
       IN  Env(IF r.err = "ok" THEN [r.k EXCEPT !.mod[m].st = "live"] ELSE k,
               [op |-> "insmod", err |-> r.err])

\* rmmod of a module nobody holds: from here try_module_get fails.
ModuleExitBegin(m) ==
    /\ k.mod[m].st = "live" /\ k.mod[m].refcnt = 0
    /\ Env([k EXCEPT !.mod[m].st = "going"], [op |-> "rmmod"])

\* The exit function of the module; what unregistering returns is printed
\* and the module goes all the same.
ModuleExitEnd(m) ==
    /\ k.mod[m].st = "going"
    /\ LET o == OwnedBy(m)
           r == IF o \in Types THEN xfrm_unregister_type(k, o) ELSE xfrm_unregister_mode(k, o)
       IN  Env([r.k EXCEPT !.mod[m].st = "out"], [op |-> "rmmod", err |-> r.err])

\* xfrm_state_gc_destroy of xfrm_state.c: the state lets go of its mode and
\* of its type.
Destroy(kk, s) ==
    LET X == kk.x[s]
        k1 == IF X.mode # NULL THEN xfrm_put_mode(kk, X.mode) ELSE kk
        k2 == IF X.type # NULL THEN xfrm_put_type(k1, X.type) ELSE k1
    IN  [k2 EXCEPT !.x[s] = NoState]

\* xfrm_init_state of xfrm_state.c from the pass of xfrm_get_mode on.
InitMode(t, kk, s, attempted) ==
    LET r == xfrm_get_mode(kk, Kinds[s].encap, Kinds[s].family, attempted)
        o(err) == [op |-> "init_state", err |-> err]
    IN  IF r.retry THEN Goes(t, kk, [pc |-> "mode_retry", s |-> s], o("wait"))
        ELSE IF r.obj = NULL THEN Goes(t, Destroy(kk, s), Idle, o("EPROTONOSUPPORT"))
        ELSE Goes(t, [r.k EXCEPT !.x[s].mode = r.obj, !.x[s].st = "valid"], Idle, o("ok"))

\* ... and from the pass of xfrm_get_type on.  Between two passes the task
\* sleeps in request_module.
InitType(t, kk, s, attempted) ==
    LET r == xfrm_get_type(kk, Kinds[s].proto, Kinds[s].family, attempted)
        o(err) == [op |-> "init_state", err |-> err]
    IN  IF r.retry THEN Goes(t, kk, [pc |-> "type_retry", s |-> s], o("wait"))
        ELSE IF r.obj = NULL THEN Goes(t, Destroy(kk, s), Idle, o("EPROTONOSUPPORT"))
        ELSE InitMode(t, [r.k EXCEPT !.x[s].type = r.obj], s, FALSE)

\* A key manager adds a state.
StateInit(t) ==
    \E s \in States :
        /\ task[t] = Idle /\ k.x[s].st = "free"
        /\ InitType(t, [k EXCEPT !.x[s].st = "larval"], s, FALSE)

TypeRetry(t) == task[t].pc = "type_retry" /\ InitType(t, k, task[t].s, TRUE)
ModeRetry(t) == task[t].pc = "mode_retry" /\ InitMode(t, k, task[t].s, TRUE)

\* xfrm_state_delete: the state is dead, and is destroyed when no bundle
\* holds it.
StateDelete(s) ==
    /\ k.x[s].st \in {"valid", "expired"}
    /\ Env(IF InChain(k, s) THEN [k EXCEPT !.x[s].st = "dead"] ELSE Destroy(k, s),
           [op |-> "state_delete"])

\* A state with the same addresses is added (__xfrm_state_bump_genids of
\* xfrm_state.c): the generation moves on.
StateBump(s) ==
    /\ k.x[s].st = "valid"
    /\ Env([k EXCEPT !.x[s].genid = (@ + 1) % 2 ^ GenBits], [op |-> "bump_genid"])

-----------------------------------------------------------------------------
(* The bundle and what is under it *)

\* xfrm_dst_destroy of the family, when the bundle is freed and nobody uses
\* it: devices and states are let go of.
BundleDestroy(kk) ==
    LET puts == [d \in Devs |-> Cardinality({i \in DOMAIN kk.xd : kk.xd[i].dev = d})]
        k1 == [kk EXCEPT !.dev = [d \in Devs |-> [@[d] EXCEPT !.refcnt = @ - puts[d]]],
                         !.xd = <<>>, !.path = NULL, !.bst = "none"]
        gone == {s \in States : InChain(kk, s) /\ kk.x[s].st # "valid"}
    IN  FoldLeft(Destroy, k1, SetToSeq(gone))

dst_release(kk) ==
    IF kk.bst = "obsolete" /\ kk.users = 1 THEN BundleDestroy([kk EXCEPT !.users = 0])
    ELSE [kk EXCEPT !.users = @ - 1]

\* afinfo->bundle_create for the states xfrm that xfrm_tmpl_resolve found:
\* an entry per state, each over the route that leads to where the packet
\* is by then (behind a tunnel the route that xfrm_dst_lookup finds), all on
\* the device of the last route, and xfrm_init_pmtu over the chain.
BundleCreate ==
    \E xfrm \in UNION {SetToSeqs(S) : S \in SUBSET States \ {{}}}, rt, via \in Routes,
       d \in Devs \ {loopback_dev}, f \in FaultChoice({"route"}) :
        LET family(i) == Kinds[xfrm[i]].family
            tunnels == {i \in DOMAIN xfrm : Kinds[xfrm[i]].encap = XFRM_MODE_TUNNEL}
            errs == {xfrm_dst_lookup(k, family(i)) : i \in tunnels} \ {"ok"}
            under(i) == IF \E j \in tunnels : j < i THEN via ELSE rt
            made == [i \in DOMAIN xfrm |->
                        [xfrm |-> xfrm[i], route |-> under(i), genid |-> k.x[xfrm[i]].genid,
                         dev |-> d, child_mtu_cached |-> 0, route_mtu_cached |-> 0, mtu |-> 0]]
            k1 == [k EXCEPT !.xd = made, !.path = under(Len(xfrm) + 1), !.bst = "live",
                            !.dev[d].refcnt = @ + Len(xfrm)]
        IN  /\ k.bst = "none" /\ k.dev[d].registered
            /\ \A i \in DOMAIN xfrm : k.x[xfrm[i]].st = "valid"
            /\ dst_check(k, rt) /\ dst_check(k, via) /\ (tunnels = {} => via = rt)
            /\ IF errs # {} THEN Env(k, [op |-> "bundle_create", err |-> CHOOSE e \in errs : TRUE])
               ELSE IF f # {} THEN tunnels # {} /\ Env(k, [op |-> "bundle_create", err |-> "ENETUNREACH"])
               ELSE Env(xfrm_init_pmtu(k1), [op |-> "bundle_create", err |-> "ok"])

\* The bundle is tested: for a flow by afinfo->find_bundle, for none by
\* stale_bundle.
BundleOk ==
    \E fl \in Flows \cup {NoFlow}, strict \in BOOLEAN :
        /\ k.bst = "live"
        /\ fl = NoFlow => ~strict
        /\ LET r == xfrm_bundle_ok(k, fl, IF fl = NoFlow THEN AF_UNSPEC ELSE Kinds[k.xd[1].xfrm].family,
                                   strict)
           IN  Env(r.k, [op |-> "bundle_ok", ret |-> r.ret])

\* The policy of the bundle lets go of it (xfrm_prune_bundles, dst_free).
BundleFree ==
    /\ k.bst = "live"
    /\ Env(IF k.users = 0 THEN BundleDestroy(k) ELSE [k EXCEPT !.bst = "obsolete"],
           [op |-> "dst_free"])

\* Path MTU discovery has news of a route.
RouteMtu(r) ==
    \E mtu \in Mtus \ {k.route[r].mtu} :
        Env([k EXCEPT !.route[r].mtu = mtu], [op |-> "pmtu"])

RouteObsolete(r) ==
    /\ dst_check(k, r)
    /\ Env([k EXCEPT !.route[r].obsolete = TRUE], [op |-> "rt_flush"])

DevDown(d) ==
    /\ d # loopback_dev /\ k.dev[d].running
    /\ Env([k EXCEPT !.dev[d].running = FALSE], [op |-> "dev_close"])

\* The device is unregistered, and netdev_wait_allrefs says so again while
\* somebody holds it.  dst_ifdown of dst.c moves the first entry of a bundle
\* that was freed and is still in use, and calls the ifdown of the family.
DevUnregister(d) ==
    /\ d # loopback_dev /\ ~k.dev[d].running
    /\ k.dev[d].registered \/ k.dev[d].refcnt > 0
    /\ LET k1 == [k EXCEPT !.dev[d].registered = FALSE]
           k2 == IF k.xd[1].dev # d THEN k1
                 ELSE [k1 EXCEPT !.xd[1].dev = loopback_dev,
                                 !.dev = [@ EXCEPT ![loopback_dev].refcnt = @ + 1,
                                                   ![d].refcnt = @ - 1]]
       IN  Env(IF k.bst = "obsolete" THEN xfrm_dst_ifdown(k2, d) ELSE k1,
               [op |-> "unregister_netdevice"])

-----------------------------------------------------------------------------
(* xfrm_output *)

\* xfrm_state_check_expire of xfrm_state.c: 0 for a state that may be used.
\* A limit of XFRM_INF is never reached.
Over(X, limit) == limit # XFRM_INF /\ X.packets >= limit

xfrm_state_check_expire(X, limit) ==
    IF X.st # "valid" \/ Over(X, limit) THEN "EINVAL" ELSE "ok"

xfrm_state_check_space(f) == IF "nomem" \in f THEN "ENOMEM" ELSE "ok"

xfrm_state_check(X, limit, f) ==
    IF xfrm_state_check_expire(X, limit) # "ok" THEN xfrm_state_check_expire(X, limit)
    ELSE xfrm_state_check_space(f)

\* The packet is dropped by the caller.
Drop(t, kk, err) == Goes(t, dst_release(kk), Idle, [op |-> "output", err |-> err])

\* dst_pop of dst.h: the child of xd[i], the next entry or, behind the
\* last, the route of the bundle.
dst_pop(kk, i) == IF i < Len(kk.xd) THEN i + 1 ELSE kk.path

\* One turn of the loop of xfrm_output, under the lock of the state of
\* xd[i]: the state is checked, its mode and its type work on the packet,
\* the packet is counted (where a limit makes the count matter) and moves
\* to the child, or is dropped with -EHOSTUNREACH when the entry has no
\* child.  The loop goes on to a
\* state that is not a tunnel; before a tunnel the caller sends the packet
\* out again, and after the last state the packet leaves the bundle.
xfrm_output(t, i, f) ==
    LET s == k.xd[i].xfrm
        X == k.x[s]
        limit == Kinds[s].limit
        k0 == IF X.st = "valid" /\ Over(X, limit) THEN [k EXCEPT !.x[s].st = "expired"] ELSE k
        k1 == IF limit = XFRM_INF THEN k ELSE [k EXCEPT !.x[s].packets = @ + 1]
        more == i < Len(k.xd)
        tunnel == more /\ Kinds[k.xd[i + 1].xfrm].encap = XFRM_MODE_TUNNEL
    IN  IF xfrm_state_check(X, limit, f) # "ok" THEN Drop(t, k0, xfrm_state_check(X, limit, f))
        ELSE IF "mode" \in f THEN Drop(t, k, "EMSGSIZE")
        ELSE IF "type" \in f THEN Drop(t, k, "ENOMEM")
        ELSE IF dst_pop(k, i) = NULL THEN Drop(t, k1, "EHOSTUNREACH")
        ELSE IF ~more THEN Goes(t, dst_release(k1), Idle, [op |-> "output", err |-> "ok"])
        ELSE Goes(t, k1, [pc |-> IF tunnel THEN "out_enter" ELSE "out_loop", i |-> i + 1],
                  [op |-> "output", err |-> "ok"])

\* xfrm_lookup gave the bundle to a packet.
Send(t) ==
    /\ task[t] = Idle /\ k.bst = "live"
    /\ Goes(t, [k EXCEPT !.users = @ + 1], [pc |-> "out_enter", i |-> 1], [op |-> "send"])

\* xfrm_output is entered: the checksum is completed if it is still to be,
\* and the loop is gone through once.
OutputEnter(t) ==
    \E f \in FaultChoice({"csum", "nomem", "mode", "type"}) :
        /\ task[t].pc = "out_enter"
        /\ IF "csum" \in f THEN Drop(t, k, "EINVAL") ELSE xfrm_output(t, task[t].i, f)

OutputNext(t) ==
    \E f \in FaultChoice({"nomem", "mode", "type"}) :
        /\ task[t].pc = "out_loop"
        /\ xfrm_output(t, task[t].i, f)

-----------------------------------------------------------------------------

Next ==
    \/ \E m \in Modules : ModuleInit(m) \/ ModuleExitBegin(m) \/ ModuleExitEnd(m)
    \/ \E t \in Tasks : \/ StateInit(t) \/ TypeRetry(t) \/ ModeRetry(t)
                         \/ Send(t) \/ OutputEnter(t) \/ OutputNext(t)
    \/ \E s \in States : StateDelete(s) \/ StateBump(s)
    \/ \E r \in Routes : RouteMtu(r) \/ RouteObsolete(r)
    \/ \E d \in Devs : DevDown(d) \/ DevUnregister(d)
    \/ BundleCreate \/ BundleOk \/ BundleFree

Spec == Init /\ [][Next]_vars

-----------------------------------------------------------------------------
(* What is checked *)

XdstOK(D) ==
    /\ D.xfrm \in States /\ D.route \in Routes /\ D.dev \in Devs /\ D.genid \in 0 .. 2 ^ GenBits - 1
    /\ {D.child_mtu_cached, D.route_mtu_cached, D.mtu} \subseteq MinMtu .. Max(Mtus)

TypeOK ==
    /\ k.afinfo \in [Families -> AfIds \cup {NULL}]
    /\ k.type_map \in [AfIds -> [Protos -> {t.id : t \in Types} \cup {NULL}]]
    /\ k.mode_map \in [AfIds -> [Encaps -> {m.id : m \in Modes} \cup {NULL}]]
    /\ k.mod \in [Modules -> [st : {"out", "live", "going"}, refcnt : 0 .. 2 * Cardinality(States)]]
    /\ \A s \in States :
           /\ k.x[s].st \in {"free", "larval", "valid", "expired", "dead"}
           /\ k.x[s].genid \in 0 .. 2 ^ GenBits - 1 /\ k.x[s].packets \in Nat
           /\ k.x[s].st = "free" => k.x[s] = NoState
    /\ \A i \in DOMAIN k.xd : XdstOK(k.xd[i])
    /\ k.bst \in {"none", "live", "obsolete"} /\ k.users \in 0 .. Cardinality(Tasks)
    /\ (k.bst = "none") = (k.xd = <<>>) /\ k.path \in Routes \cup {NULL}
    /\ k.route \in [Routes -> [mtu : Mtus, obsolete : BOOLEAN]]
    /\ k.dev \in [Devs -> [running : BOOLEAN, registered : BOOLEAN, refcnt : Nat]]
    /\ \A t \in Tasks : task[t].pc \in {"idle", "type_retry", "mode_retry", "out_enter", "out_loop"}

\* The states that hold a reference to module m, as the state of a type or
\* of a mode.
Holding(m) ==
    Cardinality({s \in States : k.x[s].type # NULL /\ TypeOf(k.x[s].type).owner = m})
    + Cardinality({s \in States : k.x[s].mode # NULL /\ ModeOf(k.x[s].mode).owner = m})

\* The code a packet runs through is there: every state of a bundle has its
\* type and its mode, the module of a type or mode that a state has or that
\* is in a map is loaded, and a module is held once by each state that uses
\* it and by nobody when it is on its way out.  xfrm_get_type and
\* xfrm_get_mode take the reference with try_module_get under the lock that
\* the exit function of the module needs to unregister, also on the second
\* pass after request_module, and xfrm_output relies on it when it calls
\* x->mode->output and x->type->output.
CodeStaysLoaded ==
    /\ \A m \in Modules : /\ k.mod[m].refcnt = Holding(m)
                            /\ k.mod[m].st # "live" => k.mod[m].refcnt = 0
    /\ \A a \in AfIds :
           /\ \A p \in Protos : k.type_map[a][p] # NULL =>
                  try_module_get(k, TypeOf(k.type_map[a][p]).owner)
                  \/ k.mod[TypeOf(k.type_map[a][p]).owner].st = "going"
           /\ \A e \in Encaps : k.mode_map[a][e] # NULL =>
                  try_module_get(k, ModeOf(k.mode_map[a][e]).owner)
                  \/ k.mod[ModeOf(k.mode_map[a][e]).owner].st = "going"
    /\ \A i \in DOMAIN k.xd : LET X == k.x[k.xd[i].xfrm]
                                IN  X.st # "free" /\ X.type # NULL /\ X.mode # NULL

\* The MTU of every entry is the one that follows from the MTUs the entry
\* has cached.
Settled(kk) ==
    \A i \in DOMAIN kk.xd :
        kk.xd[i].mtu = Least(xfrm_state_mtu(kk, kk.xd[i].xfrm, kk.xd[i].child_mtu_cached),
                             kk.xd[i].route_mtu_cached)

\* A settled bundle that xfrm_bundle_ok calls good has the MTUs that
\* xfrm_init_pmtu would give it now: whatever the routes under it went
\* through since it was made, the second loop of xfrm_bundle_ok starts deep
\* enough and clamps every entry on its way up, so that the cached MTUs
\* are those of the children and of the routes and every entry has the MTU
\* that follows from them.
MtuCoherent ==
    [][Settled(k) /\ out'.op = "bundle_ok" /\ out'.ret = 1
       => xfrm_init_pmtu(k').xd = k'.xd]_vars

\* The same of every bundle that xfrm_bundle_ok calls good, which is what a
\* caller of dst_mtu takes for granted.  It does not hold: a call that
\* turns the bundle down for its flow at a deeper entry returns after the
\* first loop has cached the new MTUs of the entries above, and the calls
\* after it find nothing changed there.
MtuFresh ==
    [][out'.op = "bundle_ok" /\ out'.ret = 1 => xfrm_init_pmtu(k').xd = k'.xd]_vars

\* A device is held once by each entry of the bundle that is on it, and
\* when the device is unregistered a bundle that was freed lets go of it:
\* dst_ifdown and xfrm_dst_ifdown between them move every entry to the
\* loopback device and pass the reference on, so that netdev_wait_allrefs
\* does not wait for a bundle that only a packet still holds.
DevicesLetGo ==
    [][/\ \A d \in Devs : k'.dev[d].refcnt = Cardinality({i \in DOMAIN k'.xd : k'.xd[i].dev = d})
       /\ out'.op = "unregister_netdevice" /\ k'.bst = "obsolete" =>
              \A d \in Devs : k'.dev[d].registered \/ k'.dev[d].refcnt = 0]_vars
=============================================================================
