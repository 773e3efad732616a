------------------------------- MODULE SchApi -------------------------------
(***************************************************************************)
(* The packet scheduler API, net/sched/sch_api.c: the registry of queueing *)
(* disciplines, the rate tables they share, and the rtnetlink requests     *)
(* that create, graft, change and delete the qdiscs of a device and the    *)
(* classes of a qdisc.                                                     *)
(*                                                                         *)
(* A request runs under the RTNL semaphore and is one step, except where   *)
(* qdisc_create drops the semaphore to load a module: other requests run   *)
(* in that window and the request is replayed after it.                    *)
(*                                                                         *)
(* The operators work on a record s of everything the file reads and       *)
(* writes: the device, the qdiscs, the registry, the rate tables.  The     *)
(* qdiscs themselves (their init, change and destroy and their class       *)
(* operations) and sch_generic.c (qdisc_alloc, qdisc_destroy, dev_activate)*)
(* are outside the file; what they do to s is written from their contract. *)
(***************************************************************************)
EXTENDS Integers, Sequences, FiniteSets, SequencesExt

CONSTANTS
    HBits,      \* width of each half of a handle (16)
    Qids,       \* the memory of qdiscs: 1 .. n
    Kinds,      \* the ids of the qdiscs
    Builtin,    \* the kinds compiled into the kernel; the others are modules
    Classful,   \* the kinds that have class operations
    Rated,      \* the kinds whose init and change take a rate table
    Minors,     \* the minors a classful qdisc accepts for a class
    Requests,   \* the rtnetlink requests user space sends
    Tasks,      \* the tasks that may wait for a module
    Faults      \* the steps that may fail

M == 2 ^ HBits
NULL == 0               \* no qdisc
NOOP == -1              \* noop_qdisc, built in
DFLT == -2              \* a default qdisc, made by qdisc_create_dflt
NoKind == "none"        \* no TCA_KIND, no ops

ASSUME /\ HBits \in 2 .. 16 /\ Qids \subseteq Nat \ {0} /\ IsFiniteSet(Qids)
       /\ Builtin \subseteq Kinds /\ Classful \subseteq Kinds /\ Rated \subseteq Kinds \ Classful
       /\ Minors \subseteq 1 .. M - 1 /\ NoKind \notin Kinds

TC_H_MIN(h) == h % M
TC_H_MAJ(h) == h - (h % M)
TC_H_MAKE(maj, min) == TC_H_MAJ(maj) + TC_H_MIN(min)
TC_H_ROOT == M * M - 1
TC_H_INGRESS == TC_H_MAKE(TC_H_ROOT, 1)
Handles == 0 .. TC_H_ROOT

Free == [kind |-> NoKind, handle |-> 0, parent |-> 0, ingress |-> FALSE,
         refcnt |-> 0, leaf |-> [m \in Minors |-> NULL], rate |-> 0]

\* At most one step of a call fails; steps are the steps the call has.
FaultChoice(steps) == {{}} \cup {{x} : x \in Faults \cap steps}

\* The steps of a request that can fail: allocations, the init of a qdisc,
\* the estimator where TCA_RATE asks for one, a class that is busy.
Steps(req) ==
    CASE req.type = "NEWQDISC" ->
             {"alloc", "init", "skb"} \cup (IF req.est THEN {"est"} ELSE {})
      [] req.type = "DELQDISC" -> {"dflt", "skb"}
      [] req.type = "NEWTCLASS" -> {"class", "skb"}
      [] req.type = "DELTCLASS" -> {"busy", "skb"}
      [] OTHER -> {"skb"}

-----------------------------------------------------------------------------
(* The registry of qdisc modules *)

register_qdisc(base, id) == IF id \in Range(base) THEN base ELSE Append(base, id)

unregister_qdisc(base, id) == SelectSeq(base, LAMBDA k : k # id)

\* try_module_get succeeds on a module that is registered.
qdisc_lookup_ops(s, kind) == IF kind \in Range(s.base) THEN kind ELSE NoKind

module_put(s, ops) == [s EXCEPT !.modref[ops] = @ - 1]

-----------------------------------------------------------------------------
(* Rate tables *)

Tables(s, r) == {i \in DOMAIN s.rtab : s.rtab[i].rate = r}

rtab_put_keeps(s, r) ==
    IF r = 0 THEN s
    ELSE [s EXCEPT !.rtab[Min(Tables(s, r))].refcnt = @ - 1]

\* A table is named by its rate: qdisc_get_rtab never lists a rate twice.
qdisc_put_rtab(s, r) ==
    IF r = 0 THEN s
    ELSE IF s.rtab[Min(Tables(s, r))].refcnt > 1
         THEN [s EXCEPT !.rtab[Min(Tables(s, r))].refcnt = @ - 1]
         ELSE [s EXCEPT !.rtab = RemoveAt(@, Min(Tables(s, r)))]

\* The result is the rate of the table, 0 for NULL.  r is the ratespec,
\* 0 when its rate or cell_log is 0; tab says that a table of the right
\* size came with the request.
qdisc_get_rtab(s, r, tab, f) ==
    IF Tables(s, r) # {}
    THEN [s |-> [s EXCEPT !.rtab[Min(Tables(s, r))].refcnt = @ + 1], rtab |-> r]
    ELSE IF ~tab \/ r = 0 \/ "rtab" \in f THEN [s |-> s, rtab |-> 0]
    ELSE [s |-> [s EXCEPT !.rtab = <<[rate |-> r, refcnt |-> 1]>> \o @], rtab |-> r]

-----------------------------------------------------------------------------
(* The qdiscs of the device *)

Handle(s, q) == IF q \in Qids THEN s.qd[q].handle ELSE 0
Id(s, q) ==
    IF q \in Qids THEN s.qd[q].kind ELSE IF q = NOOP THEN "noop" ELSE "pfifo_fast"
Refcnt(s, q) == IF q \in Qids THEN s.qd[q].refcnt ELSE 1
Ingress(s, q) == q \in Qids /\ s.qd[q].ingress
HasClOps(s, q) == q \in Qids /\ s.qd[q].kind \in Classful
Classes(s, q) == {m \in Minors : s.qd[q].leaf[m] # NULL}

\* dev->qdisc_list in order; the default qdisc of the device is on it with
\* handle 0.
qdisc_lookup(s, handle) ==
    LET hit == SelectSeq(s.dev.list, LAMBDA q : s.qd[q].handle = handle)
    IN  IF hit # <<>> THEN Head(hit)
        ELSE IF handle = 0 /\ s.dev.sleeping = DFLT THEN DFLT ELSE NULL

\* cops->get of a classful qdisc: the class of this minor, 0 for none.
cops_get(s, p, classid) ==
    IF TC_H_MAJ(classid) = s.qd[p].handle /\ TC_H_MIN(classid) \in Classes(s, p)
    THEN TC_H_MIN(classid) ELSE 0

qdisc_leaf(s, p, classid) ==
    IF ~HasClOps(s, p) \/ cops_get(s, p, classid) = 0 THEN NULL
    ELSE s.qd[p].leaf[cops_get(s, p, classid)]

RECURSIVE check_loop_past_leaf(_, _, _, _)
check_loop_past_leaf(s, q, p, depth) ==
    /\ HasClOps(s, q)
    /\ \E m \in Classes(s, q) :
          depth > 7 \/ check_loop_past_leaf(s, s.qd[q].leaf[m], p, depth + 1)

\* check_loop and check_loop_fn: TRUE for -ELOOP.
RECURSIVE check_loop(_, _, _, _)
check_loop(s, q, p, depth) ==
    /\ HasClOps(s, q)
    /\ \E m \in Classes(s, q) :
          \/ s.qd[q].leaf[m] = p
          \/ depth > 7
          \/ check_loop(s, s.qd[q].leaf[m], p, depth + 1)

AutoFirst == TC_H_MAKE((M \div 2) * M, 0)

Advanced(a) ==
    IF (a + M) % (M * M) = TC_H_MAKE(TC_H_ROOT, 0) THEN AutoFirst
    ELSE (a + M) % (M * M)

\* The loop of qdisc_alloc_handle from autohandle a with i tries left.
RECURSIVE Tried(_, _, _)
Tried(s, a, i) ==
    IF qdisc_lookup(s, Advanced(a)) = NULL THEN [auto |-> Advanced(a), i |-> i]
    ELSE IF i - 1 > 0 THEN Tried(s, Advanced(a), i - 1)
    ELSE [auto |-> Advanced(a), i |-> 0]

qdisc_alloc_handle(s) ==
    [s      |-> [s EXCEPT !.auto = Tried(s, s.auto, M).auto],
     handle |-> IF Tried(s, s.auto, M).i > 0 THEN Tried(s, s.auto, M).auto ELSE 0]

-----------------------------------------------------------------------------
(* Locks and notifications of one request *)

spin_lock_bh(s, lock) ==
    [s EXCEPT !.held = TRUE,
              !.bad = @ \cup (IF lock = NULL THEN {"null_root_lock"} ELSE {})
                        \cup (IF s.held THEN {"lock_held"} ELSE {})]

spin_unlock_bh(s, lock) ==
    [s EXCEPT !.held = FALSE,
              !.bad = @ \cup (IF s.held THEN {} ELSE {"unlock_unheld"})]

\* tc_fill_qdisc: what a message says of a qdisc.
tc_fill_qdisc(s, q, clid, event) ==
    [event |-> event, parent |-> clid, handle |-> Handle(s, q), kind |-> Id(s, q)]

qdisc_notify(s, clid, old, new, f) ==
    LET del == IF old # NULL /\ Handle(s, old) # 0
               THEN <<tc_fill_qdisc(s, old, clid, "DELQDISC")>> ELSE <<>>
        add == IF new # NULL
               THEN <<tc_fill_qdisc(s, new, clid, "NEWQDISC")>> ELSE <<>>
    IN  IF "skb" \in f THEN s ELSE [s EXCEPT !.notes = @ \o del \o add]

tclass_notify(s, q, cl, event, f) ==
    IF "skb" \in f THEN s
    ELSE [s EXCEPT !.notes = Append(@, [event |-> event, parent |-> Handle(s, q),
              handle |-> TC_H_MAKE(Handle(s, q), cl), kind |-> Id(s, q)])]

-----------------------------------------------------------------------------
(* sch_generic.c and the qdiscs, by their contract *)

dev_deactivate(s) == [s EXCEPT !.dev.qdisc = NOOP]

\* A device without a qdisc gets the default one when it comes up.
dev_activate(s) ==
    LET sleeping == IF s.dev.sleeping = NOOP THEN DFLT ELSE s.dev.sleeping
    IN  [s EXCEPT !.dev.sleeping = sleeping, !.dev.qdisc = sleeping]

\* The last reference unlists the qdisc, destroys what it owns (the leaves
\* of its classes, its rate table) and releases the module and the device.
RECURSIVE qdisc_destroy(_, _)
qdisc_destroy(s, q) ==
    IF q \notin Qids THEN s
    ELSE IF s.qd[q].refcnt > 1 THEN [s EXCEPT !.qd[q].refcnt = @ - 1]
    ELSE LET gone == [s EXCEPT !.dev.list = Remove(@, q), !.qd[q] = Free,
                               !.modref[s.qd[q].kind] = @ - 1,
                               !.dev.holds = @ - 1]
             leaves == SetToSeq({m \in Minors : s.qd[q].leaf[m] \in Qids})
         IN  FoldLeft(LAMBDA acc, m : qdisc_destroy(acc, s.qd[q].leaf[m]),
                      qdisc_put_rtab(gone, s.qd[q].rate), leaves)

\* cl_ops->graft: the class takes new, or a default qdisc for none.
cops_graft(s, p, cl, new, old, f) ==
    IF new = NULL /\ "dflt" \in f THEN [s |-> s, err |-> "ENOBUFS", old |-> old]
    ELSE [s   |-> [s EXCEPT !.qd[p].leaf[cl] = IF new = NULL THEN DFLT ELSE new],
          err |-> "OK", old |-> s.qd[p].leaf[cl]]

\* cl_ops->change: a class that exists is changed, a new one gets a default
\* qdisc as its leaf.
cops_change(s, q, clid, cl, f) ==
    IF cl # 0 THEN [s |-> s, err |-> "OK", cl |-> cl]
    ELSE IF \/ TC_H_MAJ(clid) # s.qd[q].handle
            \/ TC_H_MIN(clid) \notin Minors THEN [s |-> s, err |-> "EINVAL", cl |-> 0]
    ELSE IF "class" \in f THEN [s |-> s, err |-> "ENOBUFS", cl |-> 0]
    ELSE [s |-> [s EXCEPT !.qd[q].leaf[TC_H_MIN(clid)] = DFLT],
          err |-> "OK", cl |-> TC_H_MIN(clid)]

\* cl_ops->delete: the class goes and its leaf with it.
cops_delete(s, q, cl, f) ==
    IF "busy" \in f THEN [s |-> s, err |-> "EBUSY"]
    ELSE [s   |-> qdisc_destroy([s EXCEPT !.qd[q].leaf[cl] = NULL], s.qd[q].leaf[cl]),
          err |-> "OK"]

-----------------------------------------------------------------------------
(* Grafting, creating and changing *)

\* Attach a top-level qdisc to the device; old is the one it replaces.
dev_graft_qdisc(s, qdisc) ==
    LET ingress == Ingress(s, qdisc)
        oqdisc  == IF ingress THEN s.dev.rx ELSE s.dev.sleeping
        down    == IF s.dev.up THEN dev_deactivate(s) ELSE s
        locked  == spin_lock_bh(down, oqdisc)
        grafted ==
            IF ingress
            THEN [locked EXCEPT !.dev.rx =
                     IF oqdisc # NULL /\ Refcnt(s, oqdisc) <= 1 THEN NULL ELSE qdisc]
            ELSE [locked EXCEPT !.dev.sleeping = IF qdisc = NULL THEN NOOP ELSE qdisc,
                                !.dev.qdisc = NOOP]
        unlocked == spin_unlock_bh(grafted, oqdisc)
    IN  [s |-> IF s.dev.up THEN dev_activate(unlocked) ELSE unlocked, old |-> oqdisc]

qdisc_graft(s, parent, classid, new, old, f) ==
    IF parent = NULL
    THEN [err |-> "OK"] @@ dev_graft_qdisc(s, IF Ingress(s, old) THEN old ELSE new)
    ELSE IF HasClOps(s, parent) /\ cops_get(s, parent, classid) # 0
         THEN cops_graft(s, parent, cops_get(s, parent, classid), new, old, f)
         ELSE [s |-> s, err |-> "EINVAL", old |-> old]

\* ops->init: a rated qdisc needs its rate table.
ops_init(s, sch, opt, f) ==
    IF "init" \in f THEN [s |-> s, err |-> "ENOMEM"]
    ELSE IF s.qd[sch].kind \notin Rated THEN [s |-> s, err |-> "OK"]
    ELSE IF ~opt.given THEN [s |-> s, err |-> "EINVAL"]
    ELSE LET got == qdisc_get_rtab(s, opt.rate, opt.tab, f)
         IN  IF got.rtab = 0 THEN [s |-> got.s, err |-> "EINVAL"]
             ELSE [s |-> [got.s EXCEPT !.qd[sch].rate = got.rtab], err |-> "OK"]

\* ops->change: NULL for a classful qdisc; a rated one gets the new table
\* and puts the old one.
ops_change(s, sch, opt, f) ==
    IF s.qd[sch].kind \in Classful THEN [s |-> s, err |-> "EINVAL"]
    ELSE IF s.qd[sch].kind \notin Rated THEN [s |-> s, err |-> "OK"]
    ELSE LET got == qdisc_get_rtab(s, opt.rate, opt.tab, f)
         IN  IF got.rtab = 0 THEN [s |-> got.s, err |-> "EINVAL"]
             ELSE [s   |-> qdisc_put_rtab([got.s EXCEPT !.qd[sch].rate = got.rtab],
                                          s.qd[sch].rate),
                   err |-> "OK"]

\* err_out3 of qdisc_create: dev_put, kfree, module_put.
err_out3(s, sch, err) ==
    [s   |-> module_put([s EXCEPT !.qd[sch] = Free, !.dev.holds = @ - 1],
                        s.qd[sch].kind),
     err |-> err, q |-> NULL]

\* qdisc_create after the module is there: ops is what qdisc_lookup_ops
\* found.  qdisc_alloc takes the memory, the first reference and the device.
qdisc_create(s, parent, handle, ops, req, f) ==
    LET sch    == Min({q \in Qids : s.qd[q].kind = NoKind})
        nomem  == {q \in Qids : s.qd[q].kind = NoKind} = {} \/ "alloc" \in f
        auto   == qdisc_alloc_handle(s)
        needs  == handle # TC_H_INGRESS /\ handle = 0
        h      == IF handle = TC_H_INGRESS THEN TC_H_MAKE(TC_H_INGRESS, 0)
                  ELSE IF handle = 0 THEN auto.handle ELSE handle
        made   == [(IF needs THEN auto.s ELSE s) EXCEPT
                      !.modref[ops] = @ + 1, !.dev.holds = @ + 1,
                      !.qd[sch] = [Free EXCEPT !.kind = ops, !.refcnt = 1,
                                      !.parent = parent, !.handle = h,
                                      !.ingress = (handle = TC_H_INGRESS)]]
        init   == ops_init(made, sch, req.opt, f)
    IN  IF ops = NoKind THEN [s |-> s, err |-> "ENOENT", q |-> NULL]
        ELSE IF nomem THEN [s |-> s, err |-> "ENOBUFS", q |-> NULL]
        ELSE IF needs /\ auto.handle = 0 THEN err_out3(made, sch, "ENOMEM")
        ELSE IF init.err # "OK" THEN err_out3(init.s, sch, init.err)
        ELSE IF req.est /\ "est" \in f
             THEN err_out3(qdisc_put_rtab(init.s, init.s.qd[sch].rate), sch, "ENOMEM")
        ELSE [s |-> [init.s EXCEPT !.dev.list = Append(@, sch)], err |-> "OK", q |-> sch]

qdisc_change(s, sch, req, f) ==
    IF req.opt.given THEN ops_change(s, sch, req.opt, f) ELSE [s |-> s, err |-> "OK"]

-----------------------------------------------------------------------------
(* The rtnetlink handlers.  A request is a record                          *)
(*   [type, flags, parent, handle, kind, opt, est]:                        *)
(* tcm_parent and tcm_handle, TCA_KIND or NoKind, TCA_OPTIONS as           *)
(* [given, rate, tab], and whether TCA_RATE came with it.                  *)

Fail(err) == [op |-> "fail", err |-> err]

Mismatch(s, req, q) == req.kind # NoKind /\ req.kind # Id(s, q)

\* The parent p and the qdisc q now at clid; ingress says that clid names
\* the ingress queue.
Located(s, clid, ingress) ==
    IF clid = TC_H_ROOT THEN [err |-> "OK", p |-> NULL, q |-> s.dev.sleeping]
    ELSE IF ingress THEN [err |-> "OK", p |-> NULL, q |-> s.dev.rx]
    ELSE IF qdisc_lookup(s, TC_H_MAJ(clid)) = NULL
         THEN [err |-> "ENOENT", p |-> NULL, q |-> NULL]
    ELSE [err |-> "OK", p |-> qdisc_lookup(s, TC_H_MAJ(clid)),
          q |-> qdisc_leaf(s, qdisc_lookup(s, TC_H_MAJ(clid)), clid)]

\* tc_modify_qdisc down to its labels: what the request turns out to ask.
Decision(s, req) ==
    LET clid  == req.parent
        loc   == Located(s, clid, clid = TC_H_INGRESS)
        p     == loc.p
        q     == IF Handle(s, loc.q) = 0 THEN NULL ELSE loc.q
        named == qdisc_lookup(s, req.handle)
        Change(c) ==
            IF c = NULL THEN Fail("ENOENT")
            ELSE IF "EXCL" \in req.flags THEN Fail("EEXIST")
            ELSE IF Mismatch(s, req, c) THEN Fail("EINVAL")
            ELSE [op |-> "change", q |-> c, p |-> p]
        Create ==
            IF "CREATE" \in req.flags THEN [op |-> "create", q |-> NULL, p |-> p]
            ELSE Fail("ENOENT")
    IN  IF clid = 0 THEN IF req.handle = 0 THEN Fail("EINVAL") ELSE Change(named)
        ELSE IF loc.err # "OK" THEN Fail(loc.err)
        ELSE IF q # NULL /\ req.handle # 0 /\ Handle(s, q) = req.handle THEN Change(q)
        ELSE IF req.handle # 0
             THEN IF q # NULL /\ "REPLACE" \notin req.flags THEN Fail("EEXIST")
                  ELSE IF TC_H_MIN(req.handle) # 0 THEN Fail("EINVAL")
                  ELSE IF named = NULL THEN Create
                  ELSE IF "EXCL" \in req.flags THEN Fail("EEXIST")
                  ELSE IF Mismatch(s, req, named) THEN Fail("EINVAL")
                  ELSE IF named = p \/ (p # NULL /\ check_loop(s, named, p, 0))
                       THEN Fail("ELOOP")
                  ELSE [op |-> "graft", q |-> named, p |-> p]
        ELSE IF q = NULL THEN Create
        ELSE IF /\ {"CREATE", "REPLACE"} \subseteq req.flags
                /\ ("EXCL" \in req.flags \/ Mismatch(s, req, q)) THEN Create
        ELSE Change(q)

destroy_locked(s, q) ==
    spin_unlock_bh(qdisc_destroy(spin_lock_bh(s, q), q), q)

graft_keeps_new(s, req, p, q, f) ==
    LET g == qdisc_graft(s, p, req.parent, q, NULL, f)
    IN  IF g.err # "OK" THEN [s |-> g.s, err |-> g.err]
        ELSE [s   |-> IF g.old = NULL THEN qdisc_notify(g.s, req.parent, g.old, q, f)
                      ELSE destroy_locked(qdisc_notify(g.s, req.parent, g.old, q, f),
                                          g.old),
              err |-> "OK"]

\* The label graft of tc_modify_qdisc: q holds a reference for the graft.
graft(s, req, p, q, f) ==
    LET g == qdisc_graft(s, p, req.parent, q, NULL, f)
    IN  IF g.err # "OK" THEN [s |-> destroy_locked(g.s, q), err |-> g.err]
        ELSE [s   |-> IF g.old = NULL THEN qdisc_notify(g.s, req.parent, g.old, q, f)
                      ELSE destroy_locked(qdisc_notify(g.s, req.parent, g.old, q, f),
                                          g.old),
              err |-> "OK"]

\* The label create_n_graft once the module is there.
create_n_graft(s, req, p, f) ==
    LET made == qdisc_create(s, req.parent,
                             IF req.parent = TC_H_INGRESS THEN req.parent
                             ELSE req.handle,
                             qdisc_lookup_ops(s, req.kind), req, f)
    IN  IF made.q = NULL THEN [s |-> made.s, err |-> made.err]
        ELSE graft(made.s, req, p, made.q, f)

Carried(s, d, req, f) ==
    IF d.op = "fail" THEN [s |-> s, err |-> d.err]
    ELSE IF d.op = "create" THEN create_n_graft(s, req, d.p, f)
    ELSE IF d.op = "graft"
         THEN graft([s EXCEPT !.qd[d.q].refcnt = @ + 1], req, d.p, d.q, f)
    ELSE LET c == qdisc_change(s, d.q, req, f)
         IN  IF c.err # "OK" THEN c
             ELSE [s |-> qdisc_notify(c.s, req.parent, NULL, d.q, f), err |-> "OK"]

tc_modify_qdisc(s, req, f) == Carried(s, Decision(s, req), req, f)

\* The request leaves the RTNL semaphore to load the module of its kind.
NeedsModule(s, req) ==
    /\ Decision(s, req).op = "create"
    /\ req.kind # NoKind
    /\ qdisc_lookup_ops(s, req.kind) = NoKind

tc_get_qdisc(s, req, f) ==
    LET clid == req.parent
        loc  == IF clid # 0
                THEN Located(s, clid, TC_H_MAJ(clid) = TC_H_MAJ(TC_H_INGRESS))
                ELSE [err |-> "OK", p |-> NULL, q |-> qdisc_lookup(s, req.handle)]
        q    == loc.q
        g    == qdisc_graft(s, loc.p, clid, NULL, q, f)
        told == qdisc_notify(g.s, clid, g.old, NULL, f)
    IN  IF loc.err # "OK" \/ q = NULL THEN [s |-> s, err |-> "ENOENT"]
        ELSE IF \/ clid # 0 /\ req.handle # 0 /\ Handle(s, q) # req.handle
                \/ Mismatch(s, req, q) THEN [s |-> s, err |-> "EINVAL"]
        ELSE IF req.type = "GETQDISC"
             THEN [s |-> qdisc_notify(s, clid, NULL, q, f), err |-> "OK"]
        ELSE IF clid = 0 THEN [s |-> s, err |-> "EINVAL"]
        ELSE IF Handle(s, q) = 0 THEN [s |-> s, err |-> "ENOENT"]
        ELSE IF g.err # "OK" THEN [s |-> g.s, err |-> g.err]
        ELSE IF g.old = NULL THEN [s |-> g.s, err |-> "OK"]
        ELSE [s   |-> spin_unlock_bh(qdisc_destroy(spin_unlock_bh(told, g.old),
                                                   g.old), g.old),
              err |-> "OK"]

tc_ctl_tclass(s, req, f) ==
    LET qid1 == TC_H_MAJ(req.parent)
        qid0 == TC_H_MAJ(req.handle)
        qid  == IF qid0 # 0 THEN qid0
                ELSE IF req.parent # TC_H_ROOT /\ qid1 # 0 THEN qid1
                ELSE Handle(s, s.dev.sleeping)
        pid  == IF req.parent \notin {0, TC_H_ROOT} THEN TC_H_MAKE(qid, req.parent)
                ELSE req.parent
        q    == qdisc_lookup(s, qid)
        clid == IF req.handle # 0 THEN TC_H_MAKE(qid, req.handle)
                ELSE IF pid = TC_H_ROOT THEN qid ELSE 0
        cl   == IF clid # 0 THEN cops_get(s, q, clid) ELSE 0
        del  == cops_delete(s, q, cl, f)
        chg  == cops_change(s, q, clid, cl, f)
    IN  IF req.parent # TC_H_ROOT /\ qid0 # 0 /\ qid1 # 0 /\ qid0 # qid1
        THEN [s |-> s, err |-> "EINVAL"]
        ELSE IF q = NULL THEN [s |-> s, err |-> "ENOENT"]
        ELSE IF ~HasClOps(s, q) THEN [s |-> s, err |-> "EINVAL"]
        ELSE IF cl = 0 /\ ~(req.type = "NEWTCLASS" /\ "CREATE" \in req.flags)
             THEN [s |-> s, err |-> "ENOENT"]
        ELSE IF cl # 0 /\ req.type = "NEWTCLASS" /\ "EXCL" \in req.flags
             THEN [s |-> s, err |-> "EEXIST"]
        ELSE IF cl # 0 /\ req.type = "DELTCLASS"
             THEN IF del.err # "OK" THEN del
                  ELSE [s |-> tclass_notify(del.s, q, cl, "DELTCLASS", f), err |-> "OK"]
        ELSE IF cl # 0 /\ req.type = "GETTCLASS"
             THEN [s   |-> tclass_notify(s, q, cl, "NEWTCLASS", f),
                   err |-> IF "skb" \in f THEN "ENOBUFS" ELSE "OK"]
        ELSE IF chg.err # "OK" THEN [s |-> chg.s, err |-> chg.err]
        ELSE [s |-> tclass_notify(chg.s, q, chg.cl, "NEWTCLASS", f), err |-> "OK"]

-----------------------------------------------------------------------------
VARIABLES
    dev,              \* the device: [up, list, sleeping, qdisc, rx, holds]
    qd,               \* the qdiscs in memory, Free where there is none
    qdisc_base,       \* the registered kinds, in order
    modref,           \* the reference count of each module
    autohandle,       \* the static of qdisc_alloc_handle
    qdisc_rtab_list,  \* the rate tables: [rate, refcnt]
    task,             \* per task: Idle, or the request waiting for its module
    out               \* the outcome of the last call

vars == <<dev, qd, qdisc_base, modref, autohandle, qdisc_rtab_list, task, out>>

Idle == [pc |-> "idle"]
Errors == {"OK", "EINVAL", "ENOENT", "EEXIST", "ELOOP", "ENOMEM", "ENOBUFS",
           "EBUSY"}

\* The state a request starts in: no lock held, nothing said yet.
Kernel ==
    [dev |-> dev, qd |-> qd, base |-> qdisc_base, modref |-> modref,
     auto |-> autohandle, rtab |-> qdisc_rtab_list,
     held |-> FALSE, bad |-> {}, notes |-> <<>>]

Returns(r) ==
    /\ dev' = r.s.dev
    /\ qd' = r.s.qd
    /\ qdisc_base' = r.s.base
    /\ modref' = r.s.modref
    /\ autohandle' = r.s.auto
    /\ qdisc_rtab_list' = r.s.rtab
    /\ out' = [err |-> r.err, bad |-> r.s.bad, notes |-> r.s.notes]

\* The initcalls register what is built in.
pktsched_init == FoldLeft(register_qdisc, <<>>, SetToSeq(Builtin))

Init ==
    /\ dev = [up |-> FALSE, list |-> <<>>, sleeping |-> NOOP, qdisc |-> NOOP,
              rx |-> NULL, holds |-> 0]
    /\ qd = [q \in Qids |-> Free]
    /\ qdisc_base = pktsched_init
    /\ modref = [k \in Kinds |-> 0]
    /\ autohandle = AutoFirst
    /\ qdisc_rtab_list = <<>>
    /\ task = [t \in Tasks |-> Idle]
    /\ out = [err |-> "OK", bad |-> {}, notes |-> <<>>]

\* A module is loaded: its init registers the qdisc.
Register(k) ==
    /\ k \notin Builtin
    /\ Returns([s   |-> [Kernel EXCEPT !.base = register_qdisc(@, k)],
                err |-> IF k \in Range(qdisc_base) THEN "EEXIST" ELSE "OK"])
    /\ UNCHANGED task

\* A module nobody holds is unloaded: its exit unregisters the qdisc.
Unregister(k) ==
    /\ k \notin Builtin
    /\ modref[k] = 0
    /\ Returns([s   |-> [Kernel EXCEPT !.base = unregister_qdisc(@, k)],
                err |-> IF k \in Range(qdisc_base) THEN "OK" ELSE "ENOENT"])
    /\ UNCHANGED task

DevUp ==
    /\ ~dev.up
    /\ Returns([s |-> dev_activate([Kernel EXCEPT !.dev.up = TRUE]), err |-> "OK"])
    /\ UNCHANGED task

DevDown ==
    /\ dev.up
    /\ Returns([s |-> dev_deactivate([Kernel EXCEPT !.dev.up = FALSE]), err |-> "OK"])
    /\ UNCHANGED task

OfType(types) == {req \in Requests : req.type \in types}

\* RTM_NEWQDISC whose module is there, or that fails before it needs one.
ModifyQdisc ==
    /\ \E req \in OfType({"NEWQDISC"}) : \E f \in FaultChoice(Steps(req)) :
          /\ ~NeedsModule(Kernel, req)
          /\ Returns(tc_modify_qdisc(Kernel, req, f))
    /\ UNCHANGED task

\* qdisc_create finds no module of the kind: it leaves the RTNL semaphore
\* and asks for the module.  The locals of tc_modify_qdisc stay behind.
KmodWait(t) ==
    /\ task[t] = Idle
    /\ \E req \in OfType({"NEWQDISC"}) :
          /\ NeedsModule(Kernel, req)
          /\ task' = [task EXCEPT ![t] = [pc |-> "kmod", req |-> req,
                                        d |-> Decision(Kernel, req)]]
    /\ UNCHANGED <<dev, qd, qdisc_base, modref, autohandle, qdisc_rtab_list, out>>

Resumed_where_it_was(s, req, d, f) == Carried(s, d, req, f)

\* With the module there the request is replayed from the label replay.
Resumed(s, req, d, f) == tc_modify_qdisc(s, req, f)

\* request_module returns and the RTNL semaphore is taken again.
KmodReturn(t) ==
    /\ task[t] # Idle
    /\ \E f \in FaultChoice(Steps(task[t].req)) :
          Returns(IF qdisc_lookup_ops(Kernel, task[t].req.kind) = NoKind
                  THEN [s |-> Kernel, err |-> "ENOENT"]
                  ELSE Resumed(Kernel, task[t].req, task[t].d, f))
    /\ task' = [task EXCEPT ![t] = Idle]

GetQdisc ==
    /\ \E req \in OfType({"GETQDISC", "DELQDISC"}) : \E f \in FaultChoice(Steps(req)) :
          Returns(tc_get_qdisc(Kernel, req, f))
    /\ UNCHANGED task

CtlTclass ==
    /\ \E req \in OfType({"NEWTCLASS", "DELTCLASS", "GETTCLASS"}) :
          \E f \in FaultChoice(Steps(req)) :
          Returns(tc_ctl_tclass(Kernel, req, f))
    /\ UNCHANGED task

Next ==
    \/ \E k \in Kinds : Register(k) \/ Unregister(k)
    \/ DevUp
    \/ DevDown
    \/ ModifyQdisc
    \/ GetQdisc
    \/ CtlTclass
    \/ \E t \in Tasks : KmodWait(t) \/ KmodReturn(t)

Spec == Init /\ [][Next]_vars

-----------------------------------------------------------------------------
Live == {q \in Qids : qd[q].kind # NoKind}
Heads == Qids \cup {NULL, NOOP, DFLT}

TypeOK ==
    /\ dev \in [up : BOOLEAN, list : Seq(Qids), sleeping : Qids \cup {NOOP, DFLT},
                 qdisc : Qids \cup {NOOP, DFLT}, rx : Qids \cup {NULL}, holds : Nat]
    /\ qd \in [Qids -> [kind : Kinds \cup {NoKind}, handle : Handles, parent : Handles,
                         ingress : BOOLEAN, refcnt : Nat, leaf : [Minors -> Heads],
                         rate : Nat]]
    /\ qdisc_base \in Seq(Kinds)
    /\ modref \in [Kinds -> Nat]
    /\ autohandle \in Handles
    /\ qdisc_rtab_list \in Seq([rate : Nat \ {0}, refcnt : Nat \ {0}])
    /\ \A t \in Tasks : task[t] = Idle \/ task[t].req \in Requests
    /\ out.err \in Errors

\* The places a qdisc is attached: the device's queues and the classes.
Attachments(q) ==
    (IF dev.sleeping = q THEN 1 ELSE 0) + (IF dev.rx = q THEN 1 ELSE 0)
    + Cardinality({pm \in Live \X Minors : qd[pm[1]].leaf[pm[2]] = q})

\* Every reference of a qdisc is an attachment and every attachment holds a
\* reference: tc_modify_qdisc takes one before it grafts (atomic_inc, or the
\* one of qdisc_alloc) and qdisc_destroy drops the one of what was replaced
\* or of what could not be grafted.  A qdisc with more would never be freed,
\* one with fewer is freed while the device or a class still points at it.
RefsAreAttachments ==
    \A q \in Live : qd[q].refcnt = Attachments(q)

\* No qdisc is below itself: check_loop refuses the graft that would close
\* a cycle, and qdisc_destroy and the dumps walk the tree without a mark.
NoLoops ==
    LET Below[n \in 0 .. Cardinality(Qids)] ==
            IF n = 0 THEN [q \in Qids |-> {}]
            ELSE [q \in Qids |->
                    UNION {{r} \cup Below[n - 1][r] :
                           r \in Range(qd[q].leaf) \cap Qids}]
    IN  \A q \in Qids : q \notin Below[Cardinality(Qids)][q]

\* A handle names one qdisc of the device: qdisc_lookup returns the first
\* match, so a second qdisc with the handle could never be found, changed
\* or deleted.  tc_modify_qdisc looks the handle up before it creates, also
\* after the window in which qdisc_create had left the RTNL semaphore.
HandlesUnique ==
    \A i, j \in DOMAIN dev.list :
        qd[dev.list[i]].handle = qd[dev.list[j]].handle => i = j

\* The module and the device of a qdisc are held as long as it lives and
\* no longer, through every error path of qdisc_create (err_out3, err_out2),
\* and a rate table is held once by every qdisc that shapes with it:
\* qdisc_get_rtab shares the table of a rate, qdisc_put_rtab frees it with
\* its last user.
OwnersCounted ==
    /\ \A k \in Kinds : modref[k] = Cardinality({q \in Live : qd[q].kind = k})
    /\ dev.holds = Cardinality(Live)
    /\ Range(dev.list) = Live
    /\ \A i \in DOMAIN qdisc_rtab_list :
          qdisc_rtab_list[i].refcnt =
              Cardinality({q \in Live : qd[q].rate = qdisc_rtab_list[i].rate})

\* Every count is the number of its holders, in every state between two
\* requests: the references of a qdisc, of a module, of the device and of a
\* rate table, over tc_modify_qdisc, tc_get_qdisc and tc_ctl_tclass with
\* every step of them that can fail.
CountsAreHolders == RefsAreAttachments /\ OwnersCounted

\* A root lock is released by the request that took it, once: dev_graft_qdisc
\* locks round the exchange of the qdiscs, tc_modify_qdisc and tc_get_qdisc
\* round the qdisc_destroy of what was replaced.
LocksPaired == out.bad \cap {"lock_held", "unlock_unheld"} = {}

=============================================================================
