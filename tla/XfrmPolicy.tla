----------------------------- MODULE XfrmPolicy -----------------------------
(***************************************************************************)
(* The IPsec policy database, net/xfrm/xfrm_policy.c: the lists of         *)
(* policies per direction, the lifetime timer of a policy, the deferred    *)
(* destruction of a policy that was unlinked, and xfrm_lookup, which finds *)
(* the policy of a flow and finds or makes the bundle the flow is sent     *)
(* through.  With them the policies of sockets (xfrm_sk_policy_insert,     *)
(* __xfrm_sk_clone_policy), the check of a received packet against the     *)
(* policies of its flow (__xfrm_policy_check, xfrm_policy_ok) and, from     *)
(* XfrmAfinfo, the registry of the per-family code.                        *)
(*                                                                         *)
(* Four kinds of actors run side by side.  Configuration calls (insert,    *)
(* delete, flush, walk) come from the key managers, which take             *)
(* xfrm_cfg_mutex around each call.  The timer of a policy runs in softirq *)
(* context.  The work item xfrm_policy_gc_task runs in a kernel thread.    *)
(* Packets run xfrm_lookup on any CPU.  A call is cut into steps where it  *)
(* drops the last lock it holds; what it remembers from before the cut is  *)
(* kept in the record of its task.                                         *)
(*                                                                         *)
(* k is the record of everything the file reads and writes.  The timer     *)
(* wheel, the reference counts of xfrm.h and dst.h, the states found by    *)
(* xfrm_state_find and the per-family bundle code are outside the file;    *)
(* what they do to k is written from their contract.                       *)
(*                                                                         *)
(* k.oops names the first rule of the file's own that a step broke (a BUG, *)
(* a WARN_ON, a comment that says "cannot").  Nothing runs after it: what  *)
(* the kernel does from there on is outside what the file promises.        *)
(***************************************************************************)
EXTENDS Integers, Sequences, FiniteSets, SequencesExt, TLC, XfrmAfinfo

CONSTANTS
    Pols,               \* the memory of policies: 1 .. n
    Dsts,               \* the memory of bundles: 1 .. m
    CfgTasks,           \* the tasks of the key managers
    PktTasks,           \* the tasks that send packets
    Specs,              \* the policies the key managers ask for
    SkSpecs,            \* the policies sockets are given with setsockopt
    Flows,              \* the flows packets belong to
    SecPaths,           \* the paths of states packets come in through
    Dirs,               \* the directions user space and packets name
    Loadable,           \* the afinfo objects that come and go with a module
    Socks,              \* the sockets: 1 .. s
    SubPolicy,          \* CONFIG_XFRM_SUB_POLICY
    IdxBits,            \* width of idx_generator and of an index (32)
    IdxStart,           \* idx_generator as earlier policies have left it
    KmTimeout,          \* XFRM_KM_TIMEOUT in seconds (30)
    MaxSchedTimeout,    \* MAX_SCHEDULE_TIMEOUT in jiffies
    MaxDepth,           \* XFRM_MAX_DEPTH (6)
    MaxTime,            \* xtime stops here
    GenBits,            \* width of flow_cache_genid (32)
    MaxDstRefs,         \* users of one bundle
    Stall,              \* a configuration call may last a second or more
    Faults              \* the steps that may fail

Tasks == CfgTasks \cup PktTasks
HZ == 1                 \* a jiffy is a second
NoTimer == -1           \* the timer is not pending
LONG_MAX == 2147483647
XFRM_POLICY_IN == 0
XFRM_POLICY_OUT == 1
XFRM_POLICY_FWD == 2
XFRM_POLICY_MAX == 3
Types == IF SubPolicy THEN {"main", "sub"} ELSE {"main"}
Lists == Types \X (0 .. 2 * XFRM_POLICY_MAX - 1)
NoSpec == [type |-> "none"]
NoFlow == [id |-> "none", secid |-> 0]

ASSUME /\ Pols \subseteq Nat \ {0} /\ IsFiniteSet(Pols)
       /\ Dsts \subseteq Nat \ {0} /\ IsFiniteSet(Dsts)
       /\ Dirs \subseteq 0 .. XFRM_POLICY_MAX - 1
       /\ IdxBits \in 4 .. 32 /\ Cardinality(Pols) < 2 ^ (IdxBits - 3)
       /\ IdxStart \in 0 .. 2 ^ IdxBits - 1 /\ IdxStart % 8 = 0
       /\ SubPolicy \in BOOLEAN /\ Stall \in BOOLEAN
       /\ \A s \in Specs : s.type \in Types /\ Len(s.tmpls) < MaxDepth
       /\ \A s \in SkSpecs : s.type = "main" /\ Len(s.tmpls) < MaxDepth

VARIABLES
    k,          \* the kernel: policies, lists, bundles, the gc list
    task,       \* what each task is in the middle of
    tmr,        \* what the timer handler of each policy is in the middle of
    now,        \* xtime.tv_sec and jiffies / HZ
    out         \* the outcome of the last step, for whoever called

vars == <<k, task, tmr, now, out>>

\* kzalloc gives zeroes; kfree leaves nothing to read.
Zeroed == [st |-> "unused", refcnt |-> 0, dead |-> FALSE, next |-> NULL,
           spec |-> NoSpec, index |-> 0, add_time |-> 0, use_time |-> 0,
           bundles |-> <<>>, timer |-> NoTimer]
Freed == [Zeroed EXCEPT !.st = "freed"]
NoDst == [st |-> "unused", refcnt |-> 0, fl |-> NoFlow, stale |-> FALSE, family |-> 0]
Idle == [pc |-> "idle"]

Unused(S, mem) == {x \in S : mem[x].st = "unused"}

\* At most one step of a call fails.
FaultChoice(steps) == {{}} \cup {{x} : x \in Faults \cap steps}

\* The first rule broken is the one that is reported.
Oops(kk, rule) == IF kk.oops = "none" THEN [kk EXCEPT !.oops = rule] ELSE kk

-----------------------------------------------------------------------------
(* Lists, references and timers *)

RECURSIVE Chain(_, _)
\* The policies from h along next.
Chain(P, h) == IF h = NULL \/ P[h].st # "alloc" THEN <<>> ELSE <<h>> \o Chain(P, P[h].next)

ListOf(kk, l) == Chain(kk.pol, kk.list[l])

\* The pointer writes that make the list l hold seq; a policy that left the
\* list keeps its next.
SetList(kk, l, seq) ==
    LET succ(i) == IF i < Len(seq) THEN seq[i + 1] ELSE NULL
    IN  [kk EXCEPT !.list[l] = succ(0),
                   !.pol = [p \in Pols |->
                       IF p \in ToSet(seq)
                       THEN [kk.pol[p] EXCEPT !.next = succ(SelectInSeq(seq, LAMBDA q : q = p))]
                       ELSE kk.pol[p]]]

xfrm_policy_id2dir(index) == index % 8

xfrm_policy_lists_empty(kk, dir) == \A type \in Types : kk.list[<<type, dir>>] = NULL

xfrm_selector_match(sel, fl) == fl.id \in sel

xfrm_sec_ctx_match(c1, c2) == c1 = c2

\* 0 when the security module lets the flow use the policy.
security_xfrm_policy_lookup(spec, fl) == spec.ctx = 0 \/ spec.ctx = fl.secid

timer_pending(kk, p) == kk.pol[p].timer # NoTimer

del_timer(kk, p) == [kk EXCEPT !.pol[p].timer = NoTimer]

xfrm_pol_hold(kk, p) == [kk EXCEPT !.pol[p].refcnt = @ + 1]

mod_timer_forgets(kk, p, expires) == [kk EXCEPT !.pol[p].timer = expires]

\* mod_timer says whether the timer was pending; a timer that was not
\* takes a reference of its own.
mod_timer_hold(kk, p, expires) ==
    LET armed == [kk EXCEPT !.pol[p].timer = expires]
    IN  IF timer_pending(kk, p) THEN armed ELSE xfrm_pol_hold(armed, p)

__xfrm_policy_destroy(kk, p) ==
    LET rule == IF ~kk.pol[p].dead THEN "destroy_alive"
                ELSE IF kk.pol[p].bundles # <<>> THEN "destroy_bundles"
                ELSE IF timer_pending(kk, p) THEN "destroy_timer"
                ELSE kk.oops
    IN  Oops([kk EXCEPT !.pol[p] = Freed], rule)

xfrm_pol_put(kk, p) ==
    IF kk.pol[p].st # "alloc" THEN Oops(kk, "uaf")
    ELSE IF kk.pol[p].refcnt = 1 THEN __xfrm_policy_destroy(kk, p)
    ELSE [kk EXCEPT !.pol[p].refcnt = @ - 1]

xfrm_pols_put(kk, pols) == FoldLeft(xfrm_pol_put, kk, pols)

\* dst_free: a bundle nobody uses is destroyed at once, another when its
\* last user lets go.
dst_free(kk, d) ==
    IF kk.dst[d].refcnt = 0 THEN [kk EXCEPT !.dst[d] = [NoDst EXCEPT !.st = "gone"]]
    ELSE [kk EXCEPT !.dst[d].st = "obsolete"]

dst_hold(kk, d) == [kk EXCEPT !.dst[d].refcnt = @ + 1]

dst_release(kk, d) ==
    IF kk.dst[d].st = "obsolete" /\ kk.dst[d].refcnt = 1
    THEN [kk EXCEPT !.dst[d] = [NoDst EXCEPT !.st = "gone"]]
    ELSE [kk EXCEPT !.dst[d].refcnt = @ - 1]

stale_bundle(kk, d) == kk.dst[d].stale

make_jiffies(secs) ==
    IF secs >= (MaxSchedTimeout - 1) \div HZ THEN MaxSchedTimeout - 1 ELSE secs * HZ

-----------------------------------------------------------------------------
(* Killing and collecting *)

xfrm_policy_kill(kk, p) ==
    IF kk.pol[p].dead THEN Oops(kk, "killed_twice")
    ELSE [kk EXCEPT !.pol[p].dead = TRUE, !.gc_list = <<p>> \o @, !.gc_work = TRUE]

gc_kill_keeps_bundles(kk, p) ==
    LET k1 == FoldLeft(dst_free, kk, kk.pol[p].bundles)
        k2 == IF timer_pending(k1, p)
              THEN [del_timer(k1, p) EXCEPT !.pol[p].refcnt = @ - 1] ELSE k1
    IN  xfrm_pol_put(k2, p)

\* flow_cache_flush drops what the flow cache holds; the cache of this
\* model holds nothing (see flow_cache_lookup).
xfrm_policy_gc_kill(kk, p) ==
    LET k1 == FoldLeft(dst_free, [kk EXCEPT !.pol[p].bundles = <<>>], kk.pol[p].bundles)
        k2 == IF timer_pending(k1, p)
              THEN [del_timer(k1, p) EXCEPT !.pol[p].refcnt = @ - 1] ELSE k1
    IN  xfrm_pol_put(k2, p)

-----------------------------------------------------------------------------
(* Insertion *)

RECURSIVE xfrm_gen_index(_, _, _)
\* The result is the index and the generator after the call.
xfrm_gen_index(used, gen, dir) ==
    LET idx == IF gen + dir = 0 THEN 8 ELSE gen + dir
        nxt == (gen + 8) % (2 ^ IdxBits)
    IN  IF idx \in used THEN xfrm_gen_index(used, nxt, dir)
        ELSE [idx |-> idx, gen |-> nxt]

Indexes(kk, seq) == {kk.pol[seq[i]].index : i \in DOMAIN seq}
Priority(kk, p) == kk.pol[p].spec.priority
SamePolicy(kk, a, b) ==
    /\ kk.pol[a].spec.sel = kk.pol[b].spec.sel
    /\ xfrm_sec_ctx_match(kk.pol[a].spec.ctx, kk.pol[b].spec.ctx)

Found(L, delpol, newpos, i) ==
    [err |-> "ok", L |-> L, delpol |-> delpol, pos |-> IF newpos # 0 THEN newpos ELSE i]

RECURSIVE scan_keeps_twin(_, _, _, _, _, _, _)
scan_keeps_twin(kk, policy, excl, L, i, delpol, newpos) ==
    IF i > Len(L) THEN Found(L, delpol, newpos, i)
    ELSE IF Priority(kk, policy) >= Priority(kk, L[i])
         THEN scan_keeps_twin(kk, policy, excl, L, i + 1, delpol, newpos)
         ELSE Found(L, delpol, newpos, i)

RECURSIVE InsertScan(_, _, _, _, _, _, _)
\* The loop of xfrm_policy_insert over the list L: p points at slot i,
\* newpos at slot newpos, 0 for NULL.
InsertScan(kk, policy, excl, L, i, delpol, newpos) ==
    IF i > Len(L) THEN Found(L, delpol, newpos, i)
    ELSE IF delpol = NULL /\ SamePolicy(kk, policy, L[i])
         THEN IF excl THEN [Found(L, NULL, 0, i) EXCEPT !.err = "EEXIST"]
              ELSE IF Priority(kk, policy) > Priority(kk, L[i])
                   THEN InsertScan(kk, policy, excl, RemoveAt(L, i), i, L[i], newpos)
                   ELSE Found(RemoveAt(L, i), L[i], newpos, i)
         ELSE IF Priority(kk, policy) >= Priority(kk, L[i])
              THEN InsertScan(kk, policy, excl, L, i + 1, delpol, newpos)
              ELSE IF delpol # NULL THEN Found(L, delpol, newpos, i)
                   ELSE InsertScan(kk, policy, excl, L, i + 1, delpol,
                                   IF newpos # 0 THEN newpos ELSE i)

\* xfrm_policy_insert under the write lock: the policy is linked, the
\* generation moves on, the policy gets its index and its timer.
InsertLink(kk, dir, policy, r) ==
    LET l == <<kk.pol[policy].spec.type, dir>>
        k1 == xfrm_pol_hold(SetList(kk, l, InsertAt(r.L, r.pos, policy)), policy)
        g == IF r.delpol # NULL
             THEN [idx |-> kk.pol[r.delpol].index, gen |-> kk.idx_generator]
             ELSE xfrm_gen_index(Indexes(k1, ListOf(k1, l)), kk.idx_generator, dir)
        k2 == [k1 EXCEPT !.genid = (@ + 1) % 2 ^ GenBits, !.idx_generator = g.gen,
                         !.pol[policy].index = g.idx,
                         !.pol[policy].add_time = now,
                         !.pol[policy].use_time = 0]
    IN  mod_timer_hold(k2, policy, now + HZ)

\* The bundles of the policies behind the new one are taken off and freed.
\* The walk starts from the next of the new policy as it is by now.
InsertSweep(kk, policy) ==
    LET start == kk.pol[policy].next
        behind == Chain(kk.pol, start)
        reached == IF behind = <<>> THEN start ELSE kk.pol[Last(behind)].next
        gc == FlattenSeq([i \in DOMAIN behind |-> kk.pol[behind[i]].bundles])
        k1 == [kk EXCEPT !.pol = [p \in Pols |->
                  IF p \in ToSet(behind) THEN [kk.pol[p] EXCEPT !.bundles = <<>>]
                  ELSE kk.pol[p]]]
        k2 == FoldLeft(dst_free, k1, gc)
    IN  IF reached # NULL THEN Oops(k2, "uaf") ELSE k2

-----------------------------------------------------------------------------
(* Finding a policy *)

take_keeps_listed(kk, l, i, delete) ==
    LET L == ListOf(kk, l)
    IN  IF i = 0 THEN [k |-> kk, pol |-> NULL] ELSE [k |-> xfrm_pol_hold(kk, L[i]), pol |-> L[i]]

\* The entry at place i of list l, unlinked when delete is set; the caller
\* gets a reference.
Take(kk, l, i, delete) ==
    LET L == ListOf(kk, l)
    IN  IF i = 0 THEN [k |-> kk, pol |-> NULL]
        ELSE [k |-> IF delete THEN SetList(xfrm_pol_hold(kk, L[i]), l, RemoveAt(L, i))
                    ELSE xfrm_pol_hold(kk, L[i]),
              pol |-> L[i]]

xfrm_policy_bysel_ctx(kk, type, dir, sel, ctx, delete) ==
    Take(kk, <<type, dir>>,
         SelectInSeq(ListOf(kk, <<type, dir>>),
                     LAMBDA p : /\ kk.pol[p].spec.sel = sel
                                /\ xfrm_sec_ctx_match(ctx, kk.pol[p].spec.ctx)),
         delete)

xfrm_policy_byid(kk, type, dir, id, delete) ==
    Take(kk, <<type, dir>>,
         SelectInSeq(ListOf(kk, <<type, dir>>), LAMBDA p : kk.pol[p].index = id),
         delete)

\* The calls of func: the policy, its direction, and how many follow.
xfrm_policy_walk(kk, type) ==
    LET all == FlattenSeq([d \in 1 .. 2 * XFRM_POLICY_MAX |->
                   LET L == ListOf(kk, <<type, d - 1>>)
                   IN  [i \in DOMAIN L |-> [xp |-> L[i], dir |-> (d - 1) % XFRM_POLICY_MAX]]])
    IN  [i \in DOMAIN all |-> [xp |-> all[i].xp, dir |-> all[i].dir, count |-> Len(all) - i]]

Applies(kk, p, fl, family) ==
    /\ kk.pol[p].spec.family = family
    /\ xfrm_selector_match(kk.pol[p].spec.sel, fl)
    /\ security_xfrm_policy_lookup(kk.pol[p].spec, fl)

xfrm_policy_lookup_bytype(kk, type, fl, family, dir) ==
    LET L == ListOf(kk, <<type, dir>>)
        i == SelectInSeq(L, LAMBDA p : Applies(kk, p, fl, family))
    IN  IF i = 0 THEN NULL ELSE L[i]

xfrm_policy_lookup(kk, fl, family, dir) ==
    LET sub == IF SubPolicy THEN xfrm_policy_lookup_bytype(kk, "sub", fl, family, dir) ELSE NULL
    IN  IF sub # NULL THEN sub ELSE xfrm_policy_lookup_bytype(kk, "main", fl, family, dir)

\* The flow cache of net/core/flow.c is a cache that always misses: the
\* resolver is asked every time and nothing is kept.
flow_cache_lookup(kk, fl, family, dir) == xfrm_policy_lookup(kk, fl, family, dir)

xfrm_sk_policy_lookup(kk, sk, dir, fl) ==
    LET pol == kk.sk[sk][dir]
    IN  IF /\ pol # NULL
           /\ xfrm_selector_match(kk.pol[pol].spec.sel, fl)
           /\ security_xfrm_policy_lookup(kk.pol[pol].spec, fl)
        THEN pol ELSE NULL

__xfrm_policy_link(kk, pol, dir) ==
    LET l == <<kk.pol[pol].spec.type, dir>>
    IN  xfrm_pol_hold(SetList(kk, l, <<pol>> \o ListOf(kk, l)), pol)

\* The result says whether the policy was on the list.
__xfrm_policy_unlink(kk, pol, dir) ==
    LET l == <<kk.pol[pol].spec.type, dir>>
        L == ListOf(kk, l)
    IN  IF pol \in ToSet(L)
        THEN [k |-> SetList(kk, l, Remove(L, pol)), pol |-> pol]
        ELSE [k |-> kk, pol |-> NULL]

\* xfrm_policy_delete once the policy is off its list.
DeleteKill(kk, pol, dir) ==
    xfrm_policy_kill(IF dir < XFRM_POLICY_MAX THEN [kk EXCEPT !.genid = (@ + 1) % 2 ^ GenBits] ELSE kk, pol)

\* The whole of xfrm_policy_delete, as a caller that holds no other lock
\* sees it.
xfrm_policy_delete(kk, pol, dir) ==
    LET r == __xfrm_policy_unlink(kk, pol, dir)
    IN  IF r.pol = NULL THEN [k |-> kk, err |-> "ENOENT"]
        ELSE [k |-> DeleteKill(r.k, pol, dir), err |-> "ok"]

-----------------------------------------------------------------------------
(* The policies of sockets *)

\* The list of the socket policies of a direction.
SkList(dir) == <<"main", XFRM_POLICY_MAX + dir>>

clone_keeps_reference(kk, old, dir, newp, f) ==
    LET O == kk.pol[old]
        copy == [Zeroed EXCEPT !.st = "alloc", !.refcnt = 1,
                               !.spec = [O.spec EXCEPT !.family = 0],
                               !.add_time = O.add_time, !.use_time = O.use_time,
                               !.index = O.index]
    IN  IF newp = NULL \/ f # {} THEN [k |-> kk, newp |-> NULL]
        ELSE [k |-> __xfrm_policy_link([kk EXCEPT !.pol[newp] = copy], newp,
                                       XFRM_POLICY_MAX + dir),
              newp |-> newp]

\* newp is the memory xfrm_policy_alloc has, NULL for none.  The family is
\* not among what is copied; security_xfrm_policy_clone may fail.
clone_policy(kk, old, dir, newp, f) ==
    LET O == kk.pol[old]
        copy == [Zeroed EXCEPT !.st = "alloc", !.refcnt = 1,
                               !.spec = [O.spec EXCEPT !.family = 0],
                               !.add_time = O.add_time, !.use_time = O.use_time,
                               !.index = O.index]
        linked == __xfrm_policy_link([kk EXCEPT !.pol[newp] = copy], newp,
                                     XFRM_POLICY_MAX + dir)
    IN  IF newp = NULL \/ "alloc" \in f THEN [k |-> kk, newp |-> NULL]
        ELSE IF "clone" \in f THEN [k |-> [kk EXCEPT !.pol[newp] = Freed], newp |-> NULL]
        ELSE [k |-> xfrm_pol_put(linked, newp), newp |-> newp]

RECURSIVE SkClone(_, _, _, _, _)
\* __xfrm_sk_clone_policy from direction dir on: the socket sk starts as a
\* copy of its parent, of which p[0] and p[1] are the policies; fail is the
\* direction whose clone fails, with f.
SkClone(kk, sk, p, dir, fail) ==
    LET free == Unused(Pols, kk.pol)
        c == clone_policy(kk, p[dir], dir, IF free = {} THEN NULL ELSE Min(free),
                          IF dir = fail.dir THEN fail.f ELSE {})
        set == [c.k EXCEPT !.sk[sk][dir] = c.newp]
    IN  IF dir > 1 THEN [k |-> kk, err |-> "ok"]
        ELSE IF p[dir] = NULL THEN SkClone(kk, sk, p, dir + 1, fail)
        ELSE IF c.newp = NULL THEN [k |-> set, err |-> "ENOMEM"]
        ELSE SkClone(set, sk, p, dir + 1, fail)

sk_clone_shares(kk, sk, p, fail) == [k |-> [kk EXCEPT !.sk[sk] = p], err |-> "ok"]

__xfrm_sk_clone_policy(kk, sk, p, fail) ==
    SkClone([kk EXCEPT !.sk[sk] = [d \in 0 .. 1 |-> NULL]], sk, p, 0, fail)

-----------------------------------------------------------------------------
(* The lifetime of a policy *)

Left(limit, since, t) == IF limit = 0 THEN {} ELSE {limit + since - t}

\* What xfrm_policy_timer finds at time t: whether a hard lifetime is over,
\* whether a soft one is, and the seconds to the next thing to happen.
Lifetime(kk, p, t) ==
    LET lft == kk.pol[p].spec.lft
        added == kk.pol[p].add_time
        used == IF kk.pol[p].use_time # 0 THEN kk.pol[p].use_time ELSE added
        hard == Left(lft.hard_add, added, t) \cup Left(lft.hard_use, used, t)
        soft == Left(lft.soft_add, added, t) \cup Left(lft.soft_use, used, t)
    IN  [expired |-> \E tmo \in hard : tmo <= 0,
         warn |-> \E tmo \in soft : tmo <= 0,
         next |-> Min(hard \cup {IF tmo <= 0 THEN KmTimeout ELSE tmo : tmo \in soft}
                           \cup {LONG_MAX})]

\* The handler up to where it leaves the lock of the policy; the timer has
\* fired and is no longer pending.
xfrm_policy_timer(kk, p) ==
    LET life == Lifetime(kk, p, now)
        again == IF life.next = LONG_MAX THEN kk
                 ELSE mod_timer_hold(kk, p, now * HZ + make_jiffies(life.next))
    IN  IF kk.pol[p].dead THEN [k |-> xfrm_pol_put(kk, p), expired |-> FALSE, warn |-> FALSE]
        ELSE IF life.expired THEN [k |-> kk, expired |-> TRUE, warn |-> FALSE]
        ELSE [k |-> xfrm_pol_put(again, p), expired |-> FALSE, warn |-> life.warn]

-----------------------------------------------------------------------------
(* Templates and bundles *)

Answers == {"valid", "larval", "error", "wait", "none"}

\* What xfrm_state_find and the test of km.state leave in error.
ErrOf(answer) ==
    CASE answer = "error" -> "EINVAL"
      [] answer = "none" -> "ESRCH"
      [] OTHER -> "EAGAIN"

RECURSIVE xfrm_tmpl_resolve_one(_, _, _, _)
\* ans[i] is what xfrm_state_find has for template i.  held counts the
\* states the caller holds a reference to when the call returns.
xfrm_tmpl_resolve_one(tmpls, ans, i, nx) ==
    IF i > Len(tmpls) THEN [nx |-> nx, err |-> "ok", held |-> nx]
    ELSE IF ans[i] = "valid" THEN xfrm_tmpl_resolve_one(tmpls, ans, i + 1, nx + 1)
    ELSE IF tmpls[i].optional THEN xfrm_tmpl_resolve_one(tmpls, ans, i + 1, nx)
    ELSE [nx |-> -1, err |-> ErrOf(ans[i]), held |-> 0]

RECURSIVE xfrm_tmpl_resolve(_, _, _, _)
\* vecs are the templates of pols[i .. ], ans the answers for them, cnx
\* the states found so far.  xfrm_state_sort copies tpp to xfrm.
xfrm_tmpl_resolve(vecs, ans, i, cnx) ==
    IF i > Len(vecs) THEN [nx |-> cnx, err |-> "ok", held |-> cnx]
    ELSE IF cnx + Len(vecs[i]) >= MaxDepth THEN [nx |-> -1, err |-> "ENOBUFS", held |-> 0]
    ELSE LET one == xfrm_tmpl_resolve_one(vecs[i], ans, 1, 0)
             rest == [j \in 1 .. Len(ans) - Len(vecs[i]) |-> ans[j + Len(vecs[i])]]
         IN  IF one.nx < 0 THEN [nx |-> -1, err |-> one.err, held |-> one.held]
             ELSE xfrm_tmpl_resolve(vecs, rest, i + 1, cnx + one.nx)

Vecs(kk, pols) == [i \in DOMAIN pols |-> kk.pol[pols[i]].spec.tmpls]
NrOf(kk, pols) == Len(FlattenSeq(Vecs(kk, pols)))

\* afinfo->find_bundle: the first bundle of the policy that was made for
\* the flow and is still good.
xfrm_find_bundle(kk, fl, policy, family) ==
    IF xfrm_policy_get_afinfo(kk.afinfo, family) = NULL THEN [err |-> "EINVAL", dst |-> NULL]
    ELSE LET B == kk.pol[policy].bundles
             i == SelectInSeq(B, LAMBDA d : kk.dst[d].fl = fl /\ ~stale_bundle(kk, d))
         IN  [err |-> "ok", dst |-> IF i = 0 THEN NULL ELSE B[i]]

\* afinfo->bundle_create: a bundle nobody holds yet.
xfrm_bundle_create(kk, fl, family, d, f) ==
    IF xfrm_policy_get_afinfo(kk.afinfo, family) = NULL THEN [k |-> kk, err |-> "EINVAL"]
    ELSE IF "bundle" \in f THEN [k |-> kk, err |-> "ENOMEM"]
    ELSE [k |-> [kk EXCEPT !.dst[d] = [st |-> "live", refcnt |-> 0, fl |-> fl, stale |-> FALSE,
                                       family |-> family]],
          err |-> "ok"]

\* The end of xfrm_lookup under the lock of the policy: the new bundle goes
\* on the policy unless the policy was seen dead or the bundle went stale.
Enlist(kk, policy, d, pol_dead) ==
    IF pol_dead \/ stale_bundle(kk, d) THEN dst_free(kk, d)
    ELSE dst_hold([kk EXCEPT !.pol[policy].bundles = <<d>> \o @], d)

\* Every bundle of a listed policy that func condemns is taken off and
\* freed; func is given as the set of bundles it says yes to.
xfrm_prune_bundles(kk, func) ==
    LET listed == UNION {ToSet(ListOf(kk, l)) : l \in Lists}
        gone == {d \in func : \E p \in listed : d \in ToSet(kk.pol[p].bundles)}
        k1 == [kk EXCEPT !.pol = [p \in Pols |->
                  [kk.pol[p] EXCEPT !.bundles = SelectSeq(@, LAMBDA d : d \notin gone)]]]
    IN  FoldLeft(dst_free, k1, SetToSeq(gone))

unused_bundle(kk, d) == kk.dst[d].refcnt = 0

-----------------------------------------------------------------------------
(* The check of a packet that came in *)

\* The flow directions are numbered as the policy directions are.
policy_to_flow_dir(dir) == dir

\* A state that went through a key manager in the kernel stands for an
\* optional template only.  Of spi, reqid and algorithms the templates of
\* this model leave open what the state may have.
xfrm_state_ok(tmpl, x) ==
    IF x.kern THEN tmpl.optional /\ tmpl.addr = x.addr
    ELSE /\ x.proto = tmpl.proto /\ x.mode = tmpl.mode
         /\ ~(x.mode # "transport" /\ tmpl.addr # x.addr)

RECURSIVE PolicyScan(_, _, _, _)
\* The loop of xfrm_policy_ok; idx counts from 0 as in the code.
PolicyScan(tmpl, sp, idx, start) ==
    IF idx >= Len(sp) THEN start
    ELSE IF xfrm_state_ok(tmpl, sp[idx + 1]) THEN idx + 1
    ELSE IF sp[idx + 1].mode # "transport" THEN (IF start = -1 THEN -2 - idx ELSE start)
    ELSE PolicyScan(tmpl, sp, idx + 1, start)

policy_ok_stays(tmpl, sp, start) ==
    IF tmpl.optional /\ tmpl.mode = "transport" THEN start
    ELSE LET r == PolicyScan(tmpl, sp, start, IF tmpl.optional THEN start ELSE -1)
         IN  IF r > start THEN r - 1 ELSE r

xfrm_policy_ok(tmpl, sp, start) ==
    IF tmpl.optional /\ tmpl.mode = "transport" THEN start
    ELSE PolicyScan(tmpl, sp, start, IF tmpl.optional THEN start ELSE -1)

\* The place of the first state from kk on that is not in transport mode,
\* -1 for none.
secpath_has_nontransport(sp, kk) ==
    LET at == {i \in kk .. Len(sp) - 1 : sp[i + 1].mode # "transport"}
    IN  IF at = {} THEN -1 ELSE Min(at)

\* The state whose type is told of the rejection, -1 for none.
xfrm_secpath_reject(idx, sp) ==
    IF idx < 0 \/ idx >= Len(sp) \/ ~sp[idx + 1].reject THEN -1 ELSE idx

RECURSIVE TmplsOk(_, _, _, _)
\* The templates from the last to the first against the path from kk on:
\* where the path is left, or the negative result of the template that
\* found no state.
TmplsOk(tpp, sp, i, kk) ==
    IF i = 0 THEN kk
    ELSE LET nk == xfrm_policy_ok(tpp[i], sp, kk)
         IN  IF nk < 0 THEN nk ELSE TmplsOk(tpp, sp, i - 1, nk)

\* xfrm_tmpl_sort of xfrm_state.c leaves the templates of these families
\* in their order.
xfrm_tmpl_sort(tpp) == tpp

\* What __xfrm_policy_check decides once it holds pols, none for a flow
\* without policy: the verdict, and the state that is told of a rejection.
Verdict(kk, pols, sp) ==
    LET reject(idx) == [ok |-> FALSE, told |-> xfrm_secpath_reject(idx, sp)]
        none == secpath_has_nontransport(sp, 0)
        pol == kk.pol[pols[1]].spec
        tpp == IF Len(pols) > 1 THEN xfrm_tmpl_sort(FlattenSeq(Vecs(kk, pols)))
               ELSE FlattenSeq(Vecs(kk, pols))
        last == TmplsOk(tpp, sp, Len(tpp), 0)
    IN  IF pols = <<>> THEN (IF none >= 0 THEN reject(none) ELSE [ok |-> TRUE, told |-> -1])
        ELSE IF pol.action # "allow" THEN reject(-1)
        ELSE IF NrOf(kk, <<pols[1]>>) >= MaxDepth THEN [ok |-> FALSE, told |-> -1]
        ELSE IF Len(pols) > 1 /\ kk.pol[pols[2]].spec.action # "allow" THEN reject(-1)
        ELSE IF NrOf(kk, pols) >= MaxDepth THEN [ok |-> FALSE, told |-> -1]
        ELSE IF last < -1 THEN reject(-(2 + last))
        ELSE IF last < 0 THEN reject(-1)
        ELSE IF secpath_has_nontransport(sp, last) >= 0
             THEN reject(secpath_has_nontransport(sp, last))
        ELSE [ok |-> TRUE, told |-> -1]

-----------------------------------------------------------------------------
(* The steps *)

Init ==
    /\ k = [pol |-> [p \in Pols |-> Zeroed],
            dst |-> [d \in Dsts |-> NoDst],
            list |-> [l \in Lists |-> NULL],
            sk |-> [s \in Socks |-> [d \in 0 .. 1 |-> NULL]],
            gc_list |-> <<>>, gc_work |-> FALSE, gc_todo |-> <<>>,
            genid |-> 0, idx_generator |-> IdxStart,
            afinfo |-> FoldLeft(LAMBDA tab, a : xfrm_policy_register_afinfo(tab, a).tab, NoAfinfo,
                                SetToSeq(Afinfos \ Loadable)),
            oops |-> "none"]
    /\ task = [t \in Tasks |-> Idle]
    /\ tmr = [p \in Pols |-> "idle"]
    /\ now = 1
    /\ out = [op |-> "boot"]

\* The calls that the key managers make under xfrm_cfg_mutex.
CfgLabels == {"ins_kill", "ins_sweep", "del_kill", "got", "flush_kill"}
CfgBusy == \E t \in Tasks : task[t].pc \in CfgLabels

LookupLabels == {"lk_restart", "lk_resolve", "lk_wait", "lk_dead", "lk_enlist"}

\* Nothing runs once a rule is broken.
Running == k.oops = "none"

Goes(t, kk, rec, o) ==
    /\ Running
    /\ k' = kk
    /\ task' = [task EXCEPT ![t] = rec]
    /\ out' = o
    /\ UNCHANGED <<tmr, now>>

Done(t, kk, o) == Goes(t, kk, Idle, o)

\* xfrm_add_policy of the key manager: a policy is allocated and filled in,
\* inserted, and let go of.  Here from the allocation to the end of the
\* write lock of xfrm_policy_insert.
AddPolicy(t) ==
    \E spec \in Specs, dir \in Dirs, excl \in BOOLEAN, f \in FaultChoice({"alloc"}) :
        /\ task[t] = Idle /\ ~CfgBusy /\ Unused(Pols, k.pol) # {}
        /\ LET policy == Min(Unused(Pols, k.pol))
               k0 == [k EXCEPT !.pol[policy] = [Zeroed EXCEPT !.st = "alloc", !.refcnt = 1,
                                                             !.spec = spec]]
               r == InsertScan(k0, policy, excl, ListOf(k0, <<spec.type, dir>>), 1, NULL, 0)
               ins == [pc |-> "ins_kill", policy |-> policy, delpol |-> r.delpol]
           IN  IF "alloc" \in f THEN Done(t, k, [op |-> "insert", err |-> "ENOMEM"])
               ELSE IF r.err # "ok"
               THEN Done(t, [k EXCEPT !.pol[policy] = Freed], [op |-> "insert", err |-> r.err])
               ELSE Goes(t, InsertLink(k0, dir, policy, r),
                         IF r.delpol = NULL THEN [ins EXCEPT !.pc = "ins_sweep"] ELSE ins,
                         [op |-> "insert", err |-> "ok"])

\* xfrm_policy_insert after the write lock: the policy it replaced is killed.
InsertKill(t) ==
    /\ task[t].pc = "ins_kill"
    /\ Goes(t, xfrm_policy_kill(k, task[t].delpol), [task[t] EXCEPT !.pc = "ins_sweep"], out)

\* xfrm_policy_insert under the read lock, and the xfrm_pol_put of the key
\* manager.
InsertEnd(t) ==
    /\ task[t].pc = "ins_sweep"
    /\ Done(t, xfrm_pol_put(InsertSweep(k, task[t].policy), task[t].policy), out)

\* xfrm_get_policy of the key manager, by index or by selector, to read a
\* policy or to delete it.
GetPolicy(t) ==
    \E type \in Types, dir \in Dirs, delete \in BOOLEAN, byid \in BOOLEAN, spec \in Specs :
        /\ task[t] = Idle /\ ~CfgBusy
        /\ LET L == ListOf(k, <<type, dir>>)
               id == IF L = <<>> THEN 0 ELSE k.pol[Head(L)].index
               r == IF byid THEN xfrm_policy_byid(k, type, dir, id, delete)
                    ELSE xfrm_policy_bysel_ctx(k, type, dir, spec.sel, spec.ctx, delete)
           IN  IF r.pol = NULL THEN Done(t, r.k, [op |-> "get", err |-> "ENOENT"])
               ELSE Goes(t, r.k, [pc |-> IF delete THEN "del_kill" ELSE "got", pol |-> r.pol],
                         [op |-> "get", err |-> "ok"])

\* xfrm_policy_byid and xfrm_policy_bysel_ctx after the write lock, and the
\* xfrm_pol_put of the key manager.
GetKill(t) ==
    /\ task[t].pc = "del_kill"
    /\ Done(t, xfrm_pol_put(xfrm_policy_kill([k EXCEPT !.genid = (@ + 1) % 2 ^ GenBits], task[t].pol),
                            task[t].pol), out)

GetEnd(t) ==
    /\ task[t].pc = "got"
    /\ Done(t, xfrm_pol_put(k, task[t].pol), out)

\* The loop of xfrm_policy_flush from one release of the write lock to the
\* next: the policy popped before is killed, the next one is popped; when
\* none is left the generation moves on.
FlushOn(t, type, kk) ==
    LET full == {dir \in 0 .. XFRM_POLICY_MAX - 1 : kk.list[<<type, dir>>] # NULL}
        l == <<type, Min(full)>>
        L == ListOf(kk, l)
    IN  IF full = {} THEN Done(t, [kk EXCEPT !.genid = (@ + 1) % 2 ^ GenBits], [op |-> "flush"])
        ELSE Goes(t, SetList(kk, l, Tail(L)),
                  [pc |-> "flush_kill", type |-> type, xp |-> Head(L)], [op |-> "flush"])

Flush(t) ==
    \E type \in Types :
        /\ task[t] = Idle /\ ~CfgBusy
        /\ FlushOn(t, type, k)

FlushKill(t) ==
    /\ task[t].pc = "flush_kill"
    /\ FlushOn(t, task[t].type, xfrm_policy_kill(k, task[t].xp))

\* xfrm_policy_walk for a dump; func may fail at any policy.
Walk(t) ==
    \E type \in Types, f \in FaultChoice({"dump"}) :
        /\ task[t] = Idle /\ ~CfgBusy
        /\ LET calls == xfrm_policy_walk(k, type)
               stops == IF "dump" \in f THEN 1 .. Len(calls) ELSE {Len(calls)}
           IN  \E n \in stops :
                   Done(t, k, [op |-> "walk", calls |-> SubSeq(calls, 1, n),
                               err |-> IF calls = <<>> THEN "ENOENT"
                                       ELSE IF "dump" \in f THEN "EMSGSIZE" ELSE "ok"])

\* A socket is under its own lock from the start of a call that sets its
\* policy to the end.
SockBusy(sk) == \E t \in Tasks : task[t].pc = "sk_kill" /\ task[t].sk = sk

\* xfrm_user_policy for setsockopt: the policy user space gave is compiled,
\* always as a main policy, and xfrm_sk_policy_insert puts it on the socket.
\* Here to the end of the write lock.
SkInsert(t) ==
    \E sk \in Socks, dir \in Dirs \cap 0 .. 1, f \in FaultChoice({"alloc"}),
       spec \in SkSpecs :
        /\ task[t] = Idle /\ ~SockBusy(sk) /\ Unused(Pols, k.pol) # {}
        /\ LET pol == Min(Unused(Pols, k.pol))
               old_pol == k.sk[sk][dir]
               k0 == [k EXCEPT !.pol[pol] = [Zeroed EXCEPT !.st = "alloc", !.refcnt = 1,
                                                          !.spec = spec]]
               g == xfrm_gen_index(Indexes(k0, ListOf(k0, SkList(dir))), k.idx_generator,
                                   XFRM_POLICY_MAX + dir)
               k1 == [k0 EXCEPT !.sk[sk][dir] = pol, !.pol[pol].add_time = now,
                                !.pol[pol].index = g.idx, !.idx_generator = g.gen]
               k2 == __xfrm_policy_link(k1, pol, XFRM_POLICY_MAX + dir)
               k3 == IF old_pol = NULL THEN k2
                     ELSE __xfrm_policy_unlink(k2, old_pol, XFRM_POLICY_MAX + dir).k
           IN  IF "alloc" \in f THEN Done(t, k, [op |-> "sk_insert", err |-> "ENOBUFS"])
               ELSE Goes(t, k3, [pc |-> "sk_kill", sk |-> sk, pol |-> pol, old_pol |-> old_pol],
                         [op |-> "sk_insert", err |-> "ok"])

\* xfrm_sk_policy_insert after the write lock, and the xfrm_pol_put of
\* xfrm_user_policy.
SkInsertEnd(t) ==
    /\ task[t].pc = "sk_kill"
    /\ LET old_pol == task[t].old_pol
       IN  Done(t, xfrm_pol_put(IF old_pol = NULL THEN k ELSE xfrm_policy_kill(k, old_pol),
                                task[t].pol), out)

\* sk_clone makes the socket sk as a copy of parent, which is locked, its
\* pointers to the policies of the parent included, and xfrm_sk_clone_policy
\* gives it policies of its own.
SkCloneFrom(parent, sk) ==
    \E dir \in 0 .. 1, f \in FaultChoice({"alloc", "clone"}) :
        /\ Running
        /\ parent # sk /\ ~SockBusy(parent)
        /\ \A d \in 0 .. 1 : k.sk[sk][d] = NULL
        /\ \E d \in 0 .. 1 : k.sk[parent][d] # NULL
        /\ f # {} => k.sk[parent][dir] # NULL
        /\ f = {} => dir = 0
        /\ LET r == __xfrm_sk_clone_policy([k EXCEPT !.sk[sk] = k.sk[parent]], sk, k.sk[parent],
                                            [dir |-> dir, f |-> f])
           IN  /\ k' = r.k
               /\ out' = [op |-> "sk_clone", err |-> r.err]
        /\ UNCHANGED <<task, tmr, now>>

\* A packet of the socket is being looked up.
SockInUse(sk) == \E t \in Tasks : task[t].pc \in LookupLabels /\ task[t].a.sk = sk

\* xfrm_sk_free_policy when a socket is destroyed; nothing is sent from it
\* by then.
SkFree(sk) ==
    /\ Running
    /\ ~SockBusy(sk) /\ ~SockInUse(sk) /\ \E d \in 0 .. 1 : k.sk[sk][d] # NULL
    /\ LET free(kk, d) == IF kk.sk[sk][d] = NULL THEN kk
                          ELSE [xfrm_policy_delete(kk, kk.sk[sk][d], XFRM_POLICY_MAX + d).k
                                    EXCEPT !.sk[sk][d] = NULL]
       IN  k' = free(free(k, 0), 1)
    /\ out' = [op |-> "sk_free"]
    /\ UNCHANGED <<task, tmr, now>>

\* xfrm_policy_gc_task: the list is taken over, then one policy at a time.
GcTask ==
    /\ Running
    /\ k.gc_todo # <<>> \/ k.gc_work
    /\ LET todo == IF k.gc_todo # <<>> THEN k.gc_todo ELSE k.gc_list
           k1 == IF k.gc_todo # <<>> THEN k
                 ELSE [k EXCEPT !.gc_list = <<>>, !.gc_work = FALSE]
       IN  k' = xfrm_policy_gc_kill([k1 EXCEPT !.gc_todo = Tail(todo)], Head(todo))
    /\ UNCHANGED <<task, tmr, now, out>>

\* The timer of p goes off.
TimerFire(p) ==
    /\ Running
    /\ tmr[p] = "idle" /\ timer_pending(k, p) /\ k.pol[p].timer <= now * HZ
    /\ LET r == xfrm_policy_timer(del_timer(k, p), p)
       IN  /\ k' = r.k
           /\ tmr' = [tmr EXCEPT ![p] = IF r.expired THEN "expired" ELSE "idle"]
           /\ out' = [op |-> "timer", warn |-> r.warn]
    /\ UNCHANGED <<task, now>>

\* xfrm_policy_delete from the timer, under the write lock.
TimerUnlink(p) ==
    /\ Running
    /\ tmr[p] = "expired"
    /\ LET r == __xfrm_policy_unlink(k, p, xfrm_policy_id2dir(k.pol[p].index))
       IN  /\ k' = IF r.pol = NULL THEN xfrm_pol_put(k, p) ELSE r.k
           /\ tmr' = [tmr EXCEPT ![p] = IF r.pol = NULL THEN "idle" ELSE "kill"]
           /\ out' = [op |-> "timer", err |-> IF r.pol = NULL THEN "ENOENT" ELSE "ok"]
    /\ UNCHANGED <<task, now>>

\* xfrm_policy_delete after the write lock, km_policy_expired, and the
\* xfrm_pol_put that ends the handler.
TimerKill(p) ==
    /\ Running
    /\ tmr[p] = "kill"
    /\ k' = xfrm_pol_put(DeleteKill(k, p, xfrm_policy_id2dir(k.pol[p].index)), p)
    /\ tmr' = [tmr EXCEPT ![p] = "idle"]
    /\ out' = [op |-> "timer", hard |-> TRUE]
    /\ UNCHANGED <<task, now>>

\* A second passes.  A configuration call is over in less than a second
\* unless Stall says otherwise.
Tick ==
    /\ Running
    /\ now < MaxTime
    /\ Stall \/ ~CfgBusy
    /\ now' = now + 1
    /\ UNCHANGED <<k, task, tmr, out>>

-----------------------------------------------------------------------------
(* xfrm_lookup *)

\* What xfrm_tmpl_resolve may come back with, over all that xfrm_state_find
\* may answer.
Resolved(kk, pols) ==
    {xfrm_tmpl_resolve(Vecs(kk, pols), ans, 1, 0) : ans \in [1 .. NrOf(kk, pols) -> Answers]}

\* A state that nobody will put.
Leak(kk, held) == IF held > 0 THEN Oops(kk, "state_leak") ELSE kk

\* The two ways out of xfrm_lookup.  The route the caller came with is the
\* caller's; it is let go of unless the flow passes untouched.
Pass(t, kk) == Done(t, kk, [op |-> "lookup", err |-> "ok", dst_p |-> "orig", released |-> FALSE])
Fail(t, kk, pols, err) ==
    Done(t, xfrm_pols_put(kk, pols), [op |-> "lookup", err |-> err, dst_p |-> NULL,
                                      released |-> TRUE])

\* From restart to the policy of the flow.
LookupFrom(t, a) ==
    LET skpol == IF a.sk # NULL /\ k.sk[a.sk][1] # NULL
                 THEN xfrm_sk_policy_lookup(k, a.sk, XFRM_POLICY_OUT, a.fl) ELSE NULL
        policy == IF skpol # NULL THEN skpol
                  ELSE flow_cache_lookup(k, a.fl, a.family, XFRM_POLICY_OUT)
    IN  IF skpol = NULL /\ (a.noxfrm \/ xfrm_policy_lists_empty(k, XFRM_POLICY_OUT))
        THEN Pass(t, k)
        ELSE IF policy = NULL THEN Pass(t, k)
        ELSE Goes(t, [xfrm_pol_hold(k, policy) EXCEPT !.pol[policy].use_time = now],
                  [pc |-> "lk_resolve", a |-> a, genid |-> k.genid, pols |-> <<policy>>,
                   d |-> NULL, pol_dead |-> FALSE],
                  out)

LookupBegin(t) ==
    \E fl \in Flows, sk \in Socks \cup {NULL}, family \in Families, flags, noxfrm \in BOOLEAN :
        /\ task[t] = Idle
        /\ LookupFrom(t, [fl |-> fl, sk |-> sk, family |-> family, flags |-> flags,
                          noxfrm |-> noxfrm])

LookupRestart(t) ==
    /\ task[t].pc = "lk_restart"
    /\ LookupFrom(t, task[t].a)

\* What xfrm_lookup does with the states it has found: none is a flow that
\* passes, some are made into a bundle that is not on the policy yet.
Bundle(t, kk, pols, nx) ==
    \E f \in FaultChoice({"bundle"}) :
        LET free == Unused(Dsts, kk.dst)
            d == Min(free)
            r == xfrm_bundle_create(kk, task[t].a.fl, task[t].a.family, d,
                                    IF free = {} THEN {"bundle"} ELSE f)
        IN  IF nx = 0 THEN f = {} /\ Pass(t, xfrm_pols_put(kk, pols))
            ELSE IF r.err # "ok" THEN Fail(t, kk, pols, r.err)
            ELSE Goes(t, r.k, [task[t] EXCEPT !.pc = "lk_dead", !.pols = pols, !.d = d], out)

\* From the policy to its bundle: one that is there, or the states to make
\* one from.
LookupResolve(t) ==
    /\ task[t].pc = "lk_resolve"
    /\ LET a == task[t].a
           policy == task[t].pols[1]
           found == xfrm_find_bundle(k, a.fl, policy, a.family)
           main == IF SubPolicy /\ k.pol[policy].spec.type # "main"
                   THEN xfrm_policy_lookup_bytype(k, "main", a.fl, a.family, XFRM_POLICY_OUT)
                   ELSE NULL
           k1 == IF main = NULL THEN k ELSE xfrm_pol_hold(k, main)
           pols == IF main = NULL THEN <<policy>> ELSE <<policy, main>>
       IN  IF k.pol[policy].spec.action = "block" THEN Fail(t, k, <<policy>>, "EPERM")
           ELSE IF ~SubPolicy /\ k.pol[policy].spec.tmpls = <<>>
           THEN Pass(t, xfrm_pol_put(k, policy))
           ELSE IF found.err # "ok" THEN Fail(t, k, <<policy>>, found.err)
           ELSE IF found.dst # NULL
           THEN /\ k.dst[found.dst].refcnt < MaxDstRefs
                /\ Done(t, xfrm_pol_put(dst_hold(k, found.dst), policy),
                        [op |-> "lookup", err |-> "ok", dst_p |-> found.dst, released |-> TRUE])
           ELSE IF main # NULL /\ k.pol[main].spec.action = "block"
           THEN Fail(t, Oops(k1, "pol_leak"), <<policy>>, "EPERM")
           ELSE IF SubPolicy /\ NrOf(k1, pols) = 0 THEN Pass(t, xfrm_pols_put(k1, pols))
           ELSE \E r \in Resolved(k1, pols) :
                       IF r.nx >= 0 THEN Bundle(t, k1, pols, r.nx)
                       ELSE IF r.err = "EAGAIN" /\ a.flags
                       THEN Goes(t, Leak(k1, r.held),
                                 [task[t] EXCEPT !.pc = "lk_wait", !.pols = pols], out)
                       ELSE Fail(t, Leak(k1, r.held), pols, r.err)

\* The task is woken from km_waitq, by a key manager or by a signal.
LookupWake(t) ==
    /\ task[t].pc = "lk_wait"
    /\ \E r \in Resolved(k, task[t].pols), signal \in BOOLEAN :
           LET pols == task[t].pols
               again == r.nx < 0 /\ r.err = "EAGAIN"
           IN  IF again /\ signal THEN Fail(t, Leak(k, r.held), pols, "ERESTART")
               ELSE IF again \/ task[t].genid # k.genid
               THEN Goes(t, xfrm_pols_put(Leak(k, r.held), pols),
                         [pc |-> "lk_restart", a |-> task[t].a], out)
               ELSE IF r.nx < 0 THEN Fail(t, Leak(k, r.held), pols, r.err)
               ELSE ~signal /\ Bundle(t, k, pols, r.nx)

\* The dead flags are read, each under the lock of its policy.
LookupDead(t) ==
    /\ task[t].pc = "lk_dead"
    /\ Goes(t, k, [task[t] EXCEPT !.pc = "lk_enlist",
                                  !.pol_dead = \E i \in DOMAIN task[t].pols :
                                                   k.pol[task[t].pols[i]].dead],
            out)

\* The bundle goes on the policy, or the lookup fails.
LookupEnlist(t) ==
    /\ task[t].pc = "lk_enlist"
    /\ LET pols == task[t].pols
           d == task[t].d
           refused == task[t].pol_dead \/ stale_bundle(k, d)
           k1 == Enlist(k, pols[1], d, task[t].pol_dead)
       IN  IF refused THEN Fail(t, k1, pols, "EHOSTUNREACH")
           ELSE Done(t, xfrm_pols_put(k1, pols),
                     [op |-> "lookup", err |-> "ok", dst_p |-> d, released |-> TRUE])

-----------------------------------------------------------------------------
(* __xfrm_policy_check *)

\* xfrm_decode_session reads the flow off the packet if the family is
\* there and the security module agrees.
xfrm_decode_session(kk, family, f) ==
    IF xfrm_policy_get_afinfo(kk.afinfo, family) = NULL THEN "EAFNOSUPPORT"
    ELSE IF "decode" \in f THEN "EINVAL" ELSE "ok"

\* A packet with the path sp of states it came through is checked on its
\* way in, to a socket or to be forwarded.  Here to where the policies of
\* its flow are held; what is decided from there does not change while
\* they are.
CheckBegin(t) ==
    \E fl \in Flows, sp \in SecPaths, family \in Families, f \in FaultChoice({"decode"}),
       dir \in Dirs \cap {XFRM_POLICY_IN, XFRM_POLICY_FWD}, sk \in Socks \cup {NULL} :
        /\ task[t] = Idle
        /\ sk # NULL => dir = XFRM_POLICY_IN
        /\ LET skpol == IF sk # NULL /\ k.sk[sk][dir] # NULL
                        THEN xfrm_sk_policy_lookup(k, sk, dir, fl) ELSE NULL
               pol == IF skpol # NULL THEN skpol
                      ELSE flow_cache_lookup(k, fl, family, policy_to_flow_dir(dir))
               k1 == [xfrm_pol_hold(k, pol) EXCEPT !.pol[pol].use_time = now]
               main == IF SubPolicy /\ k.pol[pol].spec.type # "main"
                       THEN xfrm_policy_lookup_bytype(k1, "main", fl, family, XFRM_POLICY_IN)
                       ELSE NULL
               k2 == [xfrm_pol_hold(k1, main) EXCEPT !.pol[main].use_time = now]
               pols == IF main = NULL THEN <<pol>> ELSE <<pol, main>>
               said(v) == [op |-> "check", fl |-> fl, sp |-> sp, ok |-> v.ok, told |-> v.told,
                           vecs |-> [i \in DOMAIN v.pols |-> k.pol[v.pols[i]].spec.tmpls]]
               refused == [pols |-> <<>>, ok |-> FALSE, told |-> -1]
           IN  IF xfrm_decode_session(k, family, f) # "ok" THEN Done(t, k, said(refused))
               ELSE IF \E i \in DOMAIN sp : ~xfrm_selector_match(sp[i].sel, fl)
               THEN Done(t, k, said(refused))
               ELSE IF pol = NULL
               THEN Done(t, k, said([pols |-> <<>>] @@ Verdict(k, <<>>, sp)))
               ELSE Goes(t, IF main = NULL THEN k1 ELSE k2, [pc |-> "ck_put", pols |-> pols],
                         said([pols |-> pols] @@ Verdict(k, pols, sp)))

\* The policies are let go of and the verdict is returned.
CheckEnd(t) ==
    /\ task[t].pc = "ck_put"
    /\ Done(t, xfrm_pols_put(k, task[t].pols), out)

-----------------------------------------------------------------------------
(* Around the bundles *)

\* A route or a state under the bundle goes away: xfrm_bundle_ok says no
\* from now on.
BundleGoesStale(d) ==
    /\ Running
    /\ k.dst[d].st \in {"live", "obsolete"} /\ ~k.dst[d].stale
    /\ k' = [k EXCEPT !.dst[d].stale = TRUE]
    /\ UNCHANGED <<task, tmr, now, out>>

\* A user of a bundle lets go of it.
DstRelease(d) ==
    /\ Running
    /\ k.dst[d].refcnt > 0
    /\ k' = dst_release(k, d)
    /\ UNCHANGED <<task, tmr, now, out>>

\* What the user of a bundle is left with after dst_check: the bundle
\* while it is on its policy and good, else nothing.
xfrm_dst_check(kk, d) == IF kk.dst[d].st = "live" /\ ~stale_bundle(kk, d) THEN d ELSE NULL

\* A bundle is obsolete from the day it is made, -1 until dst_free: the
\* user who complains of it always loses it.
xfrm_negative_advice(kk, d) == [k |-> dst_release(kk, d), dst |-> NULL]

\* The operations of a bundle are there while its family is registered.
HasOps(d) == xfrm_policy_get_afinfo(k.afinfo, k.dst[d].family) # NULL

\* A socket or a route that kept the bundle uses it again: sk_dst_check and
\* its like drop a bundle that dst_check refuses.
DstCheck(d) ==
    /\ Running
    /\ k.dst[d].refcnt > 0 /\ HasOps(d)
    /\ xfrm_dst_check(k, d) = NULL
    /\ k' = dst_release(k, d)
    /\ UNCHANGED <<task, tmr, now, out>>

\* A transport that gets no answer through the bundle asks for another.
NegativeAdvice(d) ==
    /\ Running
    /\ k.dst[d].refcnt > 0 /\ HasOps(d)
    /\ k' = xfrm_negative_advice(k, d).k
    /\ UNCHANGED <<task, tmr, now, out>>

\* __xfrm_garbage_collect, called when routes are short of memory.
GarbageCollect ==
    /\ Running
    /\ k' = xfrm_prune_bundles(k, {d \in Dsts : unused_bundle(k, d)})
    /\ k' # k
    /\ UNCHANGED <<task, tmr, now, out>>

\* xfrm_flush_bundles, called when a state is deleted.
FlushBundles ==
    /\ Running
    /\ k' = xfrm_prune_bundles(k, {d \in Dsts : stale_bundle(k, d)})
    /\ k' # k
    /\ UNCHANGED <<task, tmr, now, out>>

\* xfrm_dev_event: when a device goes down the bundles that went stale
\* with it are flushed; no other event is of interest.
DevEvent ==
    \E event \in {"NETDEV_DOWN", "NETDEV_UP"} :
        /\ Running
        /\ k' = IF event = "NETDEV_DOWN" THEN xfrm_prune_bundles(k, {d \in Dsts : stale_bundle(k, d)}) ELSE k
        /\ out' = [op |-> "dev_event", ret |-> "NOTIFY_DONE"]
        /\ UNCHANGED <<task, tmr, now>>

\* The code of a family comes, and goes.
RegisterAfinfo(a) ==
    /\ Running
    /\ LET r == xfrm_policy_register_afinfo(k.afinfo, a)
       IN  /\ k' = [k EXCEPT !.afinfo = r.tab]
           /\ out' = [op |-> "register_afinfo", err |-> r.err]
    /\ UNCHANGED <<task, tmr, now>>

UnregisterAfinfo(a) ==
    /\ Running
    /\ LET r == xfrm_policy_unregister_afinfo(k.afinfo, a)
       IN  /\ k' = [k EXCEPT !.afinfo = r.tab]
           /\ out' = [op |-> "unregister_afinfo", err |-> r.err]
    /\ UNCHANGED <<task, tmr, now>>

-----------------------------------------------------------------------------

Halted == ~Running /\ UNCHANGED vars

Next ==
    \/ \E t \in CfgTasks :
           \/ AddPolicy(t) \/ InsertKill(t) \/ InsertEnd(t)
           \/ GetPolicy(t) \/ GetKill(t) \/ GetEnd(t)
           \/ Flush(t) \/ FlushKill(t) \/ Walk(t)
    \/ \E t \in PktTasks :
           \/ LookupBegin(t) \/ LookupRestart(t) \/ LookupResolve(t) \/ LookupWake(t)
           \/ LookupDead(t) \/ LookupEnlist(t)
           \/ SkInsert(t) \/ SkInsertEnd(t)
           \/ CheckBegin(t) \/ CheckEnd(t)
    \/ \E sk \in Socks : SkFree(sk) \/ \E parent \in Socks : SkCloneFrom(parent, sk)
    \/ \E p \in Pols : TimerFire(p) \/ TimerUnlink(p) \/ TimerKill(p)
    \/ \E d \in Dsts : BundleGoesStale(d) \/ DstRelease(d) \/ DstCheck(d) \/ NegativeAdvice(d)
    \/ \E a \in Loadable : RegisterAfinfo(a) \/ UnregisterAfinfo(a)
    \/ GcTask \/ GarbageCollect \/ FlushBundles \/ DevEvent \/ Tick
    \/ Halted

Spec == Init /\ [][Next]_vars

-----------------------------------------------------------------------------
(* What is checked *)

Labels == CfgLabels \cup LookupLabels \cup {"idle", "sk_kill", "ck_put"}
Rules == {"none", "destroy_alive", "destroy_bundles", "destroy_timer", "killed_twice", "uaf",
          "state_leak", "pol_leak"}
Ptr == Pols \cup {NULL}

\* The policies a task holds a reference to, one entry per reference.
HeldBy(T) ==
    CASE T.pc = "ins_kill" -> <<T.policy, T.delpol>>
      [] T.pc = "ins_sweep" -> <<T.policy>>
      [] T.pc = "del_kill" -> <<T.pol, T.pol>>
      [] T.pc = "got" -> <<T.pol>>
      [] T.pc = "flush_kill" -> <<T.xp>>
      [] T.pc \in {"lk_resolve", "lk_wait", "lk_dead", "lk_enlist", "ck_put"} -> T.pols
      [] T.pc = "sk_kill" -> <<T.pol>> \o (IF T.old_pol = NULL THEN <<>> ELSE <<T.old_pol>>)
      [] OTHER -> <<>>

TypeOK ==
    /\ \A p \in Pols :
           LET P == k.pol[p]
           IN  /\ P.st \in {"unused", "alloc", "freed"}
               /\ P.refcnt \in Nat /\ P.dead \in BOOLEAN /\ P.next \in Ptr
               /\ P.index \in 0 .. 2 ^ IdxBits + 7
               /\ P.add_time \in 0 .. MaxTime /\ P.use_time \in 0 .. MaxTime
               /\ P.bundles \in Seq(Dsts)
               /\ P.timer \in {NoTimer} \cup 0 .. MaxTime * HZ + MaxSchedTimeout
               /\ P.st = "alloc" => P.spec.type \in Types /\ P.spec.action \in {"allow", "block"}
               /\ P.st # "alloc" => P \in {Zeroed, Freed}
    /\ \A d \in Dsts : /\ k.dst[d].st \in {"unused", "live", "obsolete", "gone"}
                        /\ k.dst[d].refcnt \in 0 .. MaxDstRefs
                        /\ k.dst[d].fl \in Flows \cup {NoFlow}
                        /\ k.dst[d].stale \in BOOLEAN
                        /\ k.dst[d].family \in Families \cup {0}
    /\ k.list \in [Lists -> Ptr] /\ k.sk \in [Socks -> [0 .. 1 -> Ptr]]
    /\ k.gc_list \in Seq(Pols) /\ k.gc_todo \in Seq(Pols) /\ k.gc_work \in BOOLEAN
    /\ k.genid \in 0 .. 2 ^ GenBits - 1
    /\ k.idx_generator \in {8 * i : i \in 0 .. 2 ^ (IdxBits - 3) - 1}
    /\ k.afinfo \in [Families -> {NULL} \cup {a.id : a \in Afinfos}] /\ k.oops \in Rules
    /\ \A t \in Tasks : task[t].pc \in Labels /\ ToSet(HeldBy(task[t])) \subseteq Pols
    /\ \A t \in CfgTasks : task[t].pc \in CfgLabels \cup {"idle"}
    /\ tmr \in [Pols -> {"idle", "expired", "kill"}]
    /\ now \in 1 .. MaxTime

Listed(p) == \E l \in Lists : p \in ToSet(ListOf(k, l))
Collected(p) == p \in ToSet(k.gc_list) \cup ToSet(k.gc_todo)
Times(seq, x) == Cardinality({i \in DOMAIN seq : seq[i] = x})

\* The references to p that somebody will put: the one of the list or of
\* the gc list it is on, the one of its pending timer, those of its running
\* timer handler (its own, and the one of the list once it has unlinked
\* the policy), and those of the calls in progress.
Holders(p) ==
    (IF Listed(p) \/ Collected(p) THEN 1 ELSE 0)
    + (IF timer_pending(k, p) THEN 1 ELSE 0)
    + (CASE tmr[p] = "expired" -> 1 [] tmr[p] = "kill" -> 2 [] OTHER -> 0)
    + FoldFunction(+, 0, [t \in Tasks |-> Times(HeldBy(task[t]), p)])

\* The reference count of a policy is the number of its holders, and memory
\* that is not a policy has none: xfrm_pol_hold and xfrm_pol_put are paired
\* on every path of insertion, deletion, flush, timer, collection and
\* lookup, whatever runs in between.
RefsAreHolders ==
    Running => \A p \in Pols :
                   Holders(p) = IF k.pol[p].st = "alloc" THEN k.pol[p].refcnt ELSE 0

\* The checks the file makes of itself never fire: __xfrm_policy_destroy
\* finds the policy dead and its timer stopped, xfrm_policy_kill finds the
\* policy alive, and no step follows a pointer to a policy that was freed.
RulesKept == k.oops \notin {"destroy_alive", "destroy_timer", "killed_twice", "uaf"}

\* xfrm_lookup puts every policy it found: it does not when the sub policy
\* lets the packet pass and the main policy blocks it, where the main policy
\* is held and not yet counted in npols when the lookup fails (line 1021).
PoliciesPut == k.oops # "pol_leak"

\* xfrm_lookup puts every state xfrm_tmpl_resolve gave it: it does not when
\* it has slept for the key manager, resolves again, and finds that the
\* policies changed meanwhile (line 1064).
StatesPut == k.oops # "state_leak"

\* __xfrm_policy_destroy finds no bundle on the policy (its BUG_ON): it does
\* when xfrm_lookup saw the policy alive under the read lock, the policy was
\* killed and collected before the lookup took the write lock, and the
\* lookup put its bundle on the dead policy with what it saw (line 1096).
DeadHasNoBundles == k.oops # "destroy_bundles"

\* A list that packets are matched against is in the order xfrm_policy_insert
\* keeps: priorities do not decrease, no two policies have the same selector
\* and context, no two the same index, and the index names the direction
\* (xfrm_policy_byid and the timer find the list from the index).
ListsOrdered ==
    \A l \in Lists :
        LET L == ListOf(k, l)
        IN  l[2] < XFRM_POLICY_MAX =>
                \A i, j \in DOMAIN L :
                    /\ xfrm_policy_id2dir(k.pol[L[i]].index) = l[2]
                    /\ i < j => /\ Priority(k, L[i]) <= Priority(k, L[j])
                                /\ ~SamePolicy(k, L[i], L[j])
                                /\ k.pol[L[i]].index # k.pol[L[j]].index

\* A bundle is on the list of at most one policy, once, and is live while
\* it is there or while a lookup is about to put it there; a bundle that
\* was destroyed has no user.
BundlesAccounted ==
    LET all == FlattenSeq([p \in 1 .. Cardinality(Pols) |-> k.pol[p].bundles])
        made == {task[t].d : t \in {u \in PktTasks : task[u].pc \in {"lk_dead", "lk_enlist"}}}
    IN  /\ \A d \in Dsts : Times(all, d) + (IF d \in made THEN 1 ELSE 0) <= 1
        /\ \A d \in ToSet(all) \cup made : k.dst[d].st = "live"
        /\ \A d \in Dsts : k.dst[d].st \in {"unused", "gone"} => k.dst[d].refcnt = 0

\* A socket has its policies to itself: the policies on the list of socket
\* policies of a direction are those the sockets point at, each the policy
\* of one socket, and none of them is dead.  xfrm_sk_policy_insert swaps
\* pointer and list entry under one lock, __xfrm_sk_clone_policy gives the
\* copy of a socket copies of the policies, and xfrm_sk_free_policy takes
\* them off the list: otherwise the socket that goes first kills the policy
\* the other still matches packets against.
SocketsOwn ==
    \A dir \in 0 .. 1 :
        LET L == ListOf(k, SkList(dir))
            owners(p) == {s \in Socks : k.sk[s][dir] = p}
        IN  /\ \A s \in Socks : k.sk[s][dir] # NULL => k.sk[s][dir] \in ToSet(L)
            /\ \A i \in DOMAIN L : Cardinality(owners(L[i])) = 1 /\ ~k.pol[L[i]].dead

\* The states of a path that are not in transport mode.
Tunnels(sp) == {i \in DOMAIN sp : sp[i].mode # "transport"}

\* The path sp is one the templates ask for: each template that is not
\* optional has a state of its own in the path that fits it, an earlier
\* template in the list a later state, and no tunnel is in the path that no
\* template asks for.
Accepts(tmpls, sp) ==
    \E m \in [DOMAIN tmpls -> 0 .. Len(sp)] :
        /\ \A i \in DOMAIN tmpls : IF m[i] = 0 THEN tmpls[i].optional
                                    ELSE xfrm_state_ok(tmpls[i], sp[m[i]])
        /\ \A i, j \in DOMAIN tmpls : i < j /\ m[i] # 0 /\ m[j] # 0 => m[i] > m[j]
        /\ Tunnels(sp) \subseteq {m[i] : i \in DOMAIN tmpls}

\* __xfrm_policy_check lets a packet in only when the path it came through
\* is one the policies of its flow ask for, and a packet without policy only
\* when it came through no tunnel: the walk of xfrm_policy_ok over the
\* templates, from the last to the first and each from where the one before
\* stopped, accepts nothing that has no such assignment.
CheckSound ==
    [][(out'.op = "check" /\ out'.ok) =>
           IF out'.vecs = <<>> THEN Tunnels(out'.sp) = {}
           ELSE Accepts(FlattenSeq(out'.vecs), out'.sp)]_vars

=============================================================================
