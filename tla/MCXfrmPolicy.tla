---------------------------- MODULE MCXfrmPolicy ----------------------------
(***************************************************************************)
(* XfrmPolicy for TLC: policies of which two share a selector, one flow,   *)
(* one bundle, a task that configures and a task that handles packets.     *)
(* MCXfrmPolicy.cfg is the database with its timers, a family that comes   *)
(* and goes and the check of packets that came in; MCXfrmLookup.cfg is the *)
(* lookup for packets that go out, with sub policies and socket policies.  *)
(***************************************************************************)
EXTENDS XfrmPolicy

AF_INET == 2

\* The object of xfrm4_policy.c.
xfrm4_policy_afinfo == [id |-> 1, family |-> AF_INET]
MCAfinfos == {xfrm4_policy_afinfo}
MCLoadable == {xfrm4_policy_afinfo}
MCBuiltIn == {}

NoLimit == [hard_add |-> 0, hard_use |-> 0, soft_add |-> 0, soft_use |-> 0]
Esp == [optional |-> FALSE, mode |-> "transport", proto |-> "esp", addr |-> 0]
Comp == [optional |-> TRUE, mode |-> "transport", proto |-> "comp", addr |-> 0]
Tun == [optional |-> TRUE, mode |-> "tunnel", proto |-> "esp", addr |-> 1]

\* The states a packet may have come through.
InEsp == [mode |-> "transport", proto |-> "esp", kern |-> FALSE, addr |-> 0,
          sel |-> {"a", "b"}, reject |-> FALSE]
InTun == [mode |-> "tunnel", proto |-> "esp", kern |-> FALSE, addr |-> 1,
          sel |-> {"a", "b"}, reject |-> TRUE]
InFar == [InTun EXCEPT !.addr = 2]
InOther == [InEsp EXCEPT !.sel = {"b"}]
MCSecPaths == {<<>>, <<InEsp>>, <<InOther>>, <<InEsp, InEsp>>, <<InTun, InEsp>>,
               <<InEsp, InTun>>, <<InEsp, InFar>>}

\* An ESP policy for flow a that lives for two seconds, the policy that
\* replaces it at a lower priority, and a policy that blocks both flows.
MCSpecs ==
    {[type |-> "main", family |-> AF_INET, sel |-> {"a"}, ctx |-> 0, priority |-> 1,
      action |-> "allow", tmpls |-> <<Comp, Esp>>,
      lft |-> [NoLimit EXCEPT !.hard_add = 1]],
     [type |-> "main", family |-> AF_INET, sel |-> {"a"}, ctx |-> 0, priority |-> 2,
      action |-> "allow", tmpls |-> <<Esp>>, lft |-> NoLimit],
     [type |-> "main", family |-> AF_INET, sel |-> {"a", "b"}, ctx |-> 0, priority |-> 2,
      action |-> "block", tmpls |-> <<>>, lft |-> NoLimit]}

MCSkSpecs1 == {s \in MCSpecs : s.priority = 2 /\ s.action = "allow"}
MCNone == {}

\* The same with the first policy as a sub policy.
MCSubSpecs == {IF s.priority = 1 THEN [s EXCEPT !.type = "sub"] ELSE s : s \in MCSpecs}

\* What is asked of packets that come in: a tunnel around ESP for a second,
\* then ESP twice.
MCInSpecs ==
    {IF s.action = "block" THEN s
     ELSE [s EXCEPT !.tmpls = IF s.priority = 1 THEN <<Tun, Esp>> ELSE <<Esp, Esp>>] : s \in MCSpecs}

\* What a socket asks of the packets that come in for it.
MCFlows1 == {[id |-> "a", secid |-> 0]}

\* The times of a policy without a limit are written and never read: two
\* states that differ in them only are one.
Unread(P) ==
    LET lft == P.spec.lft
    IN  IF P.st # "alloc" THEN P
        ELSE [P EXCEPT !.use_time = IF lft.hard_use = 0 /\ lft.soft_use = 0 THEN 0 ELSE @,
                       !.add_time = IF lft.hard_add = 0 /\ lft.soft_add = 0 THEN 0 ELSE @]

\* The state of the kernel for an instance with lookups; what the caller of
\* a step sees (out) is read by the properties of steps only.
LookupView == <<k = k, [k EXCEPT !.pol = [p \in Pols |-> Unread(k.pol[p])]], task, tmr, now>>

\* The same for an instance without outbound policies: the generation of
\* the database is read by a lookup that waited and by nothing else.
DbView ==
    <<k = k, [k EXCEPT !.pol = [p \in Pols |-> Unread(k.pol[p])], !.genid = 0], task, tmr, now>>
=============================================================================
