------------------------------ MODULE MCSchApi ------------------------------
(***************************************************************************)
(* SchApi for TLC: handles of two bits a half (majors 1, 2 and ffff), three*)
(* qdiscs, a classful kind and a rated one.                                *)
(***************************************************************************)
EXTENDS SchApi

MCQids == 1 .. 3
MCKinds == {"htb", "tbf"}
MCBuiltin == {"htb"}
MCClassful == {"htb"}
MCRated == {"tbf"}
MCMinors == {1}
MCTasks == {"t1"}
MCFaults == {"alloc", "init", "est", "dflt", "class", "busy"}

H(maj, min) == maj * M + min

NoOpt == [given |-> FALSE, rate |-> 0, tab |-> FALSE]
Rate1 == [given |-> TRUE, rate |-> 1, tab |-> TRUE]

Req(type, flags, parent, handle, kind, opt, est) ==
    [type |-> type, flags |-> flags, parent |-> parent, handle |-> handle,
     kind |-> kind, opt |-> opt, est |-> est]

\* The classful kind in every place and with every meaning of the flags.
Htb ==
    [type : {"NEWQDISC"},
     flags : {{}, {"CREATE"}, {"CREATE", "REPLACE"}, {"CREATE", "EXCL"}},
     parent : {0, TC_H_ROOT, H(1, 1), H(2, 1)},
     handle : {0, H(1, 0), H(2, 0)},
     kind : {"htb"}, opt : {NoOpt}, est : {FALSE}]

\* The rated kind: created at the root and below a class, with a handle of
\* the kernel's and one of its own, changed, and created without its table.
Tbf ==
    [type : {"NEWQDISC"}, flags : {{"CREATE"}, {"CREATE", "REPLACE"}},
     parent : {TC_H_ROOT, H(1, 1)}, handle : {0, H(2, 0)},
     kind : {"tbf"}, opt : {Rate1}, est : {FALSE}]
    \cup
    {Req("NEWQDISC", {}, 0, H(2, 0), "tbf", Rate1, FALSE),
     Req("NEWQDISC", {"CREATE"}, TC_H_ROOT, 0, "tbf", NoOpt, FALSE),
     Req("NEWQDISC", {"CREATE"}, H(1, 1), 0, "tbf", Rate1, TRUE)}

\* The ingress qdisc is added and deleted, never replaced or shared.
IngressAdd == {Req("NEWQDISC", {"CREATE"}, TC_H_INGRESS, 0, "htb", NoOpt, FALSE)}

IngressReplace ==
    {Req("NEWQDISC", {"CREATE", "REPLACE", "EXCL"}, TC_H_INGRESS, 0, "htb", NoOpt,
         FALSE)}

GetDel ==
    [type : {"GETQDISC", "DELQDISC"}, flags : {{}},
     parent : {0, TC_H_ROOT, TC_H_INGRESS, H(1, 1), H(2, 1)},
     handle : {0, H(1, 0)}, kind : {NoKind}, opt : {NoOpt}, est : {FALSE}]

Class ==
    [type : {"NEWTCLASS"}, flags : {{}, {"CREATE"}, {"CREATE", "EXCL"}},
     parent : {0, TC_H_ROOT}, handle : {H(1, 1), H(2, 1), 1},
     kind : {NoKind}, opt : {NoOpt}, est : {FALSE}]
    \cup
    [type : {"DELTCLASS", "GETTCLASS"}, flags : {{}},
     parent : {0, H(2, 0)}, handle : {H(1, 1), H(2, 1), 1, 0},
     kind : {NoKind}, opt : {NoOpt}, est : {FALSE}]

MCRequests == Htb \cup Tbf \cup IngressAdd \cup GetDel \cup Class

MCRequestsIngress == MCRequests \cup IngressReplace

\* The outcome of a call is written and never read.
KernelView == <<dev, qd, qdisc_base, modref, autohandle, qdisc_rtab_list, task>>
=============================================================================
