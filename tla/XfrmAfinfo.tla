----------------------------- MODULE XfrmAfinfo -----------------------------
(***************************************************************************)
(* The table xfrm_policy_afinfo of net/xfrm/xfrm_policy.c: one entry per   *)
(* address family, set when the code of the family registers and cleared   *)
(* when it leaves.  Every call is made under xfrm_policy_afinfo_lock, so   *)
(* each is one step; the operators here are those steps on the table tab,  *)
(* for the modules that have the table in their state.                     *)
(***************************************************************************)
EXTENDS Integers

CONSTANTS
    Families,           \* the address families below NPROTO
    Afinfos             \* the xfrm_policy_afinfo objects: [id, family]

NULL == 0

ASSUME \A a \in Afinfos : a.id \in Nat \ {NULL}

\* The table before any family has registered.
NoAfinfo == [f \in Families |-> NULL]

\* With the entry go the operations of the family's bundles: check,
\* negative_advice, link_failure and garbage_collect are set where the
\* family left them open.
xfrm_policy_register_afinfo(tab, a) ==
    IF a.family \notin Families THEN [tab |-> tab, err |-> "EAFNOSUPPORT"]
    ELSE IF tab[a.family] # NULL THEN [tab |-> tab, err |-> "ENOBUFS"]
    ELSE [tab |-> [tab EXCEPT ![a.family] = a.id], err |-> "ok"]

\* Only the object that is registered takes itself out; the operations of
\* the bundles are cleared with it.
xfrm_policy_unregister_afinfo(tab, a) ==
    IF a.family \notin Families THEN [tab |-> tab, err |-> "EAFNOSUPPORT"]
    ELSE IF tab[a.family] = NULL THEN [tab |-> tab, err |-> "ok"]
    ELSE IF tab[a.family] # a.id THEN [tab |-> tab, err |-> "EINVAL"]
    ELSE [tab |-> [tab EXCEPT ![a.family] = NULL], err |-> "ok"]

\* The entry of the family under the read lock, NULL for none.
xfrm_policy_get_afinfo(tab, family) ==
    IF family \notin Families THEN NULL ELSE tab[family]

\* The entry of the family under the write lock.
xfrm_policy_lock_afinfo(tab, family) ==
    IF family \notin Families THEN NULL ELSE tab[family]

=============================================================================
