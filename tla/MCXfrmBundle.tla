---------------------------- MODULE MCXfrmBundle ----------------------------
(***************************************************************************)
(* XfrmBundle for TLC: IPv4 with ESP and the tunnel mode as modules and    *)
(* the transport mode built in, two states, two routes, one packet.        *)
(***************************************************************************)
EXTENDS XfrmBundle

AF_INET == 2
AF_INET6 == 10

\* The modules, by number.
esp4 == 1
esp6 == 2
xfrm4_tunnel == 3
xfrm4_new == 4
MCModules == {esp4, esp6, xfrm4_tunnel, xfrm4_new}

MCAfinfos == {[id |-> 1, family |-> AF_INET, dst_lookup |-> TRUE]}

\* esp6 is loaded although IPv6 is not there.
MCTypes == {[id |-> 1, proto |-> "esp", family |-> AF_INET, owner |-> esp4],
            [id |-> 2, proto |-> "esp", family |-> AF_INET6, owner |-> esp6]}

\* The last is a mode this kernel has no number for.
MCModes == {[id |-> 1, encap |-> XFRM_MODE_TRANSPORT, family |-> AF_INET, owner |-> NULL],
            [id |-> 2, encap |-> XFRM_MODE_TUNNEL, family |-> AF_INET, owner |-> xfrm4_tunnel],
            [id |-> 3, encap |-> XFRM_MODE_MAX, family |-> AF_INET, owner |-> xfrm4_new]}

\* State 1 is ESP in transport mode with a limit of one packet, state 2 ESP
\* in tunnel mode with none, state 3 ESP of IPv6.
Transport == [proto |-> "esp", encap |-> XFRM_MODE_TRANSPORT, family |-> AF_INET,
              sel |-> {"a"}, ctx |-> 0, addr |-> 1, header_len |-> 1, limit |-> 1]
Tunnel == [Transport EXCEPT !.encap = XFRM_MODE_TUNNEL, !.sel = {"a", "b"}, !.limit = XFRM_INF]
MCKinds == <<Transport, Tunnel, [Transport EXCEPT !.family = AF_INET6]>>

MCFlows == {[id |-> "a", secid |-> 0, addr |-> 1], [id |-> "b", secid |-> 0, addr |-> 2]}

\* What an operation returned is read by the properties of steps only, and
\* the generation of a state only through the bundle that remembers it: a
\* state counts as one with its generation turned back by the generation
\* its entry of the bundle has.
KernelView ==
    LET entry(s) == CHOOSE i \in DOMAIN k.xd : k.xd[i].xfrm = s
        ahead(s) == IF InChain(k, s) THEN (k.x[s].genid - k.xd[entry(s)].genid) % 2 ^ GenBits ELSE 0
    IN  <<k = k,
          [k EXCEPT !.x = [s \in States |-> [@[s] EXCEPT !.genid = ahead(s)]],
                    !.xd = [i \in DOMAIN @ |-> [@[i] EXCEPT !.genid = 0]]],
          task>>
=============================================================================
