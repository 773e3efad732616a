------------------------------ MODULE MCCfCnfg ------------------------------
(* CfCnfg for two clients, one physical interface and link ids of 2 bits.  *)
(* The clients ask for a VEI channel or for a utility channel of channel   *)
(* type 1, the one the loopback answers short.                             *)
EXTENDS CfCnfg

MCParams ==
    {[NoParam EXCEPT !.linktype = "VEI", !.priority = 1],
     [NoParam EXCEPT !.linktype = "UTIL", !.chtype = 1, !.u = 7]}

=============================================================================
