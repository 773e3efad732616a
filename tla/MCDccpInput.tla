---------------------------- MODULE MCDccpInput ----------------------------
(* DccpInput over a 5-bit sequence space in a 7-bit register. *)
EXTENDS DccpInput

=============================================================================
