--------------------------- MODULE MCRfkillInput ---------------------------
(* RfkillInput for one radio type with a key, two CPUs, one input device  *)
(* and a jiffies counter of 3 bits.                                       *)
EXTENDS RfkillInput

MCSetOrder == <<"wlan">>

=============================================================================
