--------------------------- MODULE MCDccpOptions ---------------------------
(* DccpOptions with room for 16 bytes of options, so that an ack vector   *)
(* fills the area, and the option areas a third party builds from whole   *)
(* and cut options.                                                       *)
EXTENDS DccpOptions

\* Whole options, and options whose length disagrees with their kind.
Chunks ==
    {<<1>>, <<37, 3, 9>>, <<37, 6, 1, 2, 3, 4>>, <<41, 6, 0, 0, 0, 5>>,
     <<41, 3, 5>>, <<42, 6, 0, 0, 0, 5>>, <<42, 8, 0, 0, 0, 5, 0, 3>>,
     <<43, 4, 0, 7>>, <<43, 3, 7>>, <<32, 4, 1, 2>>, <<33, 3, 1>>,
     <<38, 3, 0>>, <<50, 2>>}

\* What follows a chunk: padding, a Mandatory or an NDP count.
Tails == {<<0>>, <<1>>, <<37, 3, 9>>}

\* A chunk and a tail, cut or padded to a multiple of 4 bytes.
MCForged ==
    {SubSeq(a \o b \o <<0, 0, 0, 0, 0, 0>>, 1, len) :
        a \in Chunks, b \in Tails, len \in {4, 8}}

MCTypesOf == [a |-> {"REQUEST", "DATA", "DATAACK"}, b |-> {"ACK"}]

MCFeatVals == {<<2>>}

=============================================================================
