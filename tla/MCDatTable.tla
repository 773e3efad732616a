----------------------------- MODULE MCDatTable -----------------------------
(* DatTable for TLC: two CPUs, two entries of memory, two addresses in    *)
(* different buckets, and two originators with the DHT addresses 0 and 3. *)
EXTENDS DatTable

CONSTANTS c1, c2, e1, e2, o1, o2

ipA == <<10, 0, 0, 1>>
ipB == <<10, 0, 0, 9>>

Arp(src, dst, op) ==
    [pull |-> TRUE, h_proto |-> "ARP", ether_ip |-> TRUE,
     ip_src |-> src, ip_dst |-> dst, ar_op |-> op]

MCSkbs ==
    {Arp(ipA, ipB, ARPOP_REQUEST),
     Arp(ipA, ipB, ARPOP_REPLY),
     Arp(ipA, ipB, 3),
     [Arp(ipA, ipB, ARPOP_REQUEST) EXCEPT !.pull = FALSE],
     [Arp(ipA, ipB, ARPOP_REQUEST) EXCEPT !.h_proto = "IP"],
     [Arp(ipA, ipB, ARPOP_REPLY) EXCEPT !.ether_ip = FALSE],
     Arp(<<127, 0, 0, 1>>, ipB, ARPOP_REQUEST),
     Arp(ipA, <<224, 0, 0, 1>>, ARPOP_REPLY)}

MCOrigOrder == <<o1, o2>>
MCOrigAddr == (o1 :> 0) @@ (o2 :> 3)

\* Time is told by differences only, and the last_update of an entry that
\* has left the table is not read again: states that differ in nothing
\* else are one state.
MCView ==
    <<hash, orig, cpu, oops,
      [work EXCEPT !.due = IF work.state = "queued" THEN (@ - jiffies) % JMod ELSE 0],
      [e \in Entries |->
         [mem[e] EXCEPT !.last_update = IF mem[e].listed THEN (jiffies - @) % JMod ELSE 0]]>>

MCSymmetry == Permutations(Entries)

=============================================================================
