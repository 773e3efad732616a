---------------------------- MODULE MCRdsIbSend ----------------------------
(* RdsIbSend with a ring of three entries, two receive buffers at each    *)
(* end and messages of every shape the send path tells apart.             *)
EXTENDS RdsIbSend

Data(n) == [NoKind EXCEPT !.data = TRUE, !.frags = n]

\* Two fragments, and an RDMA operation of two work requests with an
\* atomic operation and one fragment.
MCKinds ==
    {Data(2), [Data(1) EXCEPT !.rdma = 2, !.notify = TRUE, !.atomic = TRUE]}

\* An atomic operation alone, without data and without an RDMA operation.
MCKindsAtomic == {[NoKind EXCEPT !.atomic = TRUE], Data(1)}

=============================================================================
