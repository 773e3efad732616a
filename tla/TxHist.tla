------------------------------- MODULE TxHist -------------------------------
(***************************************************************************)
(* The sender packet history of net/dccp/ccids/lib/packet_history.c: a     *)
(* newest-first singly linked chain of {seqno, stamp} entries taken from a *)
(* slab cache, one chain per connection.                                   *)
(*                                                                         *)
(* The chain is modelled as the C code has it: entries live in a memory of *)
(* addresses Ptrs, each one free or holding seqno, stamp and next; the     *)
(* connection holds the head pointer.  t is the pair of both.  The C       *)
(* functions take `struct tfrc_tx_hist_entry **headp': the place of a       *)
(* pointer, which is the connection's head or the next field of an entry.  *)
(* A place is HEAD or the address of the entry whose next field is meant.  *)
(*                                                                         *)
(* The caller (the CCID, not part of src/) adds the sequence number of     *)
(* every packet it sends and asks for the RTT of every number the peer     *)
(* acknowledges; spec.md 4.4 and 5 say so, and the actions are written     *)
(* from there.                                                             *)
(***************************************************************************)
EXTENDS SeqArith, Sequences, FiniteSets, Functions

CONSTANTS
    Ptrs,       \* addresses the slab cache can hand out
    NULL,       \* the null pointer
    FREE,       \* content of an address that is not allocated
    HEAD,       \* the place of the connection's head pointer
    ISS,        \* initial sequence number sent
    MaxSent,    \* the connection sends at most this many packets
    MaxTime     \* the clock stops advancing here

ASSUME /\ IsFiniteSet(Ptrs) /\ Ptrs # {}
       /\ {NULL, FREE, HEAD} \cap Ptrs = {}
       /\ MaxTime \in Nat
       /\ ISS \in SeqNo
       /\ MaxSent \in 1 .. SeqMod - 1

VARIABLES
    t,      \* [head, mem]: the chain of one connection and the slab memory
    gss,    \* greatest sequence number sent
    now,    \* ktime_get_real()
    ret     \* what the last call returned

vars == <<t, gss, now, ret>>

TxEntry == [seqno : SeqNo, stamp : 0 .. MaxTime, next : Ptrs \cup {NULL}]

-----------------------------------------------------------------------------
(* Pointers *)

\* *headp
Deref(s, headp) == IF headp = HEAD THEN s.head ELSE s.mem[headp].next

\* *headp = p
Assign(s, headp, p) ==
    IF headp = HEAD THEN [s EXCEPT !.head = p]
                    ELSE [s EXCEPT !.mem[headp].next = p]

\* the addresses that following next from p visits, in that order
RECURSIVE Chain(_, _)
Chain(mem, p) ==
    IF p = NULL \/ mem[p] = FREE THEN <<>>
    ELSE <<p>> \o Chain(mem, mem[p].next)

-----------------------------------------------------------------------------
(* packet_history.c *)

RECURSIVE tfrc_tx_hist_find_entry(_, _, _)
tfrc_tx_hist_find_entry(mem, head, seqno) ==
    IF head # NULL /\ mem[head].seqno # seqno
    THEN tfrc_tx_hist_find_entry(mem, mem[head].next, seqno)
    ELSE head

\* kmem_cache_alloc has returned entry: it becomes the head of the chain
tfrc_tx_hist_add(s, entry, seqno, stamp) ==
    [head |-> entry,
     mem  |-> [s.mem EXCEPT ![entry] =
                  [seqno |-> seqno, stamp |-> stamp, next |-> s.head]]]

\* Mutant: the pointer is cleared and the entries are not freed.
tfrc_tx_hist_purge_leak(s, headp) == Assign(s, headp, NULL)

\* every entry from *headp on is freed, and *headp = NULL
tfrc_tx_hist_purge(s, headp) ==
    LET doomed == Range(Chain(s.mem, Deref(s, headp)))
        freed  == [s EXCEPT !.mem = [p \in Ptrs |->
                                       IF p \in doomed THEN FREE ELSE s.mem[p]]]
    IN  Assign(freed, headp, NULL)

\* Mutant: the matched entry is purged with the older ones.
tfrc_tx_hist_rtt_all(s, seqno, time) ==
    LET packet == tfrc_tx_hist_find_entry(s.mem, s.head, seqno)
    IN  IF packet = NULL
        THEN [s |-> s, rtt |-> 0]
        ELSE [s   |-> tfrc_tx_hist_purge(s, HEAD),
              rtt |-> U32(time - s.mem[packet].stamp)]

\* Mutant: the s64 difference is returned without the truncation to u32.
tfrc_tx_hist_rtt_s64(s, seqno, time) ==
    LET packet == tfrc_tx_hist_find_entry(s.mem, s.head, seqno)
    IN  IF packet = NULL
        THEN [s |-> s, rtt |-> 0]
        ELSE [s   |-> tfrc_tx_hist_purge(s, packet),
              rtt |-> time - s.mem[packet].stamp]

\* Returns the chain and the RTT (u32, 0 when seqno is not in the chain);
\* the entries older than the match are garbage-collected.
tfrc_tx_hist_rtt(s, seqno, time) ==
    LET packet == tfrc_tx_hist_find_entry(s.mem, s.head, seqno)
    IN  IF packet = NULL
        THEN [s |-> s, rtt |-> 0]
        ELSE [s   |-> tfrc_tx_hist_purge(s, packet),
              rtt |-> U32(time - s.mem[packet].stamp)]

-----------------------------------------------------------------------------
(* The state machine *)

Silent == [call |-> "none", seqno |-> NULL, rc |-> 0, rtt |-> 0]

Init ==
    /\ t = [head |-> NULL, mem |-> [p \in Ptrs |-> FREE]]
    /\ gss = ISS
    /\ now = 0
    /\ ret = Silent

\* the connection has packets left to send
MaySend == dccp_delta_seqno(ISS, gss) < MaxSent

\* a packet is sent: the next sequence number enters the history
Add ==
    /\ MaySend
    /\ \E entry \in Ptrs :
        /\ t.mem[entry] = FREE
        /\ t' = tfrc_tx_hist_add(t, entry, dccp_inc_seqno(gss), now)
    /\ gss' = dccp_inc_seqno(gss)
    /\ ret' = [Silent EXCEPT !.call = "add", !.seqno = gss']
    /\ UNCHANGED now

\* a packet is sent and kmem_cache_alloc returns NULL: -ENOBUFS
AddFail ==
    /\ MaySend
    /\ gss' = dccp_inc_seqno(gss)
    /\ ret' = [Silent EXCEPT !.call = "add", !.seqno = gss', !.rc = "ENOBUFS"]
    /\ UNCHANGED <<t, now>>

\* feedback arrives that acknowledges seqno
Rtt ==
    \E seqno \in SeqNo :
        LET r == tfrc_tx_hist_rtt(t, seqno, now)
        IN  /\ t' = r.s
            /\ ret' = [Silent EXCEPT !.call = "rtt", !.seqno = seqno,
                                     !.rtt = r.rtt]
            /\ UNCHANGED <<gss, now>>

\* connection teardown
Purge ==
    /\ t' = tfrc_tx_hist_purge(t, HEAD)
    /\ ret' = [Silent EXCEPT !.call = "purge"]
    /\ UNCHANGED <<gss, now>>

Tick ==
    /\ now < MaxTime
    /\ now' = now + 1
    /\ UNCHANGED <<t, gss, ret>>

Next == Add \/ AddFail \/ Rtt \/ Purge \/ Tick

Spec == Init /\ [][Next]_vars

-----------------------------------------------------------------------------
(* Properties *)

Allocated(mem) == {p \in Ptrs : mem[p] # FREE}

\* The variables have their types; in particular every next field of an
\* allocated entry is an address or NULL.
TypeOK ==
    /\ t.head \in Ptrs \cup {NULL}
    /\ t.mem \in [Ptrs -> TxEntry \cup {FREE}]
    /\ gss \in SeqNo
    /\ now \in 0 .. MaxTime
    /\ ret.call \in {"none", "add", "rtt", "purge"}
    /\ ret.rtt \in 0 .. IntMod - 1

\* The chain owns the slab memory: the head and every next field point to
\* an allocated entry (nothing is used after kmem_cache_free), no entry is
\* on the chain twice, and every allocated entry is on the chain (nothing
\* leaks), after any mix of tfrc_tx_hist_add, the garbage collection inside
\* tfrc_tx_hist_rtt, and tfrc_tx_hist_purge.
ChainOwnsMemory ==
    LET chain == Chain(t.mem, t.head)
    IN  /\ t.head # NULL => t.mem[t.head] # FREE
        /\ \A p \in Allocated(t.mem) :
              t.mem[p].next # NULL => t.mem[t.mem[p].next] # FREE
        /\ IsInjective(chain)
        /\ Range(chain) = Allocated(t.mem)

\* tfrc_tx_hist_rtt finds the packet the peer acknowledges as long as that
\* packet is not older than one acknowledged before: a call for a number
\* that is on the chain answers with the age of its entry and leaves that
\* entry as the last of the chain.
AckedStaysOldest ==
    [][ret'.call = "rtt" /\ now' = now /\ ret'.seqno \in {t.mem[p].seqno : p \in Allocated(t.mem)}
          => /\ t'.head # NULL
             /\ LET chain == Chain(t'.mem, t'.head)
                    last  == chain[Len(chain)]
                IN  /\ t'.mem[last].seqno = ret'.seqno
                    /\ ret'.rtt = U32(now - t'.mem[last].stamp)]_vars

=============================================================================
