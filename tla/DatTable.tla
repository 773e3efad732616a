------------------------------ MODULE DatTable ------------------------------
(***************************************************************************)
(* The distributed ARP table of B.A.T.M.A.N. advanced:                     *)
(* net/batman-adv/distributed-arp-table.c.  A node keeps the IPv4 to MAC   *)
(* bindings it has seen in ARP messages in a local hash table and stores   *)
(* them in a DHT: the key of an address is its hash, and the originators   *)
(* whose DHT addresses follow the key on a ring are the candidates that    *)
(* get the binding (DHT_PUT) and are asked for it (DHT_GET).               *)
(*                                                                         *)
(* The snooping functions run in softirq context on any CPU, the purge of  *)
(* old entries in a worker thread.  Entries are found under RCU, live by   *)
(* a reference count and are freed after a grace period.                   *)
(*                                                                         *)
(* hash.h, main.h, types.h, originator.c and the workqueue are outside     *)
(* src/: batadv_hash_add, batadv_has_timed_out, the originator table and   *)
(* RCU are modelled by their contract.  The MAC address of an entry is     *)
(* payload and is left out.                                                *)
(***************************************************************************)
EXTENDS Integers, Sequences, FiniteSets, SequencesExt, Bitwise

CONSTANTS
    Skbs,        \* the packets that reach the snooping functions
    Entries,     \* memory for struct batadv_dat_entry
    Cpus,        \* the CPUs that run the snooping functions
    Outgoing,    \* those of them the transmit path runs on
    Origs,       \* memory for the originators of the mesh
    OrigOrder,   \* the order in which a walk of orig_hash meets them
    OrigAddr,    \* dat_addr of an originator, the hash of its address
    HashSize,    \* buckets of dat.hash (1024 in batadv_dat_init)
    AddrBits,    \* width of batadv_dat_addr_t (16)
    Candidates,  \* BATADV_DAT_CANDIDATES_NUM (3)
    LawNodes,    \* length of the tables SelectionLaw enumerates
    JBits,       \* width of jiffies
    INITIAL_JIFFIES,  \* jiffies at boot, shortly before the wrap
    Timeout,     \* BATADV_DAT_ENTRY_TIMEOUT (5 min) in ticks
    Period,      \* the delay of the purge work (10 s) in ticks
    NULL

JMod == 2 ^ JBits
BATADV_DAT_ADDR_MAX == 2 ^ AddrBits - 1

ASSUME /\ Outgoing \subseteq Cpus
       /\ OrigOrder \in Seq(Origs) /\ IsInjective(OrigOrder)
       /\ Range(OrigOrder) = Origs
       /\ OrigAddr \in [Origs -> 0 .. BATADV_DAT_ADDR_MAX - 1]
       /\ HashSize \in 1 .. 1024 /\ AddrBits \in 1 .. 16
       /\ Candidates \in Nat \ {0} /\ LawNodes \in Nat
       /\ Timeout \in Nat \ {0} /\ Period \in Nat \ {0}
       /\ Timeout + Period < JMod \div 2
       /\ INITIAL_JIFFIES \in 0 .. JMod - 1

VARIABLES
    hash,     \* bat_priv->dat.hash is not NULL
    mem,      \* mem[e]: the entry at e, or what is left of it
    work,     \* bat_priv->dat.work and the walk of the worker
    jiffies,
    orig,     \* orig[o]: whether o is in orig_hash, and its refcount
    cpu,      \* cpu[c]: the snooping function c runs and where it is
    oops      \* a NULL pointer has been read

vars == <<hash, mem, work, jiffies, orig, cpu, oops>>

-----------------------------------------------------------------------------
(* uint32_t as two 16-bit halves: TLC's integers have 32 bits with a sign. *)

Half == 65536
Word(n) == [hi |-> 0, lo |-> n]
Add32(a, b) == [lo |-> (a.lo + b.lo) % Half,
                hi |-> (a.hi + b.hi + ((a.lo + b.lo) \div Half)) % Half]
Shl32(a, k) == [lo |-> (a.lo * 2 ^ k) % Half,
                hi |-> (((a.hi * 2 ^ k) % Half) + ((a.lo * 2 ^ k) \div Half)) % Half]
Shr32(a, k) == [lo |-> (a.lo \div 2 ^ k) + (a.hi % 2 ^ k) * 2 ^ (16 - k),
                hi |-> a.hi \div 2 ^ k]
Xor32(a, b) == [lo |-> a.lo ^^ b.lo, hi |-> a.hi ^^ b.hi]
Mod32(a, n) == (((a.hi % n) * (Half % n)) + a.lo) % n

\* One round of the loop of batadv_hash_dat over the bytes of the key.
HashByte(h, byte) ==
    LET a == Add32(h, Word(byte))
        b == Add32(a, Shl32(a, 10))
    IN  Xor32(b, Shr32(b, 6))

\* data is the key as its four bytes in network order.
batadv_hash_dat(data, size) ==
    LET h == FoldLeft(HashByte, Word(0), data)
        a == Add32(h, Shl32(h, 3))
        b == Xor32(a, Shr32(a, 11))
    IN  Mod32(Add32(b, Shl32(b, 15)), size)

\* the addresses of the ARP payload behind the header of size hdr_size
batadv_arp_ip_src(skb) == skb.ip_src
batadv_arp_ip_dst(skb) == skb.ip_dst

ipv4_is_loopback(ip) == ip[1] = 127
ipv4_is_multicast(ip) == ip[1] \in 224 .. 239

\* An skb is what the checks of batadv_arp_get_type read of it: whether
\* the headers can be pulled, the protocol of the frame, whether the ARP
\* header is one of IPv4 over Ethernet, the two addresses and the opcode.
batadv_arp_get_type(skb) ==
    IF /\ skb.pull /\ skb.h_proto = "ARP" /\ skb.ether_ip
       /\ ~ipv4_is_loopback(batadv_arp_ip_src(skb))
       /\ ~ipv4_is_multicast(batadv_arp_ip_src(skb))
       /\ ~ipv4_is_loopback(batadv_arp_ip_dst(skb))
       /\ ~ipv4_is_multicast(batadv_arp_ip_dst(skb))
    THEN skb.ar_op ELSE 0

ARPOP_REQUEST == 1
ARPOP_REPLY == 2

Ips == {s.ip_src : s \in Skbs} \cup {s.ip_dst : s \in Skbs}

\* The bucket of an address in dat.hash and its key on the ring.
BucketOf == [ip \in Ips |-> batadv_hash_dat(ip, HashSize)]
KeyOf == [ip \in Ips |-> batadv_hash_dat(ip, BATADV_DAT_ADDR_MAX)]

-----------------------------------------------------------------------------
(* The choice of the candidates.  A table is the walk of orig_hash: a      *)
(* sequence of [node, dat_addr, refcount].                                 *)

DatAddrT(x) == x % 2 ^ AddrBits

NotFound == [type |-> "NOT_FOUND", orig_node |-> NULL]
Found(o) == [type |-> "ORIG", orig_node |-> o]

\* the originators res holds
Chosen(res) == {res[j].orig_node : j \in {i \in DOMAIN res : res[i].type = "ORIG"}}

\* main.h: the two addresses are the same
batadv_compare_eth(a, b) == a = b

\* "the dht space is a ring and addresses are unsigned"
TmpMax(dat_addr, ip_key) == DatAddrT(BATADV_DAT_ADDR_MAX - dat_addr + ip_key)

\* The comparison of the addresses reads max_orig_node->orig: with the
\* first three tests passed and tmp_max equal to max, also when no
\* originator has been chosen in this walk.
ReadsNull(skip, tmp_max, max, last_max, candidate, max_orig_node) ==
    /\ candidate \notin skip
    /\ ~(tmp_max > last_max) /\ ~(tmp_max < max)
    /\ tmp_max = max /\ max_orig_node = NULL

eligible_any(skip, tmp_max, max, last_max, candidate, max_orig_node) ==
    candidate \notin skip /\ ~(tmp_max > last_max)

\* skip is what the slots res[0 .. select - 1] hold.
batadv_is_orig_node_eligible(skip, tmp_max, max, last_max, candidate, max_orig_node) ==
    /\ candidate \notin skip
    /\ ~(tmp_max > last_max)
    /\ ~(tmp_max < max)
    /\ ~(tmp_max = max /\ batadv_compare_eth(candidate, max_orig_node))

\* One walk of the table: [max, max_orig_node, oops].  An originator that
\* is eligible and alive (atomic_inc_not_zero) replaces the one held.
batadv_choose_next_candidate(tab, skip, ip_key, last_max) ==
    LET Visit(acc, n) ==
            LET tmp_max == TmpMax(n.dat_addr, ip_key) IN
            IF acc.oops THEN acc
            ELSE IF ReadsNull(skip, tmp_max, acc.max, last_max, n.node,
                              acc.max_orig_node)
            THEN [acc EXCEPT !.oops = TRUE]
            ELSE IF /\ batadv_is_orig_node_eligible(skip, tmp_max, acc.max,
                             last_max, n.node, acc.max_orig_node)
                    /\ n.refcount # 0
            THEN [acc EXCEPT !.max = tmp_max, !.max_orig_node = n.node]
            ELSE acc
    IN  FoldLeft(Visit, [max |-> 0, max_orig_node |-> NULL, oops |-> FALSE], tab)

\* The slot a walk fills.
Slot(walk) ==
    IF walk.max_orig_node = NULL THEN NotFound ELSE Found(walk.max_orig_node)

\* All walks of one call on a table that does not change: [res, last_max,
\* oops].
batadv_dat_select_candidates(tab, ip_key) ==
    LET Round(acc, select) ==
            LET walk == batadv_choose_next_candidate(tab, Chosen(acc.res),
                                                     ip_key, acc.last_max)
            IN  IF acc.oops THEN acc
                ELSE IF walk.oops THEN [acc EXCEPT !.oops = TRUE]
                ELSE [acc EXCEPT !.res = Append(@, Slot(walk)),
                                 !.last_max = walk.max]
    IN  FoldLeft(Round, [res |-> <<>>, last_max |-> BATADV_DAT_ADDR_MAX,
                         oops |-> FALSE],
                 [i \in 1 .. Candidates |-> i])

-----------------------------------------------------------------------------
(* Time, memory and references.                                            *)

\* jiffies.h: a is after b, by the sign of the difference.
time_after(a, b) == (b - a) % JMod >= JMod \div 2

\* main.h: time_is_before_jiffies(timestamp + msecs_to_jiffies(timeout))
batadv_has_timed_out(timestamp, timeout) ==
    time_after(jiffies, (timestamp + timeout) % JMod)

batadv_dat_to_purge(dat_entry) ==
    batadv_has_timed_out(dat_entry.last_update, Timeout)

Off == [state |-> "off", due |-> 0, i |-> 0]

start_timer_never == Off

\* queue_delayed_work: the work runs when jiffies reaches due.
batadv_dat_start_timer == [state |-> "queued", due |-> (jiffies + Period) % JMod, i |-> 0]

Free == [state |-> "free", ip |-> NULL, last_update |-> 0, refcount |-> 0,
         listed |-> FALSE, wait |-> {}]

\* The CPUs inside the read-side critical section of
\* batadv_dat_entry_hash_find.
Readers == {c \in Cpus : cpu[c].pc = "ref"}

free_ref_kfree(m, e) ==
    IF m[e].refcount = 1 THEN [m EXCEPT ![e] = Free]
    ELSE [m EXCEPT ![e].refcount = @ - 1]

\* kfree_rcu frees the entry when every CPU that is in a read-side section
\* now has left it.
batadv_dat_entry_free_ref(m, e) ==
    IF m[e].refcount = 1
    THEN [m EXCEPT ![e].refcount = 0, ![e].state = "rcu", ![e].wait = Readers]
    ELSE [m EXCEPT ![e].refcount = @ - 1]

\* rcu_read_unlock of CPU c
rcu_read_unlock(m, c) ==
    LET Leave(acc, e) == [acc EXCEPT ![e].wait = @ \ {c}]
    IN  FoldLeft(Leave, m, SetToSeq(Entries))

\* the entries of the address that batadv_dat_entry_hash_find meets
Listed(ip) == {e \in Entries : mem[e].listed /\ mem[e].ip = ip}

\* memcmp of the two addresses
batadv_compare_dat(data1, data2) == data1 = data2

\* The walk of bucket i under its list_lock: every entry of the bucket that
\* to_purge condemns is taken off the list and loses the reference of the
\* table.  condemned is the set of entries to_purge says yes to.
__batadv_dat_purge(m, i, condemned) ==
    LET gone == {e \in condemned : m[e].listed /\ BucketOf[m[e].ip] = i}
        Del(acc, e) == batadv_dat_entry_free_ref([acc EXCEPT ![e].listed = FALSE], e)
    IN  FoldLeft(Del, m, SetToSeq(gone))

Old == {e \in Entries : mem[e].listed /\ batadv_dat_to_purge(mem[e])}

\* hash.h: the entry goes to the head of its bucket unless the comparison
\* finds its key there (1) or there is no table (-1).
batadv_hash_add(ip) ==
    IF ~hash THEN -1
    ELSE IF \E e \in Entries : mem[e].listed /\ batadv_compare_dat(mem[e].ip, ip)
    THEN 1 ELSE 0

-----------------------------------------------------------------------------
(* The snooping functions.  cpu[c].todo is what the function still has to  *)
(* do: entry_add ("add"), entry_hash_find ("find") and send_data ("send")  *)
(* of an address.                                                          *)

Idle == [fn |-> "idle", todo |-> <<>>, pc |-> "idle", cur |-> NULL,
         dat_entry |-> NULL, res |-> <<>>, last_max |-> 0, quiet |-> TRUE]

Op(op, ip) == [op |-> op, ip |-> ip]

Begin(c, fn, todo) ==
    cpu' = [cpu EXCEPT ![c] = [Idle EXCEPT !.fn = fn, !.todo = todo, !.pc = "op"]]

\* what is left after the first of todo is done
Rest(cp) ==
    IF Len(cp.todo) = 1 THEN Idle
    ELSE [Idle EXCEPT !.fn = cp.fn, !.todo = Tail(cp.todo), !.pc = "op"]

Does(c, ops) == cpu[c].pc = "op" /\ Head(cpu[c].todo).op \in ops

\* The kernel runs until it stops at the read through the null pointer.
Up == ~oops

Init ==
    /\ hash = FALSE /\ work = Off /\ jiffies = INITIAL_JIFFIES /\ oops = FALSE
    /\ mem \in [Entries -> {Free}]
    /\ orig \in [Origs -> {[listed |-> FALSE, refcount |-> 0]}]
    /\ cpu \in [Cpus -> {Idle}]

batadv_dat_snoop_outgoing_arp_request(c, skb) ==
    /\ Up
    /\ cpu[c] = Idle
    /\ IF batadv_arp_get_type(skb) = ARPOP_REQUEST
       THEN Begin(c, "out_req", <<Op("add", batadv_arp_ip_src(skb)), Op("find", batadv_arp_ip_dst(skb))>>)
       ELSE UNCHANGED cpu
    /\ UNCHANGED <<hash, mem, work, jiffies, orig, oops>>

batadv_dat_snoop_incoming_arp_request(c, skb) ==
    /\ Up
    /\ cpu[c] = Idle
    /\ IF batadv_arp_get_type(skb) = ARPOP_REQUEST
       THEN Begin(c, "in_req", <<Op("add", batadv_arp_ip_src(skb)), Op("find", batadv_arp_ip_dst(skb))>>)
       ELSE UNCHANGED cpu
    /\ UNCHANGED <<hash, mem, work, jiffies, orig, oops>>

batadv_dat_snoop_outgoing_arp_reply(c, skb) ==
    /\ Up
    /\ cpu[c] = Idle
    /\ IF batadv_arp_get_type(skb) = ARPOP_REPLY
       THEN Begin(c, "out_reply", <<Op("add", batadv_arp_ip_src(skb)), Op("add", batadv_arp_ip_dst(skb)),
                                    Op("send", batadv_arp_ip_src(skb)), Op("send", batadv_arp_ip_dst(skb))>>)
       ELSE UNCHANGED cpu
    /\ UNCHANGED <<hash, mem, work, jiffies, orig, oops>>

\* The value returned, whether hw_dst is a client of this node, changes
\* nothing here.
batadv_dat_snoop_incoming_arp_reply(c, skb) ==
    /\ Up
    /\ cpu[c] = Idle
    /\ IF batadv_arp_get_type(skb) = ARPOP_REPLY
       THEN Begin(c, "in_reply", <<Op("add", batadv_arp_ip_src(skb)), Op("add", batadv_arp_ip_dst(skb))>>)
       ELSE UNCHANGED cpu
    /\ UNCHANGED <<hash, mem, work, jiffies, orig, oops>>

batadv_dat_drop_broadcast_packet(c, skb, num_packets) ==
    /\ Up
    /\ cpu[c] = Idle
    /\ IF num_packets = 0 /\ batadv_arp_get_type(skb) = ARPOP_REQUEST
       THEN Begin(c, "drop", <<Op("find", batadv_arp_ip_dst(skb))>>)
       ELSE UNCHANGED cpu
    /\ UNCHANGED <<hash, mem, work, jiffies, orig, oops>>

\* batadv_dat_entry_hash_find up to the entry it stops at: nothing found,
\* or an entry of the bucket with this address, read under rcu_read_lock.
FindPick(c) ==
    /\ Up
    /\ Does(c, {"add", "find"})
    /\ LET ip == Head(cpu[c].todo).ip IN
       IF ~hash \/ Listed(ip) = {}
       THEN cpu' = [cpu EXCEPT ![c].pc = "got"]
       ELSE \E e \in Listed(ip) : cpu' = [cpu EXCEPT ![c].pc = "ref", ![c].cur = e]
    /\ UNCHANGED <<hash, mem, work, jiffies, orig, oops>>

\* atomic_inc_not_zero on the entry and rcu_read_unlock: an entry whose
\* count has reached 0 is passed over, and no other has the address.
FindRef(c) ==
    /\ Up
    /\ cpu[c].pc = "ref"
    /\ LET e == cpu[c].cur
           alive == mem[e].refcount # 0
       IN  /\ mem' = rcu_read_unlock(
                        IF alive THEN [mem EXCEPT ![e].refcount = @ + 1] ELSE mem, c)
           /\ cpu' = [cpu EXCEPT ![c].pc = "got", ![c].cur = NULL,
                                 ![c].dat_entry = IF alive THEN e ELSE NULL]
    /\ UNCHANGED <<hash, work, jiffies, orig, oops>>

\* batadv_dat_entry_add with the entry found: "just update it".
AddUpdate(c) ==
    /\ Up
    /\ cpu[c].pc = "got" /\ Head(cpu[c].todo).op = "add"
    /\ cpu[c].dat_entry # NULL
    /\ LET e == cpu[c].dat_entry IN
       mem' = batadv_dat_entry_free_ref([mem EXCEPT ![e].last_update = jiffies], e)
    /\ cpu' = [cpu EXCEPT ![c] = Rest(@)]
    /\ UNCHANGED <<hash, work, jiffies, orig, oops>>

\* batadv_dat_entry_add with nothing found: kmalloc fails, or a new entry
\* with two references goes to the table, which refuses it when the
\* address has got there in between.
AddInsert(c) ==
    /\ Up
    /\ cpu[c].pc = "got" /\ Head(cpu[c].todo).op = "add"
    /\ cpu[c].dat_entry = NULL
    /\ \/ UNCHANGED mem
       \/ \E e \in {f \in Entries : mem[f].state = "free"} :
            LET ip == Head(cpu[c].todo).ip
                new == [state |-> "live", ip |-> ip, last_update |-> jiffies,
                        refcount |-> 2, listed |-> batadv_hash_add(ip) = 0,
                        wait |-> {}]
                m == [mem EXCEPT ![e] = new]
            IN  mem' = IF new.listed THEN batadv_dat_entry_free_ref(m, e)
                       ELSE batadv_dat_entry_free_ref(batadv_dat_entry_free_ref(m, e), e)
    /\ cpu' = [cpu EXCEPT ![c] = Rest(@)]
    /\ UNCHANGED <<hash, work, jiffies, orig, oops>>

AfterFind(c, fn) ==
    cpu[c].pc = "got" /\ Head(cpu[c].todo).op = "find" /\ cpu[c].fn = fn

PutEntry_forgets(c) == UNCHANGED mem

\* out: if (dat_entry) batadv_dat_entry_free_ref(dat_entry)
PutEntry(c) ==
    mem' = IF cpu[c].dat_entry = NULL THEN mem
           ELSE batadv_dat_entry_free_ref(mem, cpu[c].dat_entry)

\* The end of batadv_dat_snoop_outgoing_arp_request: the reply is made
\* from the entry and handed to the stack (or one of the two allocations
\* fails), or the request goes to the candidates.
OutgoingRequestEnd(c) ==
    /\ Up
    /\ AfterFind(c, "out_req")
    /\ PutEntry(c)
    /\ cpu' = [cpu EXCEPT ![c] =
                 IF @.dat_entry # NULL THEN Idle
                 ELSE [Idle EXCEPT !.fn = "out_req", !.pc = "op",
                                   !.todo = <<Op("send", Head(cpu[c].todo).ip)>>]]
    /\ UNCHANGED <<hash, work, jiffies, orig, oops>>

\* The end of batadv_dat_snoop_incoming_arp_request: the reply is sent in
\* the packet type of the request, if there is an entry.
IncomingRequestEnd(c) ==
    /\ Up
    /\ AfterFind(c, "in_req")
    /\ PutEntry(c)
    /\ cpu' = [cpu EXCEPT ![c] = Idle]
    /\ UNCHANGED <<hash, work, jiffies, orig, oops>>

\* The end of batadv_dat_drop_broadcast_packet: drop if there is an entry.
DropEnd(c) ==
    /\ Up
    /\ AfterFind(c, "drop")
    /\ PutEntry(c)
    /\ cpu' = [cpu EXCEPT ![c] = Idle]
    /\ UNCHANGED <<hash, work, jiffies, orig, oops>>

-----------------------------------------------------------------------------
(* batadv_dat_send_data                                                    *)

\* orig_hash as a walk meets it
Table ==
    LET in == SelectSeq(OrigOrder, LAMBDA o : orig[o].listed)
    IN  [i \in DOMAIN in |-> [node |-> in[i], dat_addr |-> OrigAddr[in[i]],
                              refcount |-> orig[in[i]].refcount]]

\* kmalloc of the candidate array, which may fail.
SelectBegin(c) ==
    /\ Up
    /\ Does(c, {"send"})
    /\ \/ cpu' = [cpu EXCEPT ![c] = Rest(@)]
       \/ cpu' = [cpu EXCEPT ![c].pc = "choose",
                             ![c].last_max = BATADV_DAT_ADDR_MAX]
    /\ UNCHANGED <<hash, mem, work, jiffies, orig, oops>>

\* One call of batadv_choose_next_candidate.  The slots that hold no
\* candidate have their orig_node as kmalloc left it: any pointers (junk).
ChooseNext(c) ==
    /\ Up
    /\ cpu[c].pc = "choose"
    /\ \E junk \in SUBSET Origs :
         /\ Cardinality(junk) <= Len(cpu[c].res) - Cardinality(Chosen(cpu[c].res))
         /\ LET walk == batadv_choose_next_candidate(Table,
                            Chosen(cpu[c].res) \cup junk,
                            KeyOf[Head(cpu[c].todo).ip], cpu[c].last_max)
                o == walk.max_orig_node
            IN  IF walk.oops
                THEN oops' = TRUE /\ UNCHANGED <<cpu, orig>>
                ELSE /\ cpu' = [cpu EXCEPT
                           ![c].res = Append(@, Slot(walk)),
                           ![c].last_max = walk.max,
                           ![c].pc = IF Len(cpu[c].res) + 1 = Candidates
                                     THEN "xmit" ELSE "choose"]
                     /\ orig' = IF o = NULL THEN orig
                                ELSE [orig EXCEPT ![o].refcount = @ + 1]
                     /\ UNCHANGED oops
    /\ UNCHANGED <<hash, mem, work, jiffies>>

batadv_orig_node_free_ref(og, o) == [og EXCEPT ![o].refcount = @ - 1]

\* The loop over the candidates: with no router, a failed copy or a failed
\* transmission the originator is let go all the same.
SendData(c) ==
    /\ Up
    /\ cpu[c].pc = "xmit"
    /\ orig' = FoldLeft(batadv_orig_node_free_ref, orig, SetToSeq(Chosen(cpu[c].res)))
    /\ cpu' = [cpu EXCEPT ![c] = Rest(@)]
    /\ UNCHANGED <<hash, mem, work, jiffies, oops>>

\* A choice under way sees the table change.
Disturbed ==
    LET Sees(acc, c) ==
            IF acc[c].pc \in {"choose", "xmit"} /\ acc[c].res # <<>>
            THEN [acc EXCEPT ![c].quiet = FALSE] ELSE acc
    IN  FoldLeft(Sees, cpu, SetToSeq(Cpus))

\* originator.c: an originator is heard of and put into orig_hash.
OrigAdd(o) ==
    /\ Up
    /\ orig[o] = [listed |-> FALSE, refcount |-> 0]
    /\ orig' = [orig EXCEPT ![o] = [listed |-> TRUE, refcount |-> 1]]
    /\ cpu' = Disturbed
    /\ UNCHANGED <<hash, mem, work, jiffies, oops>>

\* originator.c: an originator times out and leaves orig_hash.
OrigPurge(o) ==
    /\ Up
    /\ orig[o].listed
    /\ orig' = [orig EXCEPT ![o] = [listed |-> FALSE, refcount |-> @.refcount - 1]]
    /\ cpu' = Disturbed
    /\ UNCHANGED <<hash, mem, work, jiffies, oops>>

-----------------------------------------------------------------------------
(* The worker, the clock, the grace period, init and free.                 *)

Buckets == [i \in 1 .. HashSize |-> i - 1]

\* batadv_dat_purge, one bucket a step: the work starts when its delay is
\* over, and queues itself again after the last bucket.
batadv_dat_purge ==
    /\ Up
    /\ \/ work.state = "queued" /\ work.due = jiffies
       \/ work.state = "running"
    /\ mem' = IF hash THEN __batadv_dat_purge(mem, work.i, Old) ELSE mem
    /\ work' = IF hash /\ work.i < HashSize - 1
               THEN [work EXCEPT !.state = "running", !.i = @ + 1]
               ELSE batadv_dat_start_timer
    /\ UNCHANGED <<hash, jiffies, orig, cpu, oops>>

\* A jiffy passes.  The work is run when it is due and is not overtaken by
\* the clock while it runs.
Tick ==
    /\ Up
    /\ work.state # "running"
    /\ ~(work.state = "queued" /\ work.due = jiffies)
    /\ jiffies' = (jiffies + 1) % JMod
    /\ UNCHANGED <<hash, mem, work, orig, cpu, oops>>

\* The end of the grace period of an entry given to kfree_rcu: kfree.
Reclaim(e) ==
    /\ Up
    /\ mem[e].state = "rcu" /\ mem[e].wait = {}
    /\ mem' = [mem EXCEPT ![e] = Free]
    /\ UNCHANGED <<hash, work, jiffies, orig, cpu, oops>>

batadv_dat_init ==
    /\ Up
    /\ ~hash
    /\ \/ hash' = TRUE /\ work' = batadv_dat_start_timer
       \/ UNCHANGED <<hash, work>>
    /\ UNCHANGED <<mem, jiffies, orig, cpu, oops>>

\* every entry of every bucket leaves the table
batadv_dat_hash_free(m) ==
    LET Bucket(acc, i) == __batadv_dat_purge(acc, i, Entries)
    IN  FoldLeft(Bucket, m, Buckets)

\* batadv_dat_free, when the interfaces are down: no packet is snooped
\* while it runs, and cancel_delayed_work_sync waits for the work to end.
batadv_dat_free ==
    /\ Up
    /\ \A c \in Cpus : cpu[c] = Idle
    /\ work.state # "running"
    /\ hash
    /\ work' = Off
    /\ mem' = batadv_dat_hash_free(mem)
    /\ hash' = FALSE
    /\ UNCHANGED <<jiffies, orig, cpu, oops>>

Halted == oops /\ UNCHANGED vars

Next ==
    \/ \E c \in Outgoing, skb \in Skbs :
         \/ batadv_dat_snoop_outgoing_arp_request(c, skb)
         \/ batadv_dat_snoop_outgoing_arp_reply(c, skb)
    \/ \E c \in Cpus, skb \in Skbs :
         \/ batadv_dat_snoop_incoming_arp_request(c, skb)
         \/ batadv_dat_snoop_incoming_arp_reply(c, skb)
         \/ \E num_packets \in {0, 1} :
              batadv_dat_drop_broadcast_packet(c, skb, num_packets)
    \/ \E c \in Cpus :
         \/ FindPick(c)
         \/ FindRef(c)
         \/ AddUpdate(c)
         \/ AddInsert(c)
         \/ OutgoingRequestEnd(c)
         \/ IncomingRequestEnd(c)
         \/ DropEnd(c)
         \/ SelectBegin(c)
         \/ ChooseNext(c)
         \/ SendData(c)
    \/ batadv_dat_purge
    \/ Tick
    \/ \E e \in Entries : Reclaim(e)
    \/ \E o \in Origs :
         \/ OrigAdd(o)
         \/ OrigPurge(o)
    \/ batadv_dat_init
    \/ batadv_dat_free
    \/ Halted

Spec == Init /\ [][Next]_vars

-----------------------------------------------------------------------------
(* Properties                                                              *)

Slots == {NotFound} \cup {Found(o) : o \in Origs}

TypeOK ==
    /\ hash \in BOOLEAN /\ oops \in BOOLEAN /\ jiffies \in 0 .. JMod - 1
    /\ work \in [state : {"off", "queued", "running"}, due : 0 .. JMod - 1,
                 i : 0 .. HashSize - 1]
    /\ mem \in [Entries -> [state : {"free", "live", "rcu"}, ip : Ips \cup {NULL},
                            last_update : 0 .. JMod - 1, refcount : Nat,
                            listed : BOOLEAN, wait : SUBSET Cpus]]
    /\ orig \in [Origs -> [listed : BOOLEAN, refcount : Nat]]
    /\ \A c \in Cpus :
         /\ cpu[c].pc \in {"idle", "op", "ref", "got", "choose", "xmit"}
         /\ cpu[c].cur \in Entries \cup {NULL}
         /\ cpu[c].dat_entry \in Entries \cup {NULL}
         /\ cpu[c].res \in BoundedSeq(Slots, Candidates)
         /\ cpu[c].last_max \in 0 .. BATADV_DAT_ADDR_MAX
         /\ cpu[c].pc = "idle" <=> cpu[c].todo = <<>>

Holders(e) == {c \in Cpus : cpu[c].dat_entry = e}

Holding(o) == {c \in Cpus : o \in Chosen(cpu[c].res)}

\* Every reference is somebody's: the count of an entry is one for the
\* table it is listed in and one for each function between its
\* batadv_dat_entry_hash_find and its batadv_dat_entry_free_ref, so that an
\* entry nobody holds is with kfree_rcu or free, whichever way the inserts,
\* the updates and the purge of the worker fall between each other; and
\* the count of an originator is one for orig_hash and one for each
\* candidate array that names it until batadv_dat_send_data lets it go.
ReferencesHeld ==
    /\ \A e \in Entries :
         /\ mem[e].refcount = Cardinality(Holders(e)) + (IF mem[e].listed THEN 1 ELSE 0)
         /\ mem[e].state = "live" <=> mem[e].refcount > 0
    /\ \A o \in Origs :
         orig[o].refcount = Cardinality(Holding(o)) + (IF orig[o].listed THEN 1 ELSE 0)

\* What batadv_dat_entry_hash_find looks at inside its rcu_read_lock, and
\* what it returns, is an entry of the address asked for and not memory
\* that was freed, or freed and given out again by kmalloc, although the
\* purge of the worker and the free_ref of another CPU may drop the last
\* reference while it looks.
ReadersSeeMemory ==
    \A c \in Cpus :
      /\ cpu[c].cur # NULL =>
           /\ mem[cpu[c].cur].state # "free"
           /\ mem[cpu[c].cur].ip = Head(cpu[c].todo).ip
      /\ cpu[c].dat_entry # NULL =>
           /\ mem[cpu[c].dat_entry].state = "live"
           /\ mem[cpu[c].dat_entry].ip = Head(cpu[c].todo).ip

\* batadv_dat_entry_hash_find does not look at last_update, so what keeps
\* an answer from the table fresh is the worker alone: no entry of the
\* table is older than the timeout and one period of batadv_dat_purge, also
\* across the wrap of jiffies and when updates fall between the buckets of
\* one purge.
ListedAreYoung ==
    \A e \in Entries :
      mem[e].listed => (jiffies - mem[e].last_update) % JMod <= Timeout + Period

\* how far to the right of the key an address lies on the ring
RingDistance(dat_addr, ip_key) == DatAddrT(dat_addr - ip_key)

\* res names, nearest first, as many originators of tab as there are slots
\* or originators, and none that it leaves out is nearer than one it names.
IsSelection(tab, ip_key, res) ==
    LET D == [i \in DOMAIN tab |-> RingDistance(tab[i].dat_addr, ip_key)]
        nodes == {tab[i].node : i \in DOMAIN tab}
        at == [n \in nodes |-> CHOOSE i \in DOMAIN tab : tab[i].node = n]
        k == Min({Candidates, Len(tab)})
    IN  /\ Len(res) = Candidates
        /\ \A j \in 1 .. Candidates : res[j].type = "ORIG" <=> j <= k
        /\ \A j \in 1 .. k : res[j].orig_node \in nodes
        /\ \A j \in 1 .. k, l \in 1 .. k : j # l => res[j].orig_node # res[l].orig_node
        /\ \A j \in 1 .. k - 1 : D[at[res[j].orig_node]] <= D[at[res[j + 1].orig_node]]
        /\ \A j \in 1 .. k, n \in nodes \ Chosen(res) : D[at[res[j].orig_node]] <= D[at[n]]

\* the tables of at most LawNodes originators, every address each
LawTables ==
    UNION {{[i \in 1 .. n |-> [node |-> i, dat_addr |-> a[i], refcount |-> 1]] :
              a \in [1 .. n -> 0 .. BATADV_DAT_ADDR_MAX - 1]} : n \in 0 .. LawNodes}

SelectionLaw ==
    \A tab \in LawTables, ip_key \in 0 .. BATADV_DAT_ADDR_MAX - 1 :
      LET sel == batadv_dat_select_candidates(tab, ip_key)
      IN  sel.oops \/ IsSelection(tab, ip_key, sel.res)

\* "An originator O is selected if and only if its DHT_ID value is one of
\* three closest values (from the LEFT, with wrap around if needed) then
\* the hash value of the key": whenever the walks of
\* batadv_choose_next_candidate come to an end, on every table of orig_hash
\* of up to LawNodes originators and for every key, and in every call of
\* batadv_dat_send_data during which orig_hash did not change.
SelectionClosest ==
    /\ SelectionLaw
    /\ \A c \in Cpus :
         cpu[c].pc = "xmit" /\ cpu[c].quiet =>
           IsSelection(Table, KeyOf[Head(cpu[c].todo).ip], cpu[c].res)

\* "this is an hash collision with the temporary selected node.  Choose
\* the one with the lowest address": of two originators with one DHT
\* address batadv_is_orig_node_eligible prefers the one whose MAC address
\* is lower (in a table of LawTables the node with the lower number).
\* Checked with the constants of MCDatTableFault.cfg.
CollisionChoosesLowest ==
    \A tab \in LawTables, ip_key \in 0 .. BATADV_DAT_ADDR_MAX - 1 :
      LET sel == batadv_dat_select_candidates(tab, ip_key)
          Before(n, m) ==
              \E j, l \in DOMAIN sel.res :
                  /\ j < l
                  /\ sel.res[j] = Found(n) /\ sel.res[l] = Found(m)
      IN  ~sel.oops =>
            \A i, k \in DOMAIN tab :
                tab[i].dat_addr = tab[k].dat_addr /\ tab[i].node < tab[k].node
                    => ~Before(tab[k].node, tab[i].node)
                       /\ (tab[k].node \in Chosen(sel.res)
                             => tab[i].node \in Chosen(sel.res))

\* MCDatTableFault: batadv_is_orig_node_eligible never reads the address
\* of an originator through a null max_orig_node.
SelectionNeverFaults == ~oops

=============================================================================
