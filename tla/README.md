# TLA+ models of the networking code under `src/net`

This directory holds TLA+ specifications of code in `src/net/`, the TLC
configurations that check them, and `PROJECT.json`, which lists every
component, run, mapped definition, finding and hazard in machine-readable form.

The repository is a selection of Linux networking files. `spec.md` describes
one of its parts, the packet history of TFRC (the rate control of DCCP CCID 3).
Eight groups of files are modelled:

1. the TFRC packet history, `net/dccp/ccids/lib/packet_history.c` and `.h`,
   with the sequence arithmetic of `net/dccp/dccp.h` underneath;
2. the DCCP receive path `net/dccp/input.c` and the DCCP options
   `net/dccp/options.c`;
3. the CAIF control protocol and channel configuration, `net/caif/cfctrl.c` and
   `net/caif/cfcnfg.c`;
4. the rfkill input handler, `net/rfkill/rfkill-input.c`;
5. the send path of RDS over InfiniBand, `net/rds/ib_send.c`;
6. the packet scheduler API, `net/sched/sch_api.c`;
7. the IPsec policy database and output path, `net/xfrm/xfrm_policy.c` and
   `net/xfrm/xfrm_output.c`;
8. the distributed ARP table of B.A.T.M.A.N. advanced,
   `net/batman-adv/distributed-arp-table.c`.

The other files are listed in section 7 with what a model of them would need.

## 1. The parts and how they interact

### 1.1 TFRC packet history

| Part | Source | State | Operations |
|---|---|---|---|
| Sequence arithmetic | `dccp.h:63-84`, `290-309` | none (pure) | `before48`, `after48`, `between48`, `max48`, `dccp_set_seqno`, `dccp_delta_seqno`, `dccp_inc_seqno` |
| Rx history | `packet_history.c:154-453`, `packet_history.h:55-85` | `struct tfrc_rx_hist`: `ring[4]` of entries `{seqno, ccval, type, ndp, tstamp}`, `loss_count:2`, `loss_start:2` | `tfrc_rx_hist_alloc`, `_purge`, `_add_packet`, `_duplicate`, `_new_loss_indicated`, `tfrc_rx_handle_loss` with `__one_after_loss`, `__two_after_loss`, `__three_after_loss` |
| RTT sampler | `packet_history.c:459-524` | `rtt_sample_prev`, which is `loss_start` under a second name; `ring[0]` as reference | `tfrc_rx_hist_sample_rtt` |
| Tx history | `packet_history.c:49-129` | a newest-first chain of `{seqno, stamp, next}` from a slab cache | `tfrc_tx_hist_add`, `_purge`, `_rtt` (with `tfrc_tx_hist_find_entry`) |
| Loss interval database | not in `src/` | external | `tfrc_lh_interval_add`, called by `tfrc_rx_handle_loss` |

For every packet the receive path of the CCID asks `tfrc_rx_hist_duplicate`,
and drops the packet if so. If a gap is pending (`loss_count > 0`) the packet
goes to `tfrc_rx_handle_loss`, which runs the transition for one or two pending
entries and, when the third packet after a hole has arrived, calls the loss
interval database and recycles the ring. Otherwise
`tfrc_rx_hist_new_loss_indicated` decides whether the packet opens a gap; if it
does the packet becomes the first pending entry, and if not the sampler is
consulted and the packet replaces the anchor. On the sender side every
transmitted sequence number is added to the chain and every acknowledged one is
looked up, which frees all older entries.

Everything runs under the socket lock of one connection (`spec.md` 5). What
makes the library hard is the arithmetic (48-bit circular numbers, held in
`u64`, compared through `int` and `u32`), the order of arrivals, and the two
meanings of one bit-field (`loss_start` and `rtt_sample_prev`).

### 1.2 DCCP receive path and options

`dccp_v4_do_rcv` (not in `src/`) hands every packet of a socket to
`dccp_rcv_established` (state OPEN) or `dccp_rcv_state_process` (any other
state). Both call `dccp_check_seqno` (Steps 5 and 6 of RFC 4340 8.5: the
sequence and acknowledgement windows, with `dccp_update_gsr` of `dccp.h`), then
`dccp_parse_options`, then the CCID and the ack vector, and last act on the
packet type. `dccp_rcv_state_process` calls
`dccp_rcv_request_sent_state_process` and
`dccp_rcv_respond_partopen_state_process`, and the latter calls
`dccp_rcv_established` for the DataAck that completes the handshake.

`options.c` is the other half of a packet: `dccp_insert_options` builds the
option area of a packet that leaves (NDP count, ack vector, timestamp echo with
the time the timestamp was held, the options of the two CCIDs, feature
negotiation, padding), in at most `DCCP_MAX_OPT_LEN` bytes, and
`dccp_parse_options` reads the area of a packet that arrives, from whoever sent
it.

### 1.3 CAIF control and configuration

`cfcnfg.c` keeps the table of physical interfaces (`phy_layers`, with a
reference count per interface) and builds the layer stack of a channel. A
client asks for a channel with `cfcnfg_add_adaptation_layer`, which sends an
enumeration request and a link-setup request through `cfctrl.c`.
`cfctrl_linkup_request` puts a record of the request (parameters and client)
in the list `first_req` and transmits the packet. The modem answers;
`cfctrl_recv` parses the response, finds the request it answers with
`cfctrl_remove_req` (by comparing the parameters, `cfctrl_req_eq` and
`param_eq`) and calls `cncfg_linkup_rsp` or `cncfg_reject_rsp` of `cfcnfg.c`
with the client of that request. `cncfg_linkup_rsp` counts the interface as
used, creates the service layer and puts it between the multiplexer and the
client. `cfcnfg_del_adapt_layer` sends a link-destroy request and counts the
interface down; `cncfg_linkdestroy_rsp` takes the service layer out of the
multiplexer. On a loopback interface the requests come back as they were sent,
and `handle_loop` adds what the modem would have added (a free link id).

### 1.4 rfkill input handler

`rfkill_event` runs in interrupt context on any CPU. A key press toggles the
desired state of one radio type, the switch `SW_RFKILL_ALL` sets all types on
or schedules the emergency power-off (EPO). An event is accepted only if the
last accepted event of the type is more than 200 ms ago (`time_after` on
`jiffies`) and no EPO is pending; an accepted event writes `desired_state` and
`last` under a spinlock and schedules the work of the type.
`rfkill_task_handler` runs later in a worker thread, takes the mutex of the
task, reads `desired_state` and calls `rfkill_switch_all`.

### 1.5 RDS send path over InfiniBand

The RDS core has one send thread per connection (`c_send_lock`). It hands a
message to the transport in up to three calls: `rds_ib_xmit_rdma`,
`rds_ib_xmit_atomic` and, as often as it takes, `rds_ib_xmit` for the header
and the fragments. Each call takes entries of the send ring, fills them in and
posts them to the queue pair. The adapter executes the work requests in order
and reports the signalled ones; `rds_ib_send_cq_comp_handler` runs in a tasklet
on any CPU, gives back every entry up to the one reported and releases the
messages that are done.

With flow control a SEND costs a credit. The send credits and the posted
credits (receive buffers posted and not yet advertised to the peer) are the two
halves of the one atomic word `i_credits`. The send thread and the
acknowledgement take from it with a read and a later `atomic_cmpxchg` (and
start again when the word has changed); the receive path adds to it with
`atomic_add`. The last send credit is kept back unless there are posted credits
to send with it, so that the two ends cannot both run dry.

### 1.6 Packet scheduler API

A device has a queueing discipline (qdisc) for what it sends and may have one
for what it receives (ingress). A classful qdisc has classes, and each class
has a qdisc of its own as its leaf: the qdiscs of a device form a tree. A
qdisc is named by a handle `major:0`, a class by `major:minor`. User space
builds the tree with rtnetlink requests: `RTM_NEWQDISC` (`tc_modify_qdisc`)
creates a qdisc, changes one, or grafts one that exists to another place,
depending on its flags and on what it finds; `RTM_DELQDISC` and `RTM_GETQDISC`
(`tc_get_qdisc`) delete and report one; `RTM_NEWTCLASS`, `RTM_DELTCLASS` and
`RTM_GETTCLASS` (`tc_ctl_tclass`) do the same for classes.

A qdisc is reference counted: the device or the class it is attached to holds
a reference, and a qdisc holds its module, the device and, if it shapes, a
rate table shared by all qdiscs with the same rate. Requests run one at a time
under the RTNL semaphore, with one exception: `qdisc_create` releases the
semaphore while it loads the module of a kind that is not registered, and
other requests, module loads and unloads run in that window.

### 1.7 IPsec policies and bundles

`xfrm_policy.c` keeps the policies that say which flows must be transformed
(encrypted, authenticated, tunnelled), and how. A policy is on one list per
direction (and per type, with `CONFIG_XFRM_SUB_POLICY`), ordered by priority;
the lists of socket policies follow the three directions in the same array. A
policy is reference counted: the list it is on, its pending timer, and every
call that found it hold a reference each. Four kinds of actors work on the
lists side by side:

* the key managers, under `xfrm_cfg_mutex`: `xfrm_policy_insert` (which
  replaces a policy with the same selector and takes the bundles of every
  policy behind the new one away), `xfrm_policy_bysel_ctx` and
  `xfrm_policy_byid` (find, or find and delete), `xfrm_policy_flush`,
  `xfrm_policy_walk`;
* the lifetime timer of each policy, `xfrm_policy_timer`, in softirq context:
  it reports a soft limit to the key managers, and at a hard limit it unlinks
  the policy (`xfrm_policy_delete`) and kills it;
* `xfrm_policy_kill` marks a policy dead and puts it on `xfrm_policy_gc_list`;
  the work item `xfrm_policy_gc_task` takes the list and, for each policy,
  frees its bundles, stops its timer and puts the reference of the list;
* packets, on any CPU: `xfrm_lookup` for one that goes out and
  `__xfrm_policy_check` for one that came in.

`xfrm_lookup` finds the policy of the flow (the policy of the socket, or the
sub policy and the main policy of the lists), looks for a bundle of the policy
that fits the flow (`xfrm_find_bundle`), and otherwise resolves the templates
of the policies to states (`xfrm_tmpl_resolve`), sleeps on `km_waitq` when the
key manager has to negotiate one and starts again when the policies changed
meanwhile, has the family build the bundle (`bundle_create`) and puts the
bundle on the list of the policy. It takes and drops `xfrm_policy_lock` and
the lock of the policy several times on the way. `__xfrm_policy_check` matches
the path of states a packet came through against the templates of its policies
(`xfrm_policy_ok`, `xfrm_state_ok`, `secpath_has_nontransport`).

A socket has a policy per direction (`xfrm_sk_policy_insert`); a socket that
is cloned gets copies (`__xfrm_sk_clone_policy`, `clone_policy`).

The code of an address family registers an `xfrm_policy_afinfo` object in a
table (`xfrm_policy_register_afinfo`), which also carries the maps of
transform types and encapsulation modes of the family. Types and modes live in
modules: `xfrm_get_type` and `xfrm_get_mode` take a reference of the module
with `try_module_get` and ask for the module with `request_module` when the
map has no entry. A bundle is a chain of `xfrm_dst` entries, one per state,
over a route. `xfrm_init_pmtu` computes the MTU of each entry from the MTU of
its child and of its route, `xfrm_bundle_ok` tests whether a bundle still fits
(states valid, generations unchanged, routes not obsolete) and brings the MTUs
up to date, `xfrm_dst_ifdown` moves the entries of a bundle off a device that
goes away, and `xfrm_prune_bundles` frees the bundles that are unused
(`__xfrm_garbage_collect`) or stale (`xfrm_flush_bundles`, `xfrm_dev_event`).
`xfrm_output` of `xfrm_output.c` sends a packet down the bundle: for each
state it checks the state (`xfrm_state_check`: expired, over its limit, no
room), runs the mode and the type, and goes on to the child until it reaches
a tunnel or the route.

### 1.8 Distributed ARP table

A node of a batman-adv mesh learns the IPv4 to MAC bindings of the ARP
messages that pass it, keeps them in a local hash table (`dat.hash`) and
stores them in a DHT, so that an ARP request can be answered without a
broadcast through the mesh. The file has three parts that work on the same
state:

* the local table. An entry is found under `rcu_read_lock`
  (`batadv_dat_entry_hash_find`) and kept by `atomic_inc_not_zero`; it is
  made with two references, one for the table and one for the caller
  (`batadv_dat_entry_add`), and `batadv_dat_entry_free_ref` gives it to
  `kfree_rcu` when the last one goes. An entry that is found is refreshed
  (`last_update = jiffies`), lookups never look at its age;
* the purge. The delayed work `batadv_dat_purge` runs every 10 s and takes
  the entries that were not refreshed for 5 minutes off the table, bucket by
  bucket, each under the lock of its bucket, and queues itself again
  (`batadv_dat_start_timer`). `batadv_dat_init` makes the table and starts
  the work, `batadv_dat_free` stops the work and empties the table;
* the DHT. The key of an address is `batadv_hash_dat` of its four bytes,
  modulo `BATADV_DAT_ADDR_MAX`; the originators of the mesh sit on the same
  ring with the hash of their MAC address. `batadv_dat_select_candidates`
  walks `orig_hash` three times (`batadv_choose_next_candidate`), each walk
  taking the originator nearest to the key that the earlier walks have not
  taken (`batadv_is_orig_node_eligible`), with a reference on it.
  `batadv_dat_send_data` sends the packet to each candidate and lets it go.

Five functions call them from the packet paths, in softirq context on any
CPU. `batadv_dat_snoop_outgoing_arp_request` adds the sender of a request of
this host, answers from the table, or sends a DHT_GET to the candidates;
`batadv_dat_snoop_incoming_arp_request` adds the sender and answers from the
table; the two `arp_reply` functions add both bindings of a reply, the
outgoing one also sends them to the candidates (DHT_PUT);
`batadv_dat_drop_broadcast_packet` drops a broadcast request the table can
answer. All of them first classify the packet (`batadv_arp_get_type`).

## 2. Modules

| Module | Models | Extends |
|---|---|---|
| `SeqArith` | the sequence arithmetic of `dccp.h` and `SUB16` of `packet_history.h`, as operators | `Integers` |
| `SeqArithLaws` | three sequence registers moved by `dccp_inc_seqno` and `dccp_set_seqno`; the laws of the arithmetic as invariants against reference definitions | `SeqArith` |
| `RxHist` | the receiver history, loss detection and the RTT sampler | `SeqArith`, `Sequences` |
| `TxHist` | the sender history with its pointers | `SeqArith`, `Sequences`, `FiniteSets`, `Functions` |
| `LossDetector` | what loss detection promises: an anchor, a set of waiting packets, a loss reported when three wait above a hole | `Integers`, `FiniteSets` |
| `DccpInput` | every function of `input.c` with the window updates and `dccp_set_state` of `dccp.h` | `SeqArith`, `Sequences` |
| `DccpOptions` | every function of `options.c`, on option areas that are sequences of bytes | `Integers`, `Sequences`, `SequencesExt` |
| `CfCtrl` | `cfctrl.c` as operators on the record of `struct cfctrl` | `Integers`, `Sequences`, `SequencesExt`, `FiniteSetsExt` |
| `CfCnfg` | `cfcnfg.c`, with clients, a modem and a loopback, composed with `CfCtrl` | `CfCtrl` |
| `RfkillInput` | `rfkill-input.c` with events, worker threads and module unload | `Integers`, `Sequences`, `SequencesExt` |
| `RdsIbSend` | every function of `ib_send.c`, with the acknowledgement, the adapter and a peer | `Integers`, `Sequences`, `FiniteSets` |
| `SchApi` | `sch_api.c`: the registry, the rate tables, handles, graft, create and change, and the three rtnetlink handlers, with a device, a module that comes and goes and a request that waits for its module | `Integers`, `Sequences`, `FiniteSets`, `SequencesExt` |
| `XfrmAfinfo` | the table `xfrm_policy_afinfo` of `xfrm_policy.c`, as operators | `Integers` |
| `XfrmPolicy` | the policy database of `xfrm_policy.c`: lists, timers, kill and the gc task, socket policies, `xfrm_lookup`, `__xfrm_policy_check`, the pruning of bundles, the device notifier | `XfrmAfinfo`, `Integers`, `Sequences`, `FiniteSets`, `SequencesExt`, `TLC` |
| `XfrmBundle` | one bundle and the code its states run: the maps of types and modes with their module references, `xfrm_init_pmtu`, `xfrm_bundle_ok`, `xfrm_dst_ifdown` of `xfrm_policy.c`, and `xfrm_output.c` | `XfrmAfinfo`, `Integers`, `Sequences`, `FiniteSets`, `SequencesExt` |
| `DatTable` | `distributed-arp-table.c`: the hash, the local table with its references and RCU, the purge work, the five snooping functions, the selection of the candidates and `batadv_dat_send_data`, with a clock and an originator table that changes | `Integers`, `Sequences`, `FiniteSets`, `SequencesExt`, `Bitwise` |
| `MCSeqArith`, `MCRxHist`, `MCTxHist`, `MCDccpInput`, `MCDccpOptions`, `MCCfCnfg`, `MCRfkillInput`, `MCRdsIbSend`, `MCSchApi`, `MCXfrmPolicy`, `MCXfrmBundle`, `MCDatTable` | the instances TLC checks | the module each one checks |

A C function is an operator with the name of the function, from the state it
finds (and its arguments) to the state it leaves; where a function has stages
that other definitions refer to, each stage is an operator named for what it
does (`Header`, `Taken`, `Counted`, `Served`). Actions call these operators.
Definitions whose name ends in a word after an underscore that the C name does
not have (`dccp_ndp_len_256`, `Lock_nomutex`) are the mutants of section 3.3;
in the modules of sections 1.7 and 1.8 a mutant is named for what it does wrong
(`mod_timer_forgets`, `scan_keeps_twin`, `remetric_unclamped`).

### 2.1 Widths

`SeqArith` has three constants: `SeqBits` (48 in the code), `PadBits` (16: the
sequence number sits in a 64-bit register and is shifted left by 16 to compare)
and `IntBits` (32: the width of `int` and `u32`). Every operator keeps the
operations of the C expression: `before48(seq1, seq2)` is
`S64(Shl16(seq1) - Shl16(seq2)) < 0`, not a definition by cases. The models are
checked with small widths (4 to 5 sequence bits, 2 pad bits); what they show
depends on the widths only through the relations `SeqBits + PadBits` = register
width and `IntBits <= SeqBits`, which hold in the code.

`dccp_delta_seqno` returns `u64`. `packet_history.c` stores its result in `int`
variables; the model does the same with `ToInt`, and compares with `U32` where
the C comparison has a `u32` operand (`SuccessorU`) and as integers where both
are `int` (`SuccessorS`).

`RfkillInput` has `JBits`, the width of `jiffies`, and `CfCtrl` has `LinkBits`,
the width of a link id (`u8`). `DccpOptions` keeps the real widths: option
bytes are 0..255 and the lengths of the NDP count and of the elapsed time
change at 2^8 and 2^16 as in the code.

### 2.2 RxHist

* `h` is `struct tfrc_rx_hist`: `ring`, `loss_count`, `loss_start`. The C ring
  holds four pointers to four entries that are only ever swapped; the model
  holds the four entries themselves. A slot is `NULL` (no memory), `UNINIT`
  (allocated, never written) or an entry.
* Each C function is an operator from a history to the history it leaves:
  `__one_after_loss(g, skb, t)`, `__two_after_loss` (which also returns its
  result), `__three_after_loss`, `tfrc_rx_handle_loss`,
  `tfrc_rx_hist_sample_rtt` (history, sample and whether the `DCCP_BUG` branch
  was taken). The branches are the disjoint arms of a `CASE`, in the order of
  the code. `MoveAnchor` and `InsertAfterAnchor` name the two groups of
  assignments that the functions repeat.
* `rtt_sample_prev` is not a variable: as in the header, it is `loss_start`.
* The four accessors `tfrc_rx_hist_index`, `_entry`, `_loss_prev`, `_last_rcv`
  are declared in a header that is not in `src/`. They are written from
  `spec.md` 3 (`entry(i) = ring[(loss_start + i) mod 4]`), with
  `last_rcv = entry(loss_count)`.
* The receive path of the CCID is not in `src/` either. It is the five actions
  `RecvFirst`, `RecvDuplicate`, `RecvLossPending`, `RecvNewLoss`, `RecvInOrder`,
  one per path, each one atomic because the caller holds the socket lock.
  `spec.md` 2 and 4.2 fix the order: duplicate test first; then loss handling
  if a gap is pending; else `new_loss_indicated`, and the packet is stored as
  the first pending entry when it opens a gap (scenario B of `spec.md` 8); else
  the fast path, where the sampler runs before `add_packet`.
* `Arrivals` is the set of packets the layer below can deliver next: sequence
  numbers `InitSeq .. InitSeq + Span`, at most `Fwd` ahead and `Back` behind the
  highest number delivered so far, and (unless `StaleArrivals`) not older than
  the anchor, which is the precondition the comment above `__one_after_loss`
  states.
* `gsr`, `rcvd` and `out` are history variables: the highest number delivered,
  the set of numbers delivered, and what the last call returned and showed the
  loss interval database.

### 2.3 TxHist

`t = [head, mem]`: `mem` maps each slab address to `FREE` or an entry
`{seqno, stamp, next}`. `tfrc_tx_hist_purge(s, headp)` takes the place of a
pointer (`HEAD` or the address of an entry, meaning its `next` field), as the C
function takes a `struct tfrc_tx_hist_entry **`; `tfrc_tx_hist_rtt` calls it
with the matched entry. Actions: `Add` (any free address), `AddFail`
(`-ENOBUFS`; the sequence number is used but not recorded), `Rtt` (for any
sequence number, sent or not), `Purge`, `Tick`.

### 2.4 LossDetector and the refinement

`LossDetector` says what the receiver promises without a ring, indices or C
integers. Its state is an `anchor` (the number before which nothing is
outstanding), the set `pending` of packets that wait above it, and the hole
`loss` reported by the last step. `Receive(p)` adds the packet, lets the anchor
climb for as long as the lowest waiting packet follows it (`Settle`, recursive),
and, when `NDupAck` packets still wait, reports the hole below the lowest of
them and settles again from there.

`RxHist` instantiates it as `LD` with the mapping

| Abstract | Concrete |
|---|---|
| `anchor` | `tfrc_rx_hist_loss_prev(h).seqno`, `NULL` before the first packet |
| `pending` | the entries 1 .. `loss_count` of the ring, as `[seq, ndp]` |
| `loss` | the sequence numbers of the first two entries shown to the loss interval database in this call |

and `ImplementsLossDetector == LD!ASpec` is checked as a property of the run
`rx_loss`. Teardown and allocation map to `Reset` or to stuttering; `RecvFirst`
to `First`; `RecvDuplicate` to `Duplicate`; the three other receive actions to
`Receive`. The thirteen branches of `__one_`, `__two_` and `__three_after_loss`
are thus shown to compute one set-based rule.

### 2.5 DccpInput

* `sk` is the socket: state, role, the eight sequence registers (`iss`, `gss`,
  `awl`, `awh`, `gar`, `isr`, `gsr`, `swl`, `swh`, `osr`), the flags the input
  path reads or writes (`send_head`, the two timers, `shutdown`, `done`) and the
  ack vector's `ap_ack_seqno`.
* A call works on a context `c = [sk, fx, ret]`: `fx` collects what the call
  did to the packet and to the world outside the socket (packets sent, the skb
  queued or freed, the CCID called, assertions tripped), `ret` is the value of
  the last return statement. `dccp_check_seqno`, `dccp_rcv_established`,
  `dccp_rcv_request_sent_state_process`,
  `dccp_rcv_respond_partopen_state_process` and `dccp_rcv_state_process` are
  operators on contexts, with the stages `EstablishedChecked`,
  `EstablishedAccept`, `ProcessChecked`, `ProcessAccepted`, `ProcessByState`,
  `ReturnOrFree` and `FreeUnlessQueued` in the order of the code.
* The peer and the network are the environment: `Arrivals` is every packet type
  with a sequence number at most `Fwd` ahead of and `Back` behind GSR and an
  acknowledgement number round GSS, which covers loss, reordering, duplication
  and forged packets. What `input.c` calls and `src/` does not hold (option
  parsing, the ack vector buffer, the CCID) answers nondeterministically
  (`Choices`).
* Actions: `Connect`, `Listen`, `Child` (the three ways a socket starts),
  `RetransTimer`, `Send`, `DelAckTimer`, `RcvEstablished`, `RcvStateProcess`,
  `Release`. One packet is one step, because the socket lock is held.

### 2.6 DccpOptions

* `ep[n]` is the part of `struct dccp_sock` of socket `n` that `options.c`
  reads and writes: `ndp_count`, `timestamp_echo`, `timestamp_time`, the two
  insert flags of the CCIDs, the lists `conf` and `pending` of feature
  negotiation, the retransmit timer. `wire[n]` is the packet on its way to `n`,
  with its option area as a sequence of bytes. `now` is the clock.
* The insert functions are operators on `[dp, skb]`; the skb is the option area
  built so far and `dccpd_opt_len`. `skb_push` puts every new option in front,
  which `Put` does. `dccp_encode_value_var` and `dccp_decode_value_var` are
  the big-endian conversions of 1 to 4 bytes.
* `dccp_parse_options(dp, buf, type, clock, ext)` walks the bytes: `Header`
  reads type and length with the three checks of lines 88-103, `Invalid` is
  the length check of each case, `Taken` what the case stores. It returns the
  socket, `dccps_options_received`, the return code, and `oob`: whether any
  byte was read outside the area.
* `ext` is what the parsers outside answer (`dccp_feat_change_recv`,
  `dccp_feat_confirm_recv`, `dccp_ackvec_parse`, the CCIDs): 0 or -1, for
  options the area carries.
* Actions: `Send(n, type, av, e)` (a packet of a type, with an ack vector of
  `av` bytes and a CCID that reports an elapsed time `e`), `Deliver`, `Lose`,
  `Forge` (a third party sends one of the areas `Forged`), `FeatChange`,
  `CcidWants`, `Tick`.
* `hist` is a history variable: the non-data packets each socket really sent
  since its last data packet, and the timestamp it really received last.

### 2.7 CfCtrl and CfCnfg

* `ctrl` is `struct cfctrl`: `first_req` (the list, oldest first), `dev_id`
  (the one `dev_info` every packet of the layer points to), `loop_linkused`,
  `last_linkid`, and `dn`, the packets handed to the layer below.
* A link parameter is a record of the fields `param_eq` compares: `linktype`,
  `chtype`, `priority`, `phyid`, `endpoint`, and `u` for the parameters of the
  link type. `OnWire` is what `cfctrl_linkup_request` writes and `cfctrl_recv`
  reads of it: the endpoint masked with 3, priority and interface packed in one
  byte.
* `f` is the set of steps that fail in a call: the allocation of the packet or
  of the request record, the transmit, the driver or the framing layer of a new
  interface, the service layer. `FaultChoice` allows at most one failure per
  call, from the constant `Faults`.
* `phy_layers`, `last_phyid` are `struct cfcnfg`; `mux` is the set of service
  layers the multiplexer knows; `adap[a]` is the adaptation layer of client `a`
  (`id`, `dn`) with what the client did last (`phase`) and asked for; `phy[i]`
  is the last `modemcmd` interface `i` was given.
* Actions: `cfcnfg_add_phy_layer`, `cfcnfg_del_phy_layer`, `Connect`
  (`cfcnfg_get_phyid` and `cfcnfg_add_adaptation_layer`),
  `cfcnfg_del_adapt_layer`, `Request` (sleep, wake, start reason), `Recv`
  (`cfctrl_recv` with the response function it calls, one step, as in the
  code), `ModemAnswer(k)` (the modem answers its k-th request, with a link id
  or with the error bit) and `Loopback`.
* `Careful` is the assumption about the callers that the file relies on and
  does not check: a client gives up a channel only after its answer, and an
  interface is removed only when no channel, request or packet names it.

### 2.8 RfkillInput

* `task[t]` is `struct rfkill_task` (`desired_state`, `last`); `mutex[t]` the
  CPU whose handler holds the mutex of the task; `queue[c]` the works scheduled
  on CPU `c`; `run[c]` what the worker thread of `c` is doing; `radio[t]` the
  state `rfkill_switch_all` or `rfkill_epo` set last.
* An event is one step (`KeyEvent`, `SwitchEvent`): it runs with interrupts
  off under the spinlock. `SwitchEvent` with data 1 calls `rfkill_schedule_set`
  for every type in the order of the code (`SetOrder`).
* The handler is three steps, `Lock`, `Read`, `Switch`, because it sleeps in
  `mutex_lock` and in `rfkill_switch_all`; between them events arrive and the
  same work runs on another CPU. A work is no longer pending once its handler
  has started (`Start`), as in the workqueue.
* Unload is two steps: `ExitUnregister` (no more events) and `ExitFlushed`
  (`flush_scheduled_work` has returned); `Load` starts again with the static
  initialisers.
* `hist` is a history variable: per type, whether an accepted event has not yet
  been read by a handler, who set the radio last, and the ticks since the last
  accepted event.

### 2.9 RdsIbSend

* `ic` is `struct rds_ib_connection` with the state of its connection and the
  bit `RDS_LL_SEND_FULL`: `i_credits` (a number below 2^(2 `CreditBits`), send
  credits in the low half), `ring` (`w_alloc_ptr`, `w_free_ptr` and the number
  of entries in use), `i_rm`, `i_unsignaled_wrs`, the two acknowledgement flags
  and `qp_err` (the queue pair flushes what is posted). `sends[i]` is
  `i_sends[i]` with `s_rm`, `s_op`, the opcode and the SIGNALED flag. `rm[m]`
  is a message: what it consists of, the references the transport holds, and
  what the core was told of its RDMA and atomic operation.
* `snd` is the send thread: the message of the core, how far it is sent, and
  the locals of the running call of `rds_ib_xmit` (`pos`, `work_alloc`,
  `credit_alloc`, `adv_credits`, `flow_controlled`, the value read from
  `i_credits`). `rds_ib_xmit` is the steps `XmitAlloc`, `XmitRingFull`,
  `XmitGrabRead`, `XmitGrabCas`, `XmitMap`, `XmitPost`: it is cut where it
  reads or writes what the completion handler, the acknowledgement or the
  receive path write, that is the ring counters, `i_credits` and
  `RDS_LL_SEND_FULL`. `rds_ib_xmit_rdma` and `rds_ib_xmit_atomic` touch the
  ring only through `rds_ib_ring_alloc` and are one step each.
* `Bill` is one pass of `rds_ib_send_grab_credits` over the value it read, and
  `Swapped` its `atomic_cmpxchg`. The acknowledgement (`AckGrabRead`,
  `AckGrabCas`) and the peer use the same operators.
* `rds_ib_send_cq_comp_handler` is one step per completion: `ReapedFrom` is its
  loop, `Reaped` the body, `ToldAtOnce` the block for a failed RDMA operation.
* `qp` and `cq` are the work requests posted and the completions not yet
  polled. `HwExecute` executes the oldest request: a SEND needs a buffer of the
  peer, an unsignalled request that succeeds leaves no completion, and after an
  error everything is flushed. `peer` has the buffers of the other end and its
  own credit word; `PeerRefill` posts buffers again, `PeerUpdate` sends the
  credit update the peer owes, `PeerPacket` a packet of its own.
* A packet that arrives (`Arrives`) adds the credits it carries
  (`rds_ib_send_add_credits`) and advertises the buffer posted in its place
  (`rds_ib_advertise_credits`), in one step; in the code the two are calls of
  the same tasklet.
* `hist` is a history variable: the entries the adapter has executed and the
  handler has not yet given back, the packets the peer has sent of its own
  accord, and whether a `BUG_ON` was reached or a NULL message read.

### 2.10 SchApi

* The functions of `sch_api.c` are operators on a record `s` of what the file
  reads and writes: `s.dev` (the device: whether it is up, `qdisc_list`,
  `qdisc_sleeping` and `qdisc` of its transmit queue, the qdisc of its receive
  queue, the references `dev_hold` has taken), `s.qd` (the memory of qdiscs,
  each with its kind, handle, parent, ingress flag, reference count, the leaf
  of each class and the rate it shapes with), `s.base` (`qdisc_base`),
  `s.modref` (the module reference counts), `s.auto` (the static `autohandle`)
  and `s.rtab` (`qdisc_rtab_list`). An operator returns the state it leaves
  with the error code, as the C function returns through its labels.
* A pointer to a qdisc is a number: an index of `s.qd`, `NULL`, `NOOP`
  (`noop_qdisc`) or `DFLT` (a default qdisc from `qdisc_create_dflt`, which
  has handle 0 and no state the requests read).
* Handles are numbers below 2^(2 `HBits`) with the macros of `pkt_sched.h`
  as operators; `qdisc_alloc_handle` is the loop of the code, with its wrap
  from the last major back to the first automatic one and its count of tries.
* `tc_modify_qdisc` is `Decision` (everything down to the labels: which of
  change, create and graft the request turns out to ask, or the error) and
  `Carried` (the labels `create_n_graft` and `graft` and the change). The
  split is where the code can leave the RTNL semaphore: `KmodWait` stores the
  request of a task with the decision it has reached, `KmodReturn` is the
  return of `request_module`, after which the code starts again from `replay`
  (`Resumed`).
* What lies outside the file is written from its contract: the class
  operations of a classful qdisc (`cops_get`, `cops_graft`, `cops_change`,
  `cops_delete`; a new class gets a default leaf, a deleted class destroys
  its leaf), `ops_init` and `ops_change` of a qdisc that needs a rate table,
  `qdisc_destroy` (the last reference unlists the qdisc, destroys the leaves
  of its classes, puts its rate table, its module and the device),
  `dev_activate` and `dev_deactivate`.
* A step that can fail is in `Faults`: the allocation of a qdisc, its init,
  the estimator, the default leaf of a class, a new class, a class that is
  busy. At most one step of a request fails.
* `out` holds the outcome of the last request: the error, the messages of
  `qdisc_notify` and `tclass_notify`, and the locking faults (`spin_lock_bh`
  and `spin_unlock_bh` record a lock taken twice or released unheld). It is
  written and never read, and the listed run leaves it out of the state by a
  `VIEW`.

### 2.11 XfrmAfinfo

The table `xfrm_policy_afinfo[NPROTO]` is a function from `Families` to the
id of the registered object or `NULL`. Every function of the file that touches
it does so under `xfrm_policy_afinfo_lock`, so each is one operator on the
table: `xfrm_policy_register_afinfo` (`-EAFNOSUPPORT`, `-ENOBUFS` for a family
that is taken), `xfrm_policy_unregister_afinfo` (`-EINVAL` for an object that
is not the registered one), `xfrm_policy_get_afinfo` and
`xfrm_policy_lock_afinfo`. `XfrmPolicy` and `XfrmBundle` both have the table
in their state and extend the module.

### 2.12 XfrmPolicy

* `k` is a record of everything the file reads and writes: `k.pol` (the
  memory of policies, each with `refcnt`, `dead`, `next`, `index`, the times,
  its list of bundles, the expiry of its timer, and `spec`: what user space
  asked for), `k.list` (the heads of `xfrm_policy_list`, by type and
  direction, the socket lists included), `k.dst` (the bundles: state,
  `__refcnt`, the flow they were made for), `k.sk` (`sk_policy[2]` of each
  socket), `k.gc_list`, `k.gc_work` and `k.gc_todo` (`xfrm_policy_gc_list`,
  whether the work is scheduled, and the list the running work has taken),
  `k.genid` (`flow_cache_genid`), `k.idx_generator` and `k.afinfo`. A C
  function is an operator from `k` to `k`, with the error where it has one.
* A pointer to a policy is an index of `k.pol` or `NULL`; a list is the chain
  from its head along `next` (`Chain`, `ListOf`). Memory is `unused`,
  `alloc` or `freed`, and freed memory is not given out again, so that a
  pointer followed to freed memory is seen as such.
* A call is cut into steps where it drops the last lock it holds.
  `xfrm_policy_insert` is `AddPolicy` (to the first `write_unlock_bh`),
  `InsertKill` (the policy it replaced is killed) and `InsertEnd` (the sweep
  of the bundles behind it); deletion is `GetPolicy`, `GetKill`, `GetEnd`;
  `xfrm_policy_flush` is `Flush` and one `FlushKill` per policy; the timer
  handler is `TimerFire`, `TimerUnlink` and `TimerKill`; `xfrm_lookup` is
  `LookupBegin`, `LookupRestart`, `LookupResolve`, `LookupWake` (the return
  from `schedule` on `km_waitq`), `LookupDead` (the `dead` flags read under
  the read locks) and `LookupEnlist` (the write lock and the list of
  bundles). What a call remembers across a cut (the policies it holds, the
  generation it read, `pol_dead`) is in the record of its task. The calls of
  the key managers exclude each other, as `xfrm_cfg_mutex` has it.
* `k.oops` names the first rule of the file's own that a step broke: the
  `BUG_ON`s of `__xfrm_policy_destroy` (`destroy_alive`, `destroy_bundles`,
  `destroy_timer`), the `BUG` of `xfrm_policy_kill` for a policy killed twice
  (`killed_twice`), a pointer to freed memory followed (`uaf`), and a
  reference that `xfrm_lookup` holds and returns without putting
  (`pol_leak`, `state_leak`). Nothing runs after it (`Running` guards every
  action, `Halted` stutters): the properties are about what the code does
  until its own rules are broken, and each rule is a property of its own.
* The timer wheel, `atomic_t`, the states and the per-family code are outside
  the file and written from their contract: `mod_timer` and `del_timer`
  answer whether the timer was pending, a timer fires when `now` has reached
  its expiry, `xfrm_state_find` has for each template a valid state, a
  larval one, none, an error, or a key manager that was asked (`Answers`),
  and `bundle_create` of the family uses a free entry of `k.dst` or fails.
  `BundleGoesStale` stands for whatever makes `xfrm_bundle_ok` say no.
* The flow cache (`flow_cache_lookup`, outside the file) is a cache that
  always misses: every lookup calls the resolver `xfrm_policy_lookup`. What a
  stale entry of the cache would do is not in the model.
* Time is `now`, in seconds; `HZ` is 1. `Tick` is not taken while a call of a
  key manager is between two of its steps unless `Stall` is set: a
  configuration call lasts less than a second.
* A step that can fail is in `Faults`: the allocation of a policy, the dump
  of a walk, `bundle_create`, `clone_policy`, `xfrm_decode_session`. At most
  one step of a call fails.
* `out` holds what the last step returned to its caller. Only the action
  properties read it (through `out'`), and the configurations leave it out
  of the state by a `VIEW`. The views also take the times of a policy without
  a limit for zero (they are written and never read), and `DbView` takes
  `flow_cache_genid` for zero in the instance that has no lookups: two states
  that the view identifies have the same successors up to the view.

### 2.13 XfrmBundle

* `k` has the table of families, `k.type_map` and `k.mode_map` (the maps an
  afinfo object carries), `k.mod` (each module: `out`, `live` or `going`, and
  its reference count), `k.x` (the states, each with its type, its mode, its
  generation and its packet count), one bundle (`k.xd`, the chain of
  `xfrm_dst` entries from the one a packet enters at; `k.path`, `k.bst`,
  `k.users`), `k.route` (the MTU of each route and whether it is obsolete)
  and `k.dev` (each device with the references held on it).
* `xfrm_get_type` and `xfrm_get_mode` are two steps where the code calls
  `request_module`: `StateInit` (the first pass, and the rest of the
  initialisation of the state when that is enough), `TypeRetry` and
  `ModeRetry` (the second pass, with `modload_attempted` set). Between them
  modules are loaded and unloaded: `ModuleInit` registers what the module
  owns, `ModuleExitBegin` is the point from which `try_module_get` fails,
  `ModuleExitEnd` the exit function that unregisters.
* `Kinds` says for each slot of `k.x` what the state in it is: its protocol,
  mode, family, selector, header length and packet limit. The life of a
  state (`StateDelete`, `StateBump`, expiry) is `xfrm_state.c` and written
  from its contract, as are `xfrm_state_mtu`, the making of the chain
  (`BundleCreate`, after `__xfrm4_bundle_create`) and `dst_ifdown`.
* `xfrm_bundle_ok` is its two loops, `OkScan` (down the chain: the tests, and
  the caches of child and route MTU brought up to date, `last` remembered)
  and `Remetric` (from `last` upwards: the MTU of each entry recomputed and
  clamped). `BundleOk` calls it for any flow and strictness.
* `xfrm_output` is one pass of its loop per step (`OutputEnter` with the
  checksum, `OutputNext`), with the lock of the state held for the pass; a
  packet leaves the loop at a tunnel, at the route or with an error (`Drop`).
  The error of lines 79-82, `-EHOSTUNREACH` when `dst_pop` finds no child, is
  in the action; `BundleCreate` ends every chain in a route and a bundle with
  a packet on it is not destroyed, so no behaviour of the model takes it.
* Generations are `GenBits` wide and wrap. `KernelView` counts the generation
  of a state relative to the one its entry of the bundle remembers, which is
  all `xfrm_bundle_ok` compares.

### 2.14 DatTable

* `hash` says whether `dat.hash` exists. `mem[e]` is the memory at address
  `e`: `state` (`free`, `live`, or `rcu` once `kfree_rcu` has it), the
  address `ip`, `last_update`, `refcount`, `listed` (on the list of its
  bucket) and `wait` (the CPUs whose read-side section the grace period
  waits for). `work` is the delayed work: `off`, `queued` with the jiffy it
  is due at, or `running` at bucket `i`. `orig[o]` has for each originator
  whether it is in `orig_hash` and its reference count. `cpu[c]` is the
  snooping function CPU `c` runs: what it still has to do (`todo`, a
  sequence of `add`, `find` and `send` of an address), where it is in the
  first of them (`pc`), the entry it looks at (`cur`) and holds
  (`dat_entry`), and the candidate array (`res`, `last_max`).
* `batadv_hash_dat` is the hash of the code, bit by bit, on `uint32_t` kept
  as two halves of 16 bits (`Add32`, `Shl32`, `Shr32`, `Xor32`, `Mod32`),
  because the integers of TLC have 32 bits with a sign. `BucketOf` and
  `KeyOf` are its values for the addresses of the instance.
* A packet (`Skbs`) is what `batadv_arp_get_type` reads of it. Each of the
  five snooping functions is an action that classifies the packet and
  returns, or sets `todo` to the calls the function goes on to make.
* `batadv_dat_entry_hash_find` is two steps, `FindPick` (the walk of the
  bucket stops at an entry with the address, inside `rcu_read_lock`) and
  `FindRef` (`atomic_inc_not_zero`, `rcu_read_unlock`), so that the purge
  and the other CPU run between them. `batadv_dat_entry_add` is the lookup
  followed by `AddUpdate` or `AddInsert`; `AddInsert` has the failure of
  `kmalloc` and the three answers of `batadv_hash_add`. The ends of the
  functions that look an address up (`OutgoingRequestEnd`,
  `IncomingRequestEnd`, `DropEnd`) put the entry (`PutEntry`).
* `batadv_dat_purge` is one bucket a step. `Tick` is a jiffy; it is not
  taken while the work is due or running, which says that the worker gets
  the CPU within a jiffy of its timer. `Reclaim` is the end of a grace
  period.
* The selection exists twice. `batadv_choose_next_candidate` and
  `batadv_dat_select_candidates` are operators on a table (the sequence of
  originators as a walk meets them), with `batadv_is_orig_node_eligible` as
  the predicate of the code; `SelectionLaw` runs them on every table of up
  to `LawNodes` originators. In the state machine `SelectBegin` is the
  allocation of the array, `ChooseNext` one walk on `orig_hash` as it is at
  that moment (`Table`), and `SendData` the loop that lets the candidates
  go; `OrigAdd` and `OrigPurge` change `orig_hash` between the walks. A walk
  is atomic: the code takes and drops `rcu_read_lock` per bucket, and what
  differs within one walk is again a table that another order of the events
  gives as a whole.
* A slot with no candidate has its `orig_node` as `kmalloc` left it, and the
  loop at lines 426-428 compares it all the same. `ChooseNext` takes any set
  of originators, at most one per such slot, for these values (`junk`).
* The read through the null `max_orig_node` (`ReadsNull`) sets `oops`, and
  the model stops there (`Halted`), as in `XfrmPolicy`.
* The MAC address of an entry is not in the model: nothing in the file
  depends on its value.

## 3. Runs

| Run | Module, cfg | Checks | Result |
|---|---|---|---|
| `rx_loss` | `MCRxHist`, `MCRxHist.cfg` | `TrackedInOrder`, `GapBehindPending`, `LossConfirmedByThree`, `NoHoleSkipped`, `ImplementsLossDetector` | pass, 56 724 states |
| `rx_rtt` | `MCRxHist`, `MCRxHistRtt.cfg` | `CandidateSuitable` | pass, 100 125 states |
| `input_states` | `MCDccpInput`, `MCDccpInput.cfg` | `SkbOwnedOnce`, `SyncNeverAnsweredBySync` | pass, 76 694 states |
| `options` | `MCDccpOptions`, `MCDccpOptions.cfg` | `ValuesRoundTrip`, `BuiltAreaAccepted`, `ParserInBounds`, `EchoKeptUntilSent` | pass, 228 444 states |
| `caif` | `MCCfCnfg`, `MCCfCnfg.cfg` | `ChannelsMatchClients`, `AnswerIsWhatWasAsked`, `PhyUsefulWhileUsed`, `AskedIsAnswered` | pass, 280 564 states |
| `rfkill` | `MCRfkillInput`, `MCRfkillInput.cfg` | `QuietRadioIsDesired`, `AcceptedEventsSpaced`, `AcceptedEventIsRead` | pass, 651 672 states |
| `rds` | `MCRdsIbSend`, `MCRdsIbSend.cfg` | `CreditsBacked`, `RingAccounted`, `TransportRefsBalanced`, `EveryMessagePosted` | pass, 293 225 states |
| `sched` | `MCSchApi`, `MCSchApi.cfg` | `CountsAreHolders`, `NoLoops`, `HandlesUnique` | pass, 29 862 states |
| `xfrm_db` | `MCXfrmPolicy`, `MCXfrmPolicy.cfg` | `RefsAreHolders`, `RulesKept`, `ListsOrdered`, `CheckSound` | pass, 351 504 states |
| `xfrm_lookup` | `MCXfrmPolicy`, `MCXfrmLookup.cfg` | `RefsAreHolders`, `BundlesAccounted`, `SocketsOwn` | pass, 305 960 states |
| `xfrm_bundle` | `MCXfrmBundle`, `MCXfrmBundle.cfg` | `CodeStaysLoaded`, `MtuCoherent`, `DevicesLetGo` | pass, 478 448 states |
| `dat` | `MCDatTable`, `MCDatTable.cfg` | `ReferencesHeld`, `ReadersSeeMemory`, `ListedAreYoung`, `SelectionClosest` | pass, 531 180 states |

Between them the runs take every action and every disjunct of the next-state
relations. Each module also defines a type invariant `TypeOK`, which says
what the values of its variables are. It holds in every instance of the
table; the listed configurations leave it out and are spent on the
properties above, and `MCSeqArith.cfg` checks the one of `SeqArithLaws`. Properties that
the code does not keep are checked by the configurations of section 3.4 and
reported in section 3.2.

### 3.1 What the passing runs show

`rx_loss`. Under the contract the code states for itself (no packet older than
the anchor), for every order of arrival:

* `TrackedInOrder`: anchor and pending entries are strictly increasing.
* `GapBehindPending`: the comment of `__three_after_loss` ("the distance
  between S0 and S1 is always greater than 1 and the NDP count of S1 is smaller
  than this distance") holds whenever a gap is pending.
* `LossConfirmedByThree`: the loss interval database is called with four sorted
  entries and a hole behind the first in which nothing was delivered.
* `NoHoleSkipped` (action property): a number the anchor passes is the number
  of a known packet, or is accounted for by an NDP count, or belongs to the hole
  reported in the same call.
* `ImplementsLossDetector` (refinement): every behaviour of the ring is a
  behaviour of `LossDetector`; the code keeps the same anchor and the same
  waiting packets as the set-based rule and reports the same holes at the same
  steps.

`rx_rtt`. On a connection without loss, for every sequence of window counters
and every spacing in time: a stored candidate is 1 to 3 windows ahead of the
reference and not older than it, so the division `4 / ratio` is defined
(`CandidateSuitable`).

`input_states`. One socket as client, server child or listener against every
packet of the ten types with numbers round the windows and across the wrap:

* `SkbOwnedOnce`: every packet ends in exactly one place, on the receive queue
  or freed, on every return path of the three nested functions.
* `SyncNeverAnsweredBySync`: Step 5 moves the window so that a Sync passes
  Step 6; two ends never answer each other's Syncs for ever.

`options`. Two sockets, one sending Requests, Data and DataAcks, the other
Acks, with room for 16 bytes of options:

* `ValuesRoundTrip`: the values of variable length survive the option area.
  The NDP count a receiver reads from a packet it accepts is the number of
  non-data packets its sender sent since its last data packet, at 255, 256
  and 257 (the step from one to two bytes), whatever else is in the area
  (`NdpRoundTrip`); the timestamp echo read is the timestamp the sender last
  took from this socket, and the elapsed time read with it is the time the
  sender held it (0, 2 or 4 bytes: 10 us, 655 360 us = 65 536 units and
  655 370 us), or a longer time the CCID reports (`EchoRoundTrip`).
* `BuiltAreaAccepted`: the area of every packet on the wire has the length
  `dccpd_opt_len` says, a multiple of 4, at most `DCCP_MAX_OPT_LEN`, holds whole
  options only, and the peer's parser accepts it, unless it holds a Confirm
  without a value (section 3.4).
* `ParserInBounds`: whatever bytes arrive, no read goes past `opt_end`, and an
  accepted area is a sequence of whole options.
* `EchoKeptUntilSent` (action property): `dccps_timestamp_echo` is cleared only
  by a packet that carries the echo; a timestamp that found no room (the ack
  vector took it) is echoed by a later packet.

`caif`. Two clients, one interface (of two table entries), a modem that
answers in any order or a loopback, 2-bit link ids, at most 3 packets under
way, and a failure of one step in the enumeration, sleep and interface calls:

* `ChannelsMatchClients`: every service layer of the multiplexer has a link id
  of its own and the client on top of it holds that link id; a request in
  `first_req` is of a client that waits for exactly that answer. This is what
  matching by content has to deliver when two clients ask for the same
  parameters and the responses arrive in any order.
* `AnswerIsWhatWasAsked`: the channel a client gets is of the link type and on
  the interface it asked for.
* `PhyUsefulWhileUsed`: `phy_ref_count` is the number of channels in use on the
  interface, and the interface was last told `USEFULL` exactly when there is
  one.
* `AskedIsAnswered` (liveness): a client that asked for a channel is told that
  it is up or that it failed.

`rfkill`. One radio type with a key, the switch, two CPUs, one input device,
3-bit jiffies and a debounce time of 2 ticks:

* `QuietRadioIsDesired`: when no event is unread and no handler of the type is
  between its read and the end of `rfkill_switch_all`, a radio that the task
  handler set last is in the desired state. Two handlers of one type on two
  CPUs are serialised by the mutex; without it the one that read the older
  state can switch last.
* `AcceptedEventsSpaced` (action property): two accepted events of a type are
  more than the debounce time apart, for every value of `jiffies` and across
  its wrap.
* `AcceptedEventIsRead` (liveness): the state an accepted event asked for is
  read by a handler, although `schedule_work` does nothing when the work is
  pending and the worker may be waiting for the mutex.

`rds`. The send thread, the acknowledgement, the completion handler, the
adapter and the peer in every interleaving, with a post that may fail and a
connection that is shut down and comes up again:

* `CreditsBacked`: the send credits in `i_credits`, the credits a call of
  `rds_ib_xmit` holds and the SENDs posted are together no more than the
  buffers the peer has posted. The read and the `atomic_cmpxchg` of the send
  thread and of the acknowledgement are separate steps, with the `atomic_add`
  of the receive path between them.
* `RingAccounted`: the entries in use are those executed and not yet given
  back, those posted (at consecutive positions from the oldest) and those the
  running call holds; the allocation pointer is where the free pointer and that
  number put it. The unalloc of a call that got fewer credits than entries, of
  a call that built fewer requests than it had entries, and of a failed post
  all keep it.
* `TransportRefsBalanced`: a message has one reference of the transport while
  it is `i_rm` or in the `s_rm` of exactly one entry, and none otherwise; the
  completion handler, the failed post and `rds_ib_send_clear_ring` release each
  message once.
* `EveryMessagePosted` (liveness): a message the core has started to send
  leaves the send path, by its last fragment being posted or by a shutdown. The
  two ends never wait for each other's credits and a full ring is freed.

`sched`. Requests of every kind in every order on one device, which goes up
and down between them, with `htb` (classful) built in and `tbf` (shaping) a
module that is loaded and unloaded, one request that may wait for its module,
and one step of a request that may fail:

* `CountsAreHolders`: the reference count of a qdisc is the number of places
  it is attached to (the transmit queue, the receive queue, the classes), a
  module has one reference for each qdisc of its kind, the device one for each
  qdisc, a rate table one for each qdisc that shapes with it, and
  `qdisc_list` holds the qdiscs that live. It holds over the `atomic_inc`
  before a graft and the `qdisc_destroy` after a failed one, over the three
  error labels of `qdisc_create`, and over a class that is deleted with a
  tree below it.
* `NoLoops`: no qdisc is below itself. `check_loop` refuses the graft of a
  qdisc under a class of its own subtree.
* `HandlesUnique`: no two qdiscs of the device have the same handle, given or
  automatic, also when the handle a waiting request asked for was taken
  while it waited: the replay looks it up again.

`xfrm_db`. One key manager and one task that checks packets, three policies
of which two have the same selector and one lives for a second, inbound
policies, a family that registers and unregisters, two seconds of time:

* `RefsAreHolders`: the reference count of a policy is the number of its
  holders (the list or the gc list it is on, its pending timer, its running
  timer handler, the calls in progress), on every path of insertion,
  deletion, flush, timer and collection and in every interleaving of them.
  In particular `mod_timer` answers "was not pending" to the handler that
  is running, and the handler takes the reference of the timer it starts
  again.
* `RulesKept`: the `BUG_ON`s of `__xfrm_policy_destroy` for a policy that is
  alive or has a timer pending and the `BUG` of `xfrm_policy_kill` never
  fire, and no pointer to a freed policy is followed: a policy is killed by
  exactly one of the insert that replaces it, the delete, the flush and its
  timer, whichever unlinks it.
* `ListsOrdered`: a list is in the order `xfrm_policy_insert` keeps:
  priorities do not decrease, no two policies have the same selector and
  context, none the same index (also when `idx_generator` has wrapped), and
  the index names the direction.
* `CheckSound` (action property): `__xfrm_policy_check` lets a packet in only
  when the path of states it came through is one the templates of its
  policies ask for (a state of its own for each template that is not
  optional, in order, and no tunnel that no template asks for), and a packet
  without policy only when it came through no tunnel. The reference
  definition `Accepts` quantifies over all assignments of templates to
  states; the code walks the templates once.

`xfrm_lookup`. One key manager and one task that sends packets and sets socket
policies, a sub policy and a main policy for the same flow, two sockets of
which one is cloned from the other, one bundle, every answer of
`xfrm_state_find` and a failing `bundle_create` or `clone_policy`:

* `RefsAreHolders`: as above, for the references `xfrm_lookup` takes and puts
  across its locks, its sleep and its restarts, for the policies of sockets
  and for their clones, up to the two exits of section 3.2.
* `BundlesAccounted`: a bundle is on the list of at most one policy, once, and
  live while it is there; a bundle that was destroyed has no user. The gc
  task, the sweep of `xfrm_policy_insert`, `xfrm_prune_bundles` and a lookup
  that enlists a bundle work on the same lists.
* `SocketsOwn`: the list of socket policies holds the policies the sockets
  point at, each the policy of one socket and none dead; a cloned socket has
  copies, so the socket that is freed first does not kill the policy of the
  other.

`xfrm_bundle`. IPv4 with `esp4` and the tunnel mode as modules and the
transport mode built in, a type of a family that is not registered, a bundle
of one or two states over two routes, two devices, one task:

* `CodeStaysLoaded`: every state of a bundle has its type and its mode, the
  module of a type or mode that a state has is loaded, and a module is held
  once by each state that uses it and by nobody when `rmmod` has begun. This
  is what `xfrm_output` relies on when it calls `x->mode->output` and
  `x->type->output`.
* `MtuCoherent` (action property): when the MTUs of a bundle follow from its
  caches and `xfrm_bundle_ok` calls it good, every entry has the MTU that
  `xfrm_init_pmtu` would give it now, whatever the routes went through since.
* `DevicesLetGo` (action property): a device is held once by each entry of
  the bundle that is on it, and after `unregister_netdevice` a bundle that
  was freed and is still used by a packet holds the loopback device only.

`dat`. Two CPUs, of which one also runs the transmit path, two addresses in
different buckets, memory for two entries, two originators that come and go,
the purge work and a clock that starts two jiffies before its wrap:

* `ReferencesHeld`: the count of an entry is one for the table and one for
  each function that holds it, and an entry is live exactly while its count
  is above 0; the count of an originator is one for `orig_hash` and one for
  each candidate array that names it. This holds through two CPUs that find
  nothing and both insert, an insert into a table that does not exist, an
  update of an entry the purge has just unlinked, and a selection whose
  table changes between the walks.
* `ReadersSeeMemory`: what a lookup looks at inside its read-side section,
  and what it returns, is an entry of the address asked for and never memory
  that was freed or given out again, although the worker and the other CPU
  may drop the last reference while it looks.
* `ListedAreYoung`: no entry of the table is older than the timeout and one
  period of the purge, across the wrap of `jiffies` and with updates falling
  between the buckets of one purge. Entries older than the timeout are
  answered from (a lookup does not test the age); this is the bound on how
  old.
* `SelectionClosest`: on every table of up to four originators and for every
  key, the three walks that come to an end return the three originators
  nearest to the key on the ring, nearest first, each once, and `NOT_FOUND`
  in the slots for which there is no originator; and so does every call of
  `batadv_dat_send_data` of the state machine during which `orig_hash` did
  not change. The walks that do not come to an end are those of section 3.2: the
  run reaches them, the model stops there, and the four properties are about
  every behaviour up to that point.

Two behaviours that the run reaches and no property forbids, because the file
does not say otherwise: `batadv_dat_entry_add` refreshes an entry that the
purge has unlinked between the lookup and the update, so the binding is not
in the table after it was seen (the next ARP message adds it again); and a
selection whose table changed between the walks may name an originator that
is not among the three nearest of any one table.

### 3.2 What the code does not keep

Nine properties state what a comment, an assertion or `spec.md` says of the
code, and TLC finds a behaviour of the code that violates each. They are the
findings of `PROJECT.json`; the configurations are in section 3.4.

`TrackedInOrder` with `MCRxHistStale.cfg` (`packet_history.c:183`).
`tfrc_rx_hist_duplicate` compares
the `u64` result of `dccp_delta_seqno` with `<= 0`, which is true only for
equality. A packet behind the anchor is not a duplicate for the code, although
the comments and `spec.md` 4.2 say so. Trace: 29 arrives, 32 opens a gap, 30
becomes the anchor, a second copy of 29 is inserted behind the anchor 30.

`SamplerFaultImpossible` with `MCRxHistFault.cfg` (`packet_history.c:499`).
After a gap has been
opened and filled, `loss_start` is left at 2 in a ring whose entry 2 was never a
candidate. The next in-order packet with the window counter of `ring[0]` takes
the branch commented "in principle not possible". The cause is the shared
bit-field.

`SendHeadHeld` with `MCDccpInputTrap.cfg` (`input.c:278`).
`dccp_rcv_request_sent_state_process` stops the REQUEST timer and frees `sk_send_head` before it tests the
acknowledgement number of the Response. A Response with an acknowledgement
number outside the window leaves the socket in REQUESTING without a Request
and without a timer; the next one trips `BUG_TRAP(sk->sk_send_head != NULL)`.

`PoliciesPut` with `MCXfrmLookupLeaks.cfg` (`xfrm_policy.c:1021`). With
`CONFIG_XFRM_SUB_POLICY`, `xfrm_lookup` finds a sub policy that lets the flow
pass and then the main policy, which it holds in `pols[1]`. When the main
policy blocks, the code jumps to `error` before `npols` counts it, and
`xfrm_pols_put(pols, npols)` puts `pols[0]` only. Trace of 6 states: a sub
policy and a blocking main policy are inserted, a packet is looked up.

`StatesPut` with `MCXfrmLookupLeaks.cfg` (`xfrm_policy.c:1064`). After the
sleep on `km_waitq` the second `xfrm_tmpl_resolve` succeeds and holds its
states; when `flow_cache_genid` has changed meanwhile the code puts the
policies and starts again without `xfrm_state_put`, which the failure path of
`xfrm_bundle_create` (line 1085) shows to be the caller's duty. Trace of 7
states: a lookup reads the generation and finds a policy, the policy is
replaced, the lookup sleeps for the key manager, wakes and resolves.

`DeadHasNoBundles` with `MCXfrmLookupLeaks.cfg` (`xfrm_policy.c:1097`). The
`dead` flags are read under the read lock of each policy (lines 1090-1094) and
used under the write lock taken after it (line 1096). A policy that is killed
and collected between the two gets the bundle, against the comment ("we just
cannot enlist new bundle to dead object"), and `__xfrm_policy_destroy` meets
`BUG_ON(policy->bundles)` when the lookup puts the policy. Trace of 10
states: the lookup has made its bundle and read `dead`, the insert that
replaced the policy kills it, the gc task collects it, the lookup enlists.

`MtuFresh` with `MCXfrmBundleFresh.cfg` (`xfrm_policy.c:1539`).
`xfrm_bundle_ok` writes the new MTU of child and route into the caches of an
entry as it passes it. A call that returns 0 at a deeper entry for a reason
of its flow (selector, address) skips the second loop, and the next call, for
a flow the bundle fits, finds the caches equal to the routes and returns 1
with the old MTU. Trace of 9 states. `MtuCoherent` of `xfrm_bundle` is the
same statement for a bundle whose MTUs followed from its caches before the
call, which holds.

`SelectionNeverFaults` with `MCDatTableFault.cfg`
(`distributed-arp-table.c:443`). A walk of `batadv_choose_next_candidate`
starts with `max = 0` and `max_orig_node = NULL`. The distance of an
originator is `tmp_max = BATADV_DAT_ADDR_MAX - dat_addr + ip_key` in 16 bits,
which is 0 for the originator whose DHT address is the key minus one. When a
walk meets that originator before it has taken another, the first three
tests of `batadv_is_orig_node_eligible` pass, `tmp_max == max`, and
`batadv_compare_eth(candidate->orig, max_orig_node->orig)` reads through the
null pointer. Once the other originators are in the candidate array this is
certain, so a mesh of at most three originators of which one has that
address is enough. Trace of 9 states: the table is made, an originator with DHT
address 0 is heard of, an ARP reply for an address with key 1 is snooped and
its first walk reads `max_orig_node->orig`.

`CollisionChoosesLowest` with the constants of `MCDatTableFault.cfg`
(`distributed-arp-table.c:443`). The comment says of two originators with the
same DHT address "Choose the one with the lowest address".
`batadv_compare_eth` tests equality, so `> 0` is true only when the candidate
is the originator already held, and of two different originators the one the
walk meets later replaces the earlier. The order of a walk is the order of
the bucket lists of `orig_hash`, which differs from node to node: two nodes
can store and look for one key at different originators when more than three
share the nearest addresses. TLC evaluates the property to false on the
tables of `SelectionLaw`.

In `XfrmPolicy` each of the three is a rule that `k.oops` records, and the
model stops at it: the properties of `xfrm_db` and `xfrm_lookup` hold of every
behaviour up to the first broken rule, and say nothing of what follows it.

### 3.3 Mutants

Every property of a passing run has a mutant in `PROJECT.json`: a changed form
of a mapped definition (a dropped guard, a threshold off by one, a missing
reset, a lock not taken) under which TLC finds the property violated with the
same configuration. The mutants are defined in the modules, in front of the
definitions they replace.

### 3.4 Further configurations

These configurations are kept beside the listed runs. Each one checks a single
property that the code violates, a wider instance, a component whose
properties are not among those of the listed runs, or the laws of an
arithmetic the other modules build on. Where a row names the constants of a
configuration, the property is checked with a copy of that file in which the
`INVARIANT` and `PROPERTY` lines are replaced by the one named.

| cfg (module) | Property | What TLC finds |
|---|---|---|
| `MCSeqArith.cfg` (`MCSeqArith`) | `TypeOK`, `HalfSpaceOrder`, `DeltaLaws` | holds, 4 096 states: on every triple of a 4-bit sequence space in a 6-bit register the shift-and-sign operators of `dccp.h` agree with modular arithmetic; `before48` is "1 to 2^47 ahead" (at the antipodal distance both `before48` and `after48` hold), and `dccp_delta_seqno` is exact as an `int` up to 2^31 |
| `MCTxHist.cfg` (`MCTxHist`) | `ChainOwnsMemory`, `AckedStaysOldest` | holds, 17 065 states: after any mix of sends, failed allocations, look-ups and purges the chain from `head` visits every allocated entry exactly once and no pointer leads to a freed one; a look-up of a number on the chain answers with the age of its entry, truncated to 32 bits, and leaves it as the last entry |
| `MCRxHist.cfg` with `INVARIANT ReadsInitialised` | `ReadsInitialised` | holds: the anchor, the pending entries and `ring[0]` are written entries, although the swaps move a never-written entry round the ring |
| `MCDccpInput.cfg` with `INVARIANT GarWithinSent` | `GarWithinSent` | holds: GAR always acknowledges a packet this socket has sent |
| `MCRxHistStale.cfg` (`MCRxHist`) | `TrackedInOrder` | `packet_history.c:183`: with packets behind the anchor allowed to arrive, a copy of an old packet is inserted behind the anchor (section 3.2) |
| `MCRxHistFault.cfg` (`MCRxHist`) | `SamplerFaultImpossible` | `packet_history.c:499`: the branch commented "in principle not possible" is taken (section 3.2) |
| constants of `MCRxHist.cfg` (`MCRxHist`) | `PendingGapLostData` | `packet_history.c:213`: a packet behind a hole of two with an NDP count of 2 is treated as a loss; the code compares the NDP count with the distance, not with the size of the hole (`spec.md` 4.2, RFC 4340 7.7) |
| constants of `MCRxHistRtt.cfg` (`MCRxHist`) | `CandidateUsedWhenAmbiguous` as a `PROPERTY` | `packet_history.c:510`: `spec.md` 4.3 has the stored candidate used when a packet 1 to 3 windows ahead arrives; the code stores that packet as the new candidate and returns no sample |
| constants of `MCDccpInputTrap.cfg` (`MCDccpInput`) | `GsrNeverMovesBack` as a `PROPERTY` | `dccp.h:347`: `dccp_update_gsr` stores the number of every valid packet; a reordered packet inside the window moves GSR, and the window, back |
| constants of `MCDccpInputTrap.cfg` (`MCDccpInput`) | `ResetInRequestAcksRequest` as a `PROPERTY` | `input.c:496`: a Reset is obeyed in REQUESTING before its acknowledgement number is tested |
| `MCDccpInputTrap.cfg` (`MCDccpInput`) | `SendHeadHeld` | `input.c:278`: a second Response with a bad acknowledgement number finds `sk_send_head` NULL (section 3.2) |
| `MCDccpOptionsConfirm.cfg` (`MCDccpOptions`) | `EveryBuiltAreaAccepted` | `options.c:142`: a failed feature change is answered with an empty Confirm (comments at `:131` and `:506`), which `dccp_parse_options` of the peer refuses with `len < 2`, and the connection is reset |
| `MCCfCnfgCareless.cfg` (`MCCfCnfg`) | `ChannelsMatchClients` | `cfcnfg.c:203`, `:385`: with `Careful = FALSE` a client gives up while its request waits; `cfcnfg_del_adapt_layer` returns `-ENOTCONN`, the request stays in the list and the late response sets up a channel for a client that has gone |
| `MCCfCnfgServl.cfg` (`MCCfCnfg`) | `PhyUsefulWhileUsed` | `cfcnfg.c:377`, `:410`: the allocation of the service layer fails after `phy_ref_count` was counted up and `USEFULL` was sent; nothing counts it down |
| `MCCfCnfgLost.cfg` (`MCCfCnfg`) | `AskedIsAnswered` | `cfctrl.c:251`, `:301`, `:312`: `cfctrl_linkup_request` returns `void`; when an allocation or the transmit fails nothing is sent, `cfcnfg_add_adaptation_layer` returns 0 and the client waits for ever |
| `MCRdsIbSendRemAccess.cfg` (`MCRdsIbSend`) | `NeverUnmapsNull` | `ib_send.c:257`: the adapter reports `IB_WC_REM_ACCESS_ERR` for an RDMA request; the handler finds the message of `s_op` and calls `rds_ib_send_unmap_rm` for the entry, whose `s_rm` is NULL (an RDMA entry has none, and the switch above has cleared any other); `rds_ib_send_unmap_rm` reads `rm->data.op_sg` through it |
| `MCRdsIbSendMapFail.cfg` (`MCRdsIbSend`) | `AdvertisedCreditsSent` | `ib_send.c:522`, `:695`: a packet of the peer leaves posted credits in `i_credits`; the first `rds_ib_send_grab_credits` takes them with its send credits, `ib_dma_map_sg` fails, and the call returns through `BUG_ON(adv_credits)` |
| `MCRdsIbSendAtomic.cfg` (`MCRdsIbSend`) | `TransportRefsBalanced` | `ib_send.c:750`: for a message that is an atomic operation alone `rds_ib_xmit_atomic` stores the message in `s_rm` without `rds_message_addref`; the completion puts a reference the transport did not take. Whether the core holds one for it is outside `src/` |
| `MCSchApiIngress.cfg` (`MCSchApi`) | `RefsAreAttachments` | `sch_api.c:469`: a request that replaces the ingress qdisc (`CREATE`, `REPLACE` and `EXCL` with no handle, or another kind) reaches `dev_graft_qdisc`, which finds the old qdisc with one reference, takes the branch meant for a delete and sets `rx_queue.qdisc` to NULL; the new qdisc stays on `qdisc_list` with its reference and is attached nowhere |
| `MCSchApiLocks.cfg` (`MCSchApi`) | `LocksPaired` | `sch_api.c:780`-`784`: `tc_get_qdisc` calls `spin_unlock_bh(root_lock)` before `qdisc_destroy` and again after it and never takes the lock; `tc_modify_qdisc` (`:942`) takes and releases it round the same call |
| `MCXfrmSock.cfg` (`MCXfrmPolicy`) | `RefsAreHolders`, `RulesKept`, `SocketsOwn`, `CheckSound` | holds, 46 092 states: no key manager, two sockets with inbound and outbound policies that are set, replaced, cloned and freed while packets for them are checked |
| `MCXfrmLookupLeaks.cfg` (`MCXfrmPolicy`) | `PoliciesPut`, `StatesPut`, `DeadHasNoBundles` | `xfrm_policy.c:1021`, `:1064`, `:1097`: each is violated with the constants of `xfrm_lookup` (section 3.2) |
| `MCXfrmBundleFresh.cfg` (`MCXfrmBundle`) | `MtuFresh` | `xfrm_policy.c:1539`: violated with the constants of `xfrm_bundle` (section 3.2) |
| `MCDatTableFault.cfg` (`MCDatTable`) | `SelectionNeverFaults` | `distributed-arp-table.c:443`: violated with the constants of `dat` (section 3.2) |
| constants of `MCDatTableFault.cfg` (`MCDatTable`) | `CollisionChoosesLowest` as an `INVARIANT` | `distributed-arp-table.c:443`: false on the tables of `SelectionLaw` (section 3.2) |

## 4. Bounds

| Constant | Value | Why it is enough |
|---|---|---|
| `SeqBits`, `PadBits` | 4, 2 (`MCSeqArith.cfg`); 5, 2 (receive, input); 3, 2 (send) | the whole space is enumerated; the wrap and the antipodal distance are inside it |
| `IntBits` | 3 (`MCSeqArith.cfg`), 5 (receive, input), 2 (send) | `MCSeqArith.cfg` has distances that do not fit an `int`; the passing receive runs keep the window inside `int`, as 2^31 does for real windows; the send run has ages that wrap `u32` |
| `InitSeq`, `Span` | 29, 8 (`rx_loss`) | numbers 29, 30, 31, 0, ..., 5: the wrap is crossed; nine numbers give room for a hole, three packets behind it, a second hole and the recycling of the ring |
| `Fwd`, `Back` | 3, 4 (`rx_loss`) | a packet may skip two numbers and arrive up to four behind the newest: every branch of the three `__after_loss` functions is reached |
| `NdpVals` | {0, 2} | 2 explains a distance of 2 and not of 3: both outcomes of every `n >= d` |
| `CCVals` | {0} (`rx_loss`), {0, 2, 4, 9} (`rx_rtt`) | differences 0, 2 (candidate), 4 (optimal), 5 and more (unsuitable) all occur |
| `MaxTime`, `SaneRttMax` | 3, 2 (`rx_rtt`) | samples below, at and above the clamp |
| `Ptrs`, `MaxSent`, `MaxTime` | 3 addresses, 5 packets, 4 ticks (`MCTxHist.cfg`) | the slab is exhausted, numbers wrap, and an age of 4 wraps the 2-bit `u32` to 0 |
| `W`, `ISS`, `ISR`, `MaxSent`, `Span` | 4, 31, 30, 2, 2 (`input_states`) | both initial numbers sit at the wrap of a 5-bit space; a window of 4 has W/4 = 1, so every window edge is one step from GSR or GSS; two packets sent let the acknowledgement window move |
| `Fwd`, `Back`, `AckFwd`, `AckBack` | 1 each (`input_states`) | arrivals below, at and above each edge of both windows |
| `DCCP_MAX_OPT_LEN` | 16 (128 in the code) | an ack vector of 9 bytes, the NDP count and a timestamp echo do not fit together: every "does not fit" return is taken |
| `NdpStart`, `MaxNdp` | {255}, 257 | the count crosses 255/256; three bytes are reached by a forged option |
| `Times`, `CcidTimes` | {10, 655 360, 655 370}, {7} | held times of 1, 65 536 and 65 537 units of 10 us: both thresholds of `dccp_elapsed_time_len`; a CCID time below the held time |
| `Forged`, `MaxForged` | 13 options (whole, or with a length their kind does not allow) followed by padding, a Mandatory or an NDP count, cut or padded to 4 and 8 bytes; 1 | each option kind whole and with a wrong length, cut at the end of the area, behind a Mandatory; one forged packet per behaviour is enough because the parser keeps no state between packets except the timestamp and the confirms |
| one packet on the wire | structural | `options.c` has no state that depends on packets in flight |
| `LinkBits` | 2 (8 in the code) | link ids 1..3; the loopback's search runs out of ids and wraps downwards |
| `MAX_PHY_LAYERS` | 2 (7 in the code) | one usable interface, added and removed again and again: `last_phyid` wraps at every addition |
| `Clients`, `Params` | 2 clients; VEI, and UTIL with `chtype` 1 | two equal requests pending at once, two different ones answered in the other order; the UTIL request takes the short-answer branch of `handle_loop` |
| `MaxDn` | 3 | an enumeration and a link-setup under way with a third packet; the responses of two clients overtake each other |
| `Faults` | the enumeration, sleep and interface steps | the failures the code survives; the others are in section 3.4 |
| `W_NR`, `MaxUnsig`, `MaxSge` | 3, 1, 1 (`rds`) | every second request is signalled, so one completion frees two entries and an executed entry waits in the ring; two fragments or two RDMA requests leave one entry, and the ring is found full and partly full |
| `RecvWr`, `AckAt`, `CreditBits`, `RDS_MAX_ADV_CREDIT` | 3, 2, 2, 3 (`rds`) | the threshold of `rds_ib_advertise_credits` (16 in the code) is below the number of buffers, as the credit scheme needs; a message of two fragments finds 3, 2, 1 and 0 credits, with and without posted credits beside them |
| `Kinds`, `MaxMsgs` | two fragments; an RDMA operation of two requests with an atomic operation and one fragment; 2 messages (`rds`) | all three calls of the core, a message sent in two calls of `rds_ib_xmit`, a message handed to the completion handler while the next is mapped |
| `MaxPeerPkts`, `AckReq` | 3, {FALSE} (`rds`) | the peer can spend all its credits on packets of its own, which is what mutual starvation takes; acknowledgements are asked for by the threshold |
| `FlowCtl`, `Faults` | {TRUE}, {"post"} (`rds`) | `ib_post_send` of `rds_ib_xmit` may fail, which is the one failure the function recovers from by itself; the others are in section 3.4 |
| `HBits` | 2 (16 in the code) (`sched`) | majors 1 and 2 and the major of `TC_H_ROOT` and `TC_H_INGRESS`; the only automatic handle is 2:0, so `qdisc_alloc_handle` wraps at every call and runs out of handles when 2:0 is taken |
| `Qids`, `Minors` | 3 qdiscs, 1 class each (`sched`) | a root, a leaf below its class and an ingress qdisc, or one being replaced by another while a third waits; the memory runs out. A loop needs two classful qdiscs, which there are; a chain of three, where `check_loop` has to descend to find the parent, needs a third major |
| `Kinds`, `Builtin`, `Classful`, `Rated` | `htb` built in and classful, `tbf` a module that needs a rate table (`sched`) | requests for `tbf` find the module missing, loaded, or unloaded again; two `tbf` share a table |
| `Requests` | 114 requests (`sched`) | `RTM_NEWQDISC` with each combination of flags the code tells apart, at the root, at the classes 1:1 and 2:1, without parent and at ingress, with the handles 0, 1:0 and 2:0; delete and get of each; class requests with handles 1:1, 2:1, :1 and 0. Left out of the listed run: the replacement of an ingress qdisc (section 3.4) and an egress qdisc with the handle of the ingress one |
| `Tasks`, `Faults` | 1 task; the six steps of section 2.10 (`sched`) | one request waits while every other request runs to its end; a second waiting request meets nothing the first does not |
| `Types`, `Cpus`, `Devs` | 1 type, 2 CPUs, 1 device | the five tasks share nothing but the EPO work; two CPUs are what it takes to run one work twice at once |
| `JBits`, `Debounce` | 3, 2 | jiffies wraps within a behaviour; `last + Debounce` crosses the wrap and the sign change of `time_after` |
| `Pols`, `Dsts` | 3 policies, 1 bundle (`xfrm_db`); 2, 1 (`xfrm_lookup`) | a policy, the policy that replaces it and a third behind them whose bundles are swept; memory that was freed is not given out again, so a run ends when the memory is used up |
| `CfgTasks`, `PktTasks` | one each (`xfrm_db`, `xfrm_lookup`) | the key managers exclude each other by `xfrm_cfg_mutex`, so a second one adds no interleaving; the timers, the gc task and the environment of the bundles run beside the two tasks |
| `Specs` | three policies: `{a}` at priority 1 with a hard limit of one second, `{a}` at priority 2, a block of `{a, b}` at priority 2 | a twin that replaces and one that is placed before or behind; a policy whose timer expires and one whose timer has nothing to do; as `MCSubSpecs` the first is a sub policy, so that a lookup holds two policies |
| `SecPaths` | seven paths of up to two states | transport and tunnel states, in and out of order, with a wrong address, with a selector that does not match: every return of `xfrm_policy_ok` and `secpath_has_nontransport` |
| `Dirs`, `Socks`, `SkSpecs` | in, no sockets (`xfrm_db`); out, 2 sockets, one socket policy (`xfrm_lookup`) | the check of packets and the lookup are separate instances; a socket and its clone |
| `IdxBits`, `IdxStart` | 5 (32 in the code), 24 | three indexes per direction for three policies, and a generator that earlier policies have left one step from its wrap: the first call takes 24 and wraps the generator, the second finds index 0 and takes 8, the third meets 8 on the list and goes on to 16 |
| `GenBits` | 1 (32 in the code) | a lookup that slept sees the generation changed, or wrapped round to what it was |
| `MaxTime`, `KmTimeout`, `MaxSchedTimeout`, `Stall` | 2 (1 in `xfrm_lookup`), 30, 1000, FALSE | a policy with a hard limit of one second expires within the run; one without a limit gets a timer that never fires |
| `MaxDstRefs` | 2 | a bundle used by a lookup that found it and one that made it |
| `Faults` (`XfrmPolicy`) | allocation, dump, `bundle_create`, clone, decode | every failure the functions test for |
| `Types`, `Modes`, `Modules` | ESP of IPv4 and of IPv6; transport (built in), tunnel and a mode with a number beyond `XFRM_MODE_MAX`; four modules (`xfrm_bundle`) | a type and a mode that come and go with their module, one that is always there, a type whose family is not registered (`-EAFNOSUPPORT`), and a mode `xfrm_register_mode` refuses |
| `States`, `Kinds` | 3: transport with a limit of one packet, tunnel, ESP of IPv6 (`xfrm_bundle`) | bundles of one and of two entries in both orders; a state that expires under a packet; a state that cannot be initialised |
| `Routes`, `Mtus`, `MinMtu` | 2 routes, MTU 2 or 5, least MTU 1 (`xfrm_bundle`) | with header lengths of 1 the MTU of an entry is set by its child or by its route, and is clamped at the minimum: both branches of every comparison of `xfrm_init_pmtu` and of `xfrm_bundle_ok` |
| `Devs`, `Tasks`, `Flows` | loopback and `eth0`; 1 task; flows `a` and `b` (`xfrm_bundle`) | a device to move to; a packet in the bundle while everything else happens; a flow the bundle fits and one it does not |
| `Cpus`, `Outgoing` | 2 CPUs, the transmit path on one (`dat`) | two lookups of one entry side by side with the worker, two inserts of one address; a second CPU on the transmit path makes the same calls as the first and takes the instance out of reach, so one selection runs at a time, against a table that changes |
| `Entries`, `HashSize` | 2 entries, 2 buckets (1024 in the code) (`dat`) | the memory is used up and given out again after a grace period; the two addresses fall into different buckets, so a purge has a step between them |
| `Skbs` | eight packets (`dat`) | a request, a reply and an opcode 3 from 10.0.0.1 for 10.0.0.9, and five that `batadv_arp_get_type` refuses, one for each group of its tests |
| `Origs`, `OrigOrder`, `OrigAddr` | 2 originators with the DHT addresses 0 and 3, met in this order (`dat`) | fewer originators than slots; for the key 0 both originators are candidates in every order of their coming and going, for the key 1 the first has the address of the key minus one, so that the read of section 3.2 is in the run and a selection for this key ends only while that originator is away |
| `AddrBits`, `Candidates`, `LawNodes` | 3 (16 in the code), 3, 4 (`dat`) | 2 801 tables of up to four originators with any of 7 addresses, for each of 7 keys: more originators than slots, equal addresses, the wrap of the ring |
| `JBits`, `INITIAL_JIFFIES`, `Timeout`, `Period` | 3, 6, 1, 1 (`dat`) | `jiffies` wraps two jiffies after the start, as it does five minutes after boot; an entry lives through one purge and is taken by the next; `Timeout + Period` is below half the range, as `time_after` needs |

`MCTxHist` and `MCDatTable` declare their memory addresses symmetric: no
action or property names one of them. `MCDatTable` has a `VIEW` that counts
`last_update` and the time the work is due relative to `jiffies` and leaves
`jiffies` out: no comparison of the code reads the clock but through these
differences. `rx_loss` has no `Tick` (time is irrelevant to loss detection and
would only multiply states); `rx_rtt` fires it.

## 5. Fairness and liveness

The packet history, the input path and the options never wait: every function
returns in bounded time and nothing is scheduled. Their specifications have no
fairness and their runs check safety only. Whether a pending gap is ever
resolved depends on the peer sending further packets, which the code cannot
guarantee. The same holds for `SchApi`: a request runs to its end, and
whether `request_module` returns is a matter of user space. `XfrmPolicy` and
`XfrmBundle` have no fairness either: what the policy database promises is
about references and lists, and whether a lookup that sleeps is ever woken is
up to the key manager. `DatTable` has none: a snooping function runs to its
end without waiting, the DHT promises nothing about an answer, and that the
purge work runs within a jiffy of its timer is in the guard of `Tick`.

`RfkillInput`: `\A c : WF(Start(c) \/ Read(c) \/ Switch(c) \/ Epo(c))` and
`SF(Lock(c))`. A worker thread is a kernel thread that runs whenever it has
something to do, and `rfkill_switch_all` returns: weak fairness of the steps
that are enabled until taken. `mutex_lock` is enabled only while the mutex is
free, and the mutex may be taken by the other CPU again and again: the kernel
mutex queues its waiters, which is strong fairness. Events, ticks and unload
have no fairness. Under it `AcceptedEventIsRead` holds.

`CfCnfg`: `WF(Recv)`, `WF(Loopback)` and `WF(ModemAnswer(1))`. The receive
path hands every packet it has to `cfctrl_recv`; the loopback returns what it
gets; the modem does not leave its oldest request without an answer (it may
answer later ones first). Clients and interfaces have no fairness. Under it
`AskedIsAnswered` holds, and it fails as soon as a packet can be lost on the
way down (`MCCfCnfgLost.cfg`): the code has no timer and no retry.

`RdsIbSend`: weak fairness of the steps of the send thread together
(`XmitStep`), of the acknowledgement (`AckStep`), of the completion handler, of
the adapter, of `PeerRefill` and `PeerUpdate`, and of `Shutdown` and `Connect`.
The core calls the transport again for a message it has left (a call that
returns -ENOMEM has set `RDS_LL_SEND_FULL`, on which the completion handler
and `rds_ib_send_add_credits` queue the send worker), a tasklet runs once its completion queue has
something, the adapter executes what is posted, the peer runs the same code,
and the connection worker shuts a failed connection down and connects again.
`Queue` and `PeerPacket` have no fairness. The loop round `atomic_cmpxchg` is
lock-free and not wait-free: a caller could be overtaken for ever by other
contexts that change the word. The model needs no fairness for that because
the traffic that changes the word is finite (`MaxMsgs`, `MaxPeerPkts`, and
credit updates only above the threshold); with a threshold of 1 the two ends
would answer each other's updates for ever (the "ACK storm" of the comment in
`rds_ib_advertise_credits`). Under this fairness `EveryMessagePosted` holds.

Deadlock is checked in every run but `rds`, and no model has a state without a
successor there. `rds` sets `CHECK_DEADLOCK FALSE`: a connection with nothing
to send and a peer that is silent is at rest, and that the send path never
stops with a message in hand is what `EveryMessagePosted` states. In
`XfrmPolicy` a state in which a rule of the file is broken (`k.oops`) has the
stuttering step `Halted` as its only successor, and so has a state of
`DatTable` in which the null pointer was read: the model ends there by
intent, and a call that could not go on in any other state would be reported.

## 6. Hazards

`PROJECT.json` lists, under `hazards`, what is hard to test in this code, each
at the line where it bites and with the properties that would catch it going
wrong. Where a property is named, the hazard's `note`, if it has one, says
which part of the hazard the property covers and which it does not. Six
hazards name no property of a listed run, because the code does not keep what
is stated of it at that place, or because the listed run keeps the case out:

* `packet_history.c:183` (a packet behind the anchor of the history):
  `TrackedInOrder` is violated once such packets arrive
  (`MCRxHistStale.cfg`); `rx_loss` has `StaleArrivals = FALSE`.
* `packet_history.c:245` (a distance truncated to `int`): `rx_loss` has
  `IntBits = SeqBits`; the truncation itself is `DeltaLaws` of
  `MCSeqArith.cfg`.
* `packet_history.h:84` (`loss_start` shared by the sampler and loss
  detection): `SamplerFaultImpossible` is violated (`MCRxHistFault.cfg`);
  `rx_rtt` opens no gap.
* `input.c:278` (the Request freed before the Response is validated): the
  property is `SendHeadHeld`, which is violated (`MCDccpInputTrap.cfg`).
* `cfctrl.c:312` (a link-up request that fails after it was put in the
  list): `AskedIsAnswered` is violated (`MCCfCnfgLost.cfg`); `caif` has no
  link-up failure among its `Faults`.
* `distributed-arp-table.c:443` (a distance of 0 compared with the initial
  `max` of a walk): the property is `SelectionNeverFaults`, which is violated
  (`MCDatTableFault.cfg`).

Eight name a property that covers part of them:

* `cfcnfg.c:239` (a physical interface removed while in use):
  `PhyUsefulWhileUsed` holds without the failures of the link-down request
  and of the service layer; with the latter it is violated
  (`MCCfCnfgServl.cfg`). With the link-down failures among `Faults` the run
  is out of reach (more than 12 million states without an end).
* `ib_send.c:750` (fields of a reused send entry): `TransportRefsBalanced`
  holds for an atomic operation behind RDMA requests; the message that is an
  atomic operation alone is `MCRdsIbSendAtomic.cfg`.
* `sch_api.c:853` (`check_loop`): `NoLoops` covers the grafts; with two
  majors the limit of depth 8 is never reached.
* `xfrm_policy.c:1021` (what each exit of `xfrm_lookup` has to put):
  `RefsAreHolders` covers every exit but the two of `PoliciesPut` and
  `StatesPut`.
* `xfrm_policy.c:1097` (the `dead` flag read under one lock and used under
  the next): `BundlesAccounted` covers the bundles; the dead policy is
  `DeadHasNoBundles`.
* `xfrm_policy.c:1391` (`xfrm_dst_ifdown`): `DevicesLetGo` covers the move
  to the loopback device; all entries of a bundle are on one device, so the
  walk never stops early.
* `xfrm_policy.c:1539` (the MTU caches of a bundle): `MtuCoherent` covers a
  bundle that was coherent before the call; any bundle is `MtuFresh`.
* `distributed-arp-table.c:433` (`orig_hash` changing between the walks of a
  selection): `ReferencesHeld` covers the references and that no originator
  is chosen twice; which originators are chosen is stated only for the calls
  during which the table did not change (`SelectionClosest`).

Known, and left out of the list in favour of those it holds. Covered by a
property of section 3.4 that holds: the age of a sent packet truncated to
`u32` and the entries freed behind a match (`packet_history.c:121`, `:125`,
`MCTxHist.cfg`), GAR written from every packet that passes Step 6
(`input.c:133`, `GarWithinSent`). Covered by properties of `options`, with
the other hazards of that file: the thresholds of the variable-length
encodings (`options.c:283`) and the option lengths that come from the network
(`:102`). Stated and
violated by a configuration of section 3.4: GSR moved back by a reordered
packet (`dccp.h:347`), the empty Confirm (`options.c:142`), the client that
gives up while its request waits (`cfcnfg.c:385`), the second unmap after a
remote access error and the `BUG_ON` after a failed mapping (`ib_send.c:257`,
`:522`), the ingress qdisc that is replaced by nothing and the root lock
released twice (`sch_api.c:469`, `:782`). Without a property: the antipodal
distance at which `before48` and `after48` both hold (`dccp.h:65`,
`MCSeqArith.cfg`), the Sync that nothing answers (`input.c:136`), the integer
division `4 / sample` of the RTT sampler (`packet_history.c:490`), in
`sch_api.c` the parent of a qdisc, which `qdisc_graft` leaves as it was at
creation while `qdisc_tree_decrease_qlen` walks the tree by it (`:503`), and
the root lock taken through a NULL qdisc when the first ingress qdisc of a
device is attached (`:463`, if `rx_queue.qdisc` starts as NULL, which
`sch_generic.c` decides), an allocation failing half way in `tfrc_rx_hist_alloc`
(`packet_history.c:436`), the truncation of the RTT sample before the clamp
(`:515`), the delayed-ack timer cleared at `input.c:380`, the events dropped
round an emergency power-off (`rfkill-input.c:60`), in `ib_send.c` the
`RDS_LL_SEND_FULL` bit, which is set at line 492 after the ring was looked at
and may be set just after the completion handler has cleared it (the model's
core calls again whether the bit is set or not, so a lost wake-up of the
core's worker is not in it), in `distributed-arp-table.c` the refresh of an
entry the purge has unlinked (`:282`), the tie between two originators with
one DHT address (`:443`, section 3.2) and the MAC address of an entry, which
`batadv_dat_entry_add` overwrites without a lock while a reply is built from
it (`:281`; the model has no MAC addresses), and in `xfrm_policy.c` a stale entry of the flow
cache (the cache is outside `src/` and the model's always misses).

## 7. Not modelled, and the plan

Not modelled in the modelled files:

* packet history: the packet type field (stored, never read); the creation and
  destruction of the two slab caches; the content of the loss interval
  database; wall-clock steps backwards;
* `input.c`: the MIB counters, the wake-ups, the content of the ack vector and
  of the CCID;
* `options.c`: `dccp_options_init` (the sysctl defaults are the constants
  `SendNdpCount` and `SendAckVector`) and the debug output;
* `cfctrl.c`, `cfcnfg.c`: the byte layout of the link parameters beyond the
  fields that are compared, `cfcnfg_get_named`, `cfcnfg_remove`,
  `cfctrl_ctrlcmd` (passes flow control up and changes no state), the sequence
  numbers `req_seq_no` and `rsp_seq_no` (written, never read), the sanity
  checks at the head of `cfcnfg_add_adaptation_layer`;
* `rfkill-input.c`: the table of device ids;
* `ib_send.c`: the early return of `rds_ib_xmit` for a congestion map on a
  loopback connection (lines 478-482), `c_map_queued`, the statistics, the
  addresses and lengths of the scatter entries, the SOLICITED and FENCE flags,
  and `queue_delayed_work` (the worker of the core is not in `src/`; the model
  lets the core call again at any time). The ring counters, the
  acknowledgement, connection set-up and shutdown and the send loop of the core
  are in `ib_ring.c`, `ib_recv.c`, `ib_cm.c` and `send.c`, which are not in
  `src/`: they are modelled from what `ib_send.c` relies on and its comments
  say;
* `sch_api.c`: the watchdog timer (lines 280-315), the class hash (318-419),
  `qdisc_tree_decrease_qlen` (496-521), the dumps, `tc_classify`,
  `/proc/net/psched`, the estimators, more than one device, and the content
  of the netlink attributes beyond the kind, the rate and the presence of
  `TCA_OPTIONS` and `TCA_RATE`. The qdiscs and `sch_generic.c` are not in
  `src/`: they are modelled from their contracts (section 2.10);
* `xfrm_policy.c`, `xfrm_output.c`: `__xfrm_route_forward` (`xfrm_lookup`
  under another name), `xfrm_link_failure` (empty), `xfrm_policy_init` and
  `xfrm_init` (boot), the byte and time counters of a state, and the content
  of selectors and addresses beyond whether they match. The flow cache, the states (`xfrm_state.c`), the per-family code
  (`xfrm4_policy.c`), the timer wheel and module loading are not in `src/`:
  they are modelled from their contracts (sections 2.12 and 2.13), the flow
  cache as one that always misses. `XfrmPolicy` takes a bundle as a whole,
  with `xfrm_bundle_ok` as a flag that the environment clears; `XfrmBundle`
  has the inside of one bundle. The two are not composed.

* `distributed-arp-table.c`: the MAC address of an entry, `batadv_dbg_arp`
  and `batadv_dat_cache_seq_print_text` (they print), the making and sending
  of the ARP reply and of the unicast packets (`arp_create`,
  `batadv_unicast_4addr_prepare_skb`, `batadv_send_skb_packet`: a candidate
  is let go whether they succeed or not), and the return values of the
  snooping functions, which tell the caller whether to drop the packet. The
  worker takes one bucket a step and a walk of `orig_hash` is one step. The
  transmit path runs on one CPU (`Outgoing`). `batadv_dat_free` is taken
  when no snooping function runs, which is what the teardown of the mesh
  interface guarantees. The hash table (`hash.h`), `orig_hash`
  (`originator.c`), the workqueue and RCU are not in `src/`: they are
  modelled from their contracts.

The rest of `src/`, listed in `PROJECT.json` under `components`:

* `net/mac80211/*`: a stateful subsystem with no link to the modelled ones;
  a candidate for a model of its own.
* `net/ipv6/route.c`, `net/ipv4/netfilter/ip_conntrack_netlink.c`,
  `net/netfilter/ipset/ip_set_hash_netport.c`, `net/ieee80211/softmac/*`,
  `net/phonet/af_phonet.c`, `net/ipv4/udplite.c`: front ends of tables and
  state machines that live in files outside `src/`.
* `net/ipv6/netfilter/*`, `net/wireless/util.c`, `net/bluetooth/mgmt.c`,
  `net/nfc/hci/llc_nop.c`, `net/unix/diag.c`, `net/sunrpc/auth_gss/*`:
  stateless matching, formatting, registration or cryptography.

Plan for the next steps, in this order:

1. `SchApi` with three majors, so that `check_loop` descends, by a
   request set cut to what a chain of three takes; the watchdog timer and
   `qdisc_tree_decrease_qlen` with the packets of a qdisc.
2. `RdsIbSend` with a peer that is a second instance of the module instead of
   the abstract one, and the worker of the core with `RDS_LL_SEND_FULL`.
3. `XfrmPolicy` composed with `XfrmBundle`, so that `stale_bundle` and
   `xfrm_find_bundle` run `xfrm_bundle_ok` on the entries of the bundle, and a
   flow cache that keeps entries across a change of `flow_cache_genid`.
4. `DatTable` with two nodes of a mesh, each with its own `orig_hash` order,
   so that a DHT_PUT of one and a DHT_GET of the other meet, or miss, at a
   candidate.
5. `TfrcLink`: a sender (`TxHist`) and a receiver (`RxHist`) joined by
   `DccpOptions` and a channel that loses, reorders and duplicates.
