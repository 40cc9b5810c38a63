# TLA+ models of the rustwall packet-inspection core

This directory holds TLA+ models of `src/src/utils.rs`, the packet path of
the rustwall firewall component. Each module is checked with TLC.
`PROJECT.json` maps every model definition to the source lines it
translates, and lists the runs, the mutants, the findings and the hazards.

## The system

`utils.rs` is the core of a firewall that sits between an untrusted Ethernet
driver and a trusted client, inside a seL4/CAmkES component. Each direction
runs in its own thread:

* **ingress**: an ethdriver notification pulls frames from the driver buffer
  (`EthdriverRxStatus`) and runs `process_ethernet(.., check_mac = true)`.
  The result goes to `PACKETS_RX`, which `client_rx` drains.
* **egress**: `client_tx` runs `process_ethernet(.., check_mac = false)` and
  sends the result out through `PACKETS_TX`.

The parts of the system, and how they interact:

| part | code | state | operations |
|---|---|---|---|
| A. wire codec | smoltcp views, called throughout | none | parse, validate, emit |
| B. reassembly table | `FRAGMENTS_RX/TX`, `process_ipv4_fragment` 667-749 | `SUPPORTED_FRAGMENTS` entries (key, total length, filled ranges, last-touched time) | get_packet, start, set_total_len, add, check_contig_range, front, reset |
| C. fragmenter | `fragment_large_udp_packet` 368-501 | none (pure) | split a UDP packet into MTU_UDP-sized IPv4 packets |
| D. policy callout | `process_udp` 759-860, `ExternalFirewallWrapper` | the callout buffer | UDP checks, callout, rebuild |
| E. pipeline | `process_ethernet` 295-363, `process_ipv4` 542-661 | none of its own | MAC filter, EtherType and protocol dispatch, enqueue |
| F. queues | `PACKETS_RX/TX` | bounded `Vec<Vec<u8>>` | push (tail-drop), drain (outside src/) |
| G. counters | `timestamp` 277-284, `get_pseudorandom_packet_id` 268-274 | `static mut MS`, `SEED` | `X += 1; X` |
| H. boundary glue | 133-246 | the driver and client shared buffers and their locks, the rx iterator | driver rx iterator, dispatch, client copy-out, client fetch |

For each frame, E asks A to parse it and sends UDP fragments to B under the
direction's fragment lock, calling G's clock there. A reassembled or whole
UDP datagram goes to D under the policy lock. An accepted packet is split
by C, which draws an identification from G, and is pushed to F under the
queue lock. No step holds two locks at once. Each direction has its own
fragment table, policy lock (`FN_PACKET_IN`, `FN_PACKET_OUT`) and queue.
The two directions share only the two counters of G, which are `static
mut` and guarded by no lock at all.

The hard behaviours are these:
* the counter data races between the threads;
* the arbitrary arrival order of fragments, with duplicates and losses;
* eviction and reuse of stale entries, and a full table;
* a queue that fills up part-way through a fragmented packet;
* the order of the checks around the policy callout;
* the shared buffers at the boundary, each written by two threads and, on
  the client side, also by the client outside the lock;
* the numeric edges: the MTU boundary, u16 wrap-around, and the casts of
  negative results.

## Modules

| module | models | state | actions |
|---|---|---|---|
| `UdpFragmenter` | C | `input`, `out` | `Fragment` (one call) |
| `FragmentSet` | B | `entries`, `outcome`, `dgram` | `ReceiveFragment` (timestamp, then all of `process_ipv4_fragment`) |
| `StaticCounters` | G | `MS`, `SEED`, per-thread `pc`, `reg` and the values returned | `Load`, `Store`, `Return` |
| `Pipeline` | E, D, F (push side); composes `FragmentSet` and `UdpFragmenter` by `INSTANCE` | `entries`, `queue`, `inv`, `callout`, `result` | `ProcessEthernet` (one disjunct per branch), `Drain` |
| `Reassembly` | abstract spec of B | `held` (datagrams per key), `outcome`, `dgram` | `Receive` |
| `Boundary` | H, the Mutex wrapper, F per frame (push and pop) | both lock holders and buffers, the two queues, the state of four threads, what the client read and the driver took | driver: `Arrive`, `Notify`; rx: `RxNext`, `RxCall`, `RxFetch`, `RxProcess`; client_rx: `ClientRx`, `CrxCopy`, `CrxUnlock`, `ClientRead`; client_tx: `ClientTx`, `CtxFetch`, `CtxProcess`; drain: `TxPop`, `TxLock`, `TxInsert`, `TxSend` |

Each `MC_*.tla` module binds the constants, and each `MC_*.cfg` lists the
properties of one run.

**UdpFragmenter.** A UDP payload byte is represented by its index.
`FragmentLargeUdpPacket(len, packetId, freshId)` returns the IPv4 packets
the function emits, each as `[offset, size, mf, ident]`. The while loop is
the recursive `MiddleFragments`. `WireFragOffset` is what `set_frag_offset`
stores in the 13-bit field of 8-byte units. `ReferenceFragments` is the
reference of spec.md section 4.3.

**FragmentSet.** The smoltcp FragmentSet is not in this repository, so its
lookup order, byte ranges and completion test come from spec.md section
4.2. `PROJECT.json` marks those definitions `spec_modelled`. Each buffer
position records which datagram wrote its byte (ghost provenance), which
lets a property notice bytes of two datagrams mixed together. Time enters
only through `now - last > FRAGMENT_TIMEOUT`. `timestamp()` advances by one
per fragment, so each entry keeps an age saturated at `FRAGMENT_TIMEOUT+1`.
Two ghosts sit beside the table: `fkey` is the key of the last fragment,
and `sinceAdd` holds, for each held key, the number of timestamps since
its last successful add (spec.md section 4.2: "the staleness timestamp is
updated on every successful add"). `sinceAdd` is counted independently of
the entries' ages, so a property stated on it can catch mistakes in the
age bookkeeping.
`ProcessIpv4Fragment` follows lines 667-749 in order:
1. `get_packet`;
2. `start`;
3. `set_total_len(frag_offset + total_len)` (line 698);
4. `add`, with a reset and `TooManyFragments` on failure;
5. `check_contig_range`;
6. `front`, copy-out and reset.

**StaticCounters.** `X += 1; X` on a `static mut` is a load, a store and a
second read. Run from two threads with no lock, this is a data race
(undefined behaviour). The model lets the threads interleave between the
three steps. For the returned value it may pick either the static as it
is now or the stored register, which are the outcomes a compiler can
produce. `OVERFLOW_CHECKS` chooses the build: `SEED += 1` at 65535 wraps
to 0 without overflow checks and panics with them (debug builds; no
Cargo profile in the repository turns them off).

**Pipeline.** A frame is a record of what the code branches on:
* whether it parses;
* its destination class (local, broadcast, multicast, remote);
* its EtherType;
* whether its IPv4 header parses and its checksum is right;
* its protocol;
* its datagram and fragment slice.

A datagram has a key, a length, an identification, a payload length, a
content tag and a UDP-checksum flag. The callout returns any value of
`PolicyResults`.

Each disjunct of `ProcessEthernet` is one path through `process_ethernet`.
It sets `result` to the value the call returns. Each lock covers one
critical section, and the locks are never nested, so a whole invocation is
one step: no other thread can observe its intermediate states except the
counters. The counters are modelled separately in StaticCounters, and
Pipeline takes the fresh id as a constant. `Drain` is the consumer beyond
src/.

**Reassembly and the refinement.** `Reassembly` says what a table
promises, with no slots, ranges or clock. For each key it keeps the set of
datagrams whose fragments arrived since the key started accumulating. At
most `SUPPORTED_FRAGMENTS` keys accumulate at once. A fragment of a new key
with no room is refused (`FragmentSetFull`). Otherwise some other keys may
be dropped as stale. Then the fragment is either kept, or discards its
key's fragments (`TooManyFragments`), or yields a datagram made only of
fragments that key holds. Each `FragmentSet` entry carries a ghost `frags`:
the datagrams it took since it was started. `HeldFragments` maps the
entries to `held`, and `ImplementsReassembly` checks `Abs!Spec` as a
temporal property. A step that reuses an entry for a new key without
resetting it hands the new key fragments it never received, and that breaks
the refinement.

**Boundary.** This module covers all the boundary glue and the four threads
that use it, joined by the two queues:
* the rx thread: the notification handler loops over `EthdriverRxStatus`,
  then runs the ingress pipeline on each frame into `PACKETS_RX`;
* the client_rx handler: it pops `PACKETS_RX` and calls
  `copy_data_to_client_buf`, and the client then reads `client_buf`;
* the client_tx handler: the client writes `client_buf`, and the handler
  calls `fetch_client_data` and then the egress pipeline into `PACKETS_TX`;
* the egress drain: it pops `PACKETS_TX` and calls
  `dispatch_data_to_ethdriver`.

Each call is split at the points where another thread can run:
* `RxNext` takes the driver lock, or ends the loop once `finished` is set;
* `RxCall` is `ethdriver_rx`: the driver (`DriverRx`) writes its next frame
  to the buffer and returns 1 (more pending), 0 (last) or -1 (none);
* `RxFetch` is the branch on that status: unlock on -1; on 0 or 1,
  `sel4_buffer_fetch` followed by unlock; any other status panics;
* `CrxCopy` is lock plus insert, and `CrxUnlock` is unlock plus return;
* `CtxFetch` is lock plus fetch, and `CtxProcess` is unlock plus the
  pipeline;
* `TxLock`, `TxInsert` (`sel4_buffer_insert`) and `TxSend` (`ethdriver_tx`,
  then unlock).

`Acquire` blocks while another thread holds the lock. Every buffer copy
asserts `len < BUFFER_SIZE` and panics with its lock still held. In this
module `process_ethernet` is `Pipe`: it drops the frame or pushes it
(`Push`, tail-dropping at `MAX_ENQUEUED_PACKETS`); which frames pass is
`Pipeline`'s business. The driver and the client are the environment.
`Arrive` queues a frame at the driver and signals the notification, and
`Notify` starts a new iteration. `ClientTx` and `ClientRx` are the
client's calls. When `CONCURRENT_CLIENT` is FALSE, the client makes one
call at a time.

## Runs

| run | expect | what it shows |
|---|---|---|
| fragmenter_tiling | pass | For lengths 9..56 at MTU 16 (1 to 4 fragments, the boundary 16 included), with identification 0 or 7 and fresh id 0 or 43, the fragments tile the packet, set MF on all but the last and share one non-zero identification. |
| fragmenter_reference | violation | A 16-byte packet becomes `[0,16,MF]` followed by `[16,0,¬MF]` instead of one whole packet (`<` at line 384, where the spec says `<=`). |
| fragment_set | pass | Two entries, header length 2, buffer 6, timeout 2, and datagrams of lengths 2 and 3 under key K1 (a shared key), 3 under K2 and 5 under K3 (too long for the buffer). Every slice arrives in any order, any number of times. Keys stay unique, totals stay within the buffer, and a reassembled datagram holds only bytes of its key; it is whole when its key is unshared. |
| counters_single | pass | One thread making 6 calls; every step of `X += 1; X` is reachable and the counters keep their types. A single thread cannot race, so monotonicity and distinctness are asked only of two threads, in counters_race. |
| counters_race | violation | With two threads and two calls each, a lost update hands a thread a counter value it already had (`CountersNeverRepeat`): TLC shows `<<1, 1>>` from `timestamp()`, and SEED has the same unlocked increment. |
| counters_id_overflow | violation | In a build with overflow checks, starting from SEED = 65534 (42 plus 65,492 earlier calls), the second call panics at line 271. spec.md section 4.3 accepts wrap-around. |
| pipeline | pass | Ingress with 4 frames drawn from 12 kinds plus every fragment of a two-unit datagram, a table of one entry and a queue of 2, with policy results 0, 8 (exactly MTU: two packets), 32 (three packets, cut by the queue) and 33 (too long). The queue never exceeds its capacity and keeps the frames of an invocation together and in order. |
| pipeline_corrupt_fragment | violation | The fragments of a datagram with a corrupt header checksum are reassembled and forwarded. |
| pipeline_policy_len | violation | The callout returns -1 and `from_raw_parts` is given a length above the capacity. The same invariant is broken by a result of 28 with a capacity of 24: it passes the check at line 828, and `UdpRepr::emit` then reads 28 bytes out of a 24-byte allocation. |
| fragment_set (refinement) | pass | In the same run, `ImplementsReassembly`: every step of the table is a step of `Reassembly` under `HeldFragments`. |
| fragment_set (eviction) | pass | In the same run, the action property `OnlyStaleKeysEvicted`: a key loses the fragments it holds on a fragment of another key only once the ghost `sinceAdd` shows it has gone more than FRAGMENT_TIMEOUT timestamps without a successful add. This covers a takeover that ends in `TooManyFragments` too. `Reassembly` lets any other key be dropped, so this is what pins eviction to the staleness test. |
| boundary | pass | Buffers of 8 bytes and queues of one frame. Two frames (lengths 3 and 5) arrive at the driver while the client, one call at a time, sends two (2 and 7). Each frame the client reads came from the driver, and each frame the driver takes came from the client, in order and at most once (`FramesKeepDirectionAndOrder`). Under weak fairness of the thread steps, every frame that arrives is eventually yielded (`ArrivedFramesReceived`), and every frame queued in `PACKETS_TX` eventually reaches the driver (`QueuedEgressFramesSent`): no path of `next()` leaves the driver lock held. |
| boundary_full_frame | violation | A frame of exactly 8 bytes arrives. `sel4_buffer_fetch` asserts `len < BUFFER_SIZE`, so the rx thread panics holding the driver lock. spec.md allows frames up to BUFFER_SIZE. |
| boundary_concurrent_client | violation | With client_rx and client_tx in flight at once (spec.md section 5 allows concurrent entry points), the client reads back its own outgoing frame as an incoming one. `MTX_CLIENT_BUF` covers the firewall's copy but not the client's write before client_tx or its read after client_rx. |

Every property of a passing run has a mutant in `PROJECT.json`: a
plausible bug in a mapped definition that TLC catches with that property.
The mutants are:
* a stale last offset;
* `while remaining_len > 0`;
* `get_packet` preferring an empty entry;
* a total length without the header;
* a missing reset;
* `MS -= 1`;
* ARP pushed without the capacity test;
* `pop()` instead of `remove(0)`;
* an entry reused for another key without a reset;
* the driver lock released right after `ethdriver_rx`, before the fetch;
* `finished` set on status 1 instead of 0;
* `add` leaving the entry's staleness time as it was at the start;
* the -1 arm of `next()` returning before the unlock.

**Bounds.** Each bound is the smallest that still reaches its interesting
cases:
* MTU 16 is the smallest multiple of 8 that leaves room for a UDP header.
  Lengths 9..56 cover one to four fragments and both sides of every
  multiple of 16.
* In the reassembly table, 2 entries with a timeout of 2 make the table
  fill, entries go stale and a stale entry get reused by another key.
  A datagram of length 5 overflows the buffer of 6, so `TooManyFragments`
  happens.
* In the pipeline, 4 frames, a queue of 2 and a three-packet result make
  tail-drop happen while earlier frames are still queued.
* In the counters, two calls per thread are enough for every lost-update
  pattern.
* In the boundary, two frames each way (three each way take 143,000
  states and add no new case) let a dispatch fall between an rx
  call and its fetch, let a client copy fall between the client's write
  and the fetch, and let the iterator see status 1 and then status 0.
  Queues of one frame make tail-drop happen while a frame waits to be
  popped. A buffer of 8 with lengths 2..7 keeps the passing run clear of
  the assert. The full-frame run sends one frame of length 8.

**Fairness.** Only `Boundary` has liveness properties, and their fairness
is weak fairness on each step of the firewall's threads: `Notify`, the rx
steps, the two client handlers' steps after the call, and the drain's
steps. On seL4, a thread that can
run is eventually scheduled, and a signalled notification wakes its
waiter, so a step that stays enabled is eventually taken. A step blocked on
the lock is disabled while the lock is held, which is why weak fairness is
enough. `Arrive` (the driver receiving a frame) and the client's calls
and reads are not fair: neither the network nor the client can be forced
to act. All the other modules check safety only. A
`Terminating` stutter marks the end of a bounded exploration, so reaching
the bound is not reported as a deadlock.

## Not modelled

* smoltcp's parsers and emitters: only their outcomes appear, as frame
  fields.
* `client_buf_value` and `ethdriver_buf_value` (lines 133-148): they only
  assert that a host-supplied pointer is non-null, which spec.md section 6
  guarantees.
* The lazy globals, `ExternalFirewallWrapper` and `get_device_mac`: FFI
  wrappers and one-time initialisation, with no branching state.
* Byte contents, addresses and ports: the policy sees only the payload
  length, and the properties only the provenance.
* The MF flag that remains set in a reassembled header. Whether it matters
  depends on the smoltcp fork.

## Further work, and what earlier plans became

* The round trip (spec.md section 8: fragmenter, then reassembler, is the
  identity) needs no run of its own. `FragmentSet` feeds the table every
  slice of every datagram, in any order and any number of times, so the
  fragmenter's slicing is among them. `ReassembledIntact` then says the
  datagram comes back whole.
* Liveness of reassembly is not a liveness question here. Fragments are
  the environment, and once the last one is in, `ReceiveFragment`
  delivers in that same step.
* Still open: a two-direction composition in which `StaticCounters`
  supplies both pipelines' timestamps and ids, showing a counter race
  reaching a reassembly key. Also open: replacing `Boundary`'s `Pipe` by
  `Pipeline`'s `ProcessEthernet` through `INSTANCE`. Both state spaces go
  beyond what a run may take today. An egress-only run of `Pipeline`
  (`CHECK_MAC = FALSE`) would differ from the ingress run only in the MAC
  filter.
