----------------------------- MODULE Pipeline -----------------------------
(***************************************************************************)
(* One direction of the packet pipeline of src/src/utils.rs:               *)
(* process_ethernet (lines 295-363), process_ipv4 (lines 542-661) and      *)
(* process_udp (lines 759-860), with the direction's reassembly table      *)
(* (module FragmentSet), the fragmenter (module UdpFragmenter) and the     *)
(* bounded outbound queue (PACKETS_RX or PACKETS_TX).  The queue is        *)
(* drained by the other side of the boundary (client_rx or the ethdriver   *)
(* send path, outside src/), modelled from spec.md section 4.6.            *)
(*                                                                         *)
(* A frame is abstracted to the fields the pipeline branches on: whether   *)
(* it parses, its destination MAC class, its EtherType and, for IPv4, the  *)
(* datagram it belongs to, its fragment slice, whether its IPv4 header     *)
(* checksum is right and its protocol.  A datagram carries its fragment    *)
(* key, its length in reassembly units, its identification, the length    *)
(* of its UDP payload in bytes, its content (two datagrams with the same   *)
(* content have the same bytes) and whether its UDP checksum is right.     *)
(* The policy callout returns any value of PolicyResults.                  *)
(***************************************************************************)
EXTENDS Integers, Sequences, FiniteSets, FiniteSetsExt

CONSTANTS
    CHECK_MAC,                      \* TRUE on ingress, FALSE on egress
    MAX_ENQUEUED_PACKETS,           \* queue capacity
    MTU_UDP, MAX_UDP_PACKET_SIZE, MAX_UDP_PAYLOAD_SIZE,
    SUPPORTED_FRAGMENTS, MAX_REASSEMBLED_FRAGMENT_SIZE, IP_HEADER_LEN,
    FRAGMENT_TIMEOUT,
    Datagrams,                      \* IPv4 datagrams frames are cut from
    Frames,                         \* frames that can arrive
    PolicyResults,                  \* values the policy callout can return
    FreshId,                        \* a value get_pseudorandom_packet_id returns
    MaxFrames,                      \* frames processed (bound of the exploration)
    NoKey, None, NoFrag

ASSUME /\ CHECK_MAC \in BOOLEAN
       /\ MAX_ENQUEUED_PACKETS \in Nat \ {0}
       /\ PolicyResults \subseteq Int
       /\ MaxFrames \in Nat

UDP_HDR_LEN == 8

VARIABLES
    entries,    \* the direction's reassembly table
    queue,      \* the direction's outbound FrameQueue
    inv,        \* process_ethernet invocations so far
    callout,    \* the last policy callout: data length, capacity, result
    result      \* what the last process_ethernet returned

FS == INSTANCE FragmentSet WITH outcome <- "None", dgram <- 0, fkey <- NoKey,
                                sinceAdd <- 0
UF == INSTANCE UdpFragmenter WITH UdpLens <- {}, Idents <- {}, FreshIds <- {},
                                  input <- 0, out <- << >>

vars == <<entries, queue, inv, callout, result>>

\* The values process_ethernet returns: Ok(()) or one of smoltcp's errors
\* (parse, length and checksum errors are all "Malformed").
Results == {"Ok", "Malformed", "Dropped", "Unrecognized", "Fragmented",
            "FragmentSetFull", "TooManyFragments"}

NoCallout == [dataLen |-> 0, cap |-> 0, ret |-> 0]

-----------------------------------------------------------------------------
(* Queue elements: the invocation that produced the frame, its position   *)
(* among the frames that invocation produced, and what it carries: the     *)
(* received frame unchanged ("ARP", "IPv4" pass-through) or one IPv4       *)
(* packet cut from the UDP packet the policy returned ("UDP": the          *)
(* datagram the policy saw, the policy's result, the fragment).            *)

Passthrough(kind, fr) ==
    [inv |-> inv + 1, idx |-> 1, kind |-> kind, frame |-> fr,
     dgram |-> FS!NoDatagram, ret |-> 0, part |-> NoFrag]

\* EthernetFrame::new_checked(frame)? (line 302).
ParseOk(fr) == fr.ethOk

\* Lines 304-322: with check_mac, a unicast frame for another MAC is dropped.
AcceptedMac(fr) == ~CHECK_MAC \/ fr.dst \in {"local", "broadcast", "multicast"}

\* Mutant: the loop takes the last frame first (packets.pop()).
RECURSIVE EnqueuePop(_, _)
EnqueuePop(q, frames) ==
    IF frames = << >> \/ Len(q) >= MAX_ENQUEUED_PACKETS THEN q
    ELSE EnqueuePop(Append(q, frames[Len(frames)]), SubSeq(frames, 1, Len(frames) - 1))

\* The enqueue loop of lines 334-338: frames are moved from the front of
\* the list while the queue is below capacity; the rest are dropped.
RECURSIVE Enqueue(_, _)
Enqueue(q, frames) ==
    IF frames = << >> \/ Len(q) >= MAX_ENQUEUED_PACKETS THEN q
    ELSE Enqueue(Append(q, Head(frames)), Tail(frames))

-----------------------------------------------------------------------------
(* process_udp, lines 759-860.                                            *)

\* Vec::with_capacity(MAX_UDP_PAYLOAD_SIZE) then extend_from_slice of the
\* payload (lines 789-790): a longer payload makes the Vec grow to
\* max(2 * capacity, needed).
Capacity(dataLen) ==
    IF dataLen <= MAX_UDP_PAYLOAD_SIZE THEN MAX_UDP_PAYLOAD_SIZE
    ELSE Max({2 * MAX_UDP_PAYLOAD_SIZE, dataLen})

\* Line 828: the callout's result accepts the packet.
PolicyAccepts(ret) == ret > 0 /\ ret <= MAX_UDP_PACKET_SIZE

\* UdpPacket::new_checked and UdpRepr::parse (lines 764-771) on the
\* datagram the reassembly (or the frame) handed over: its UDP length and
\* checksum hold only if all its bytes are those of one datagram, whole,
\* with a right checksum.
UdpValid(a) ==
    \E d \in a.srcs : /\ d.udpOk
                      /\ a.len = IP_HEADER_LEN + d.len
                      /\ \A d2 \in a.srcs : d2.content = d.content

\* The IPv4 packets lines 598-620 produce for datagram a with policy result
\* ret: the UDP packet rebuilt with ret payload bytes, fragmented with the
\* datagram's identification.
UdpFrames(a, ident, ret) ==
    LET parts == UF!FragmentLargeUdpPacket(UDP_HDR_LEN + ret, ident, FreshId)
    IN  [i \in 1..Len(parts) |->
           [inv |-> inv + 1, idx |-> i, kind |-> "UDP", frame |-> NoFrag,
            dgram |-> a, ret |-> ret, part |-> parts[i]]]

-----------------------------------------------------------------------------
(* process_ethernet on one frame; every branch is one step: the locks it  *)
(* takes (fragment table, policy, queue) are never held together and the  *)
(* only state the other direction shares is the counters of module         *)
(* StaticCounters.                                                         *)

\* The common end of every branch: one more invocation.
Done == inv' = inv + 1

\* Line 302: EthernetFrame::new_checked fails; the error is returned.
Malformed(fr) ==
    /\ ~ParseOk(fr)
    /\ result' = "Malformed"
    /\ Done /\ UNCHANGED <<entries, queue, callout>>

\* Lines 304-322: a frame for another host is quietly dropped, Ok(()).
Filtered(fr) ==
    /\ ParseOk(fr) /\ ~AcceptedMac(fr)
    /\ result' = "Ok"
    /\ Done /\ UNCHANGED <<entries, queue, callout>>

\* Lines 343-345 and 356-359: IPv6 and any other EtherType are dropped
\* and Ok(()) returned.
Ignore(fr) ==
    /\ ParseOk(fr) /\ AcceptedMac(fr) /\ fr.eth \in {"IPv6", "Other"}
    /\ result' = "Ok"
    /\ Done /\ UNCHANGED <<entries, queue, callout>>

\* Mutant: ARP is pushed without the capacity test of line 352.
ArpPassthroughUnbounded(fr) ==
    /\ ParseOk(fr) /\ AcceptedMac(fr) /\ fr.eth = "ARP"
    /\ queue' = Append(queue, Passthrough("ARP", fr))
    /\ result' = "Ok"
    /\ Done /\ UNCHANGED <<entries, callout>>

\* Lines 347-355: ARP is enqueued unchanged if the queue has room.
ArpPassthrough(fr) ==
    /\ ParseOk(fr) /\ AcceptedMac(fr) /\ fr.eth = "ARP"
    /\ queue' = Enqueue(queue, << Passthrough("ARP", fr) >>)
    /\ result' = "Ok"
    /\ Done /\ UNCHANGED <<entries, callout>>

IsFragment(fr) == fr.frag # NoFrag /\ fr.proto = "UDP"

\* An IPv4 frame that got through Ipv4Packet::new_checked (line 565).
Ipv4Frame(fr) == ParseOk(fr) /\ AcceptedMac(fr) /\ fr.eth = "IPv4" /\ fr.ipOk

\* An unfragmented datagram as the reparse of line 581 sees it.
Whole(d) == [key |-> d.key, len |-> IP_HEADER_LEN + d.len, srcs |-> {d}]

\* The UDP payload length handed to the callout (line 791).
PayloadLen(a) == (CHOOSE d \in a.srcs : TRUE).payload

(***************************************************************************)
(* The UDP branch of process_ipv4 (lines 598-631) on datagram a, with the  *)
(* policy returning ret, and the enqueue of process_ethernet (334-338).   *)
(* A datagram failing the UDP checks returns before the callout; one the  *)
(* policy drops returns Error::Dropped.  The callout records the lengths   *)
(* Vec::from_raw_parts is given at line 825.                               *)
(***************************************************************************)
ProcessUdpDatagram(a, ident, ret) ==
    IF ~UdpValid(a)
    THEN result' = "Malformed" /\ UNCHANGED <<queue, callout>>
    ELSE /\ callout' = [dataLen |-> PayloadLen(a), cap |-> Capacity(PayloadLen(a)),
                        ret |-> ret]
         /\ IF PolicyAccepts(ret)
            THEN queue' = Enqueue(queue, UdpFrames(a, ident, ret)) /\ result' = "Ok"
            ELSE result' = "Dropped" /\ UNCHANGED queue

\* Lines 563-579 on a UDP fragment: the table is updated whatever happens;
\* only an assembled datagram goes on, past the header check of line 585
\* (its checksum was recomputed at line 734), to the UDP branch.
Ipv4Fragment(fr) ==
    /\ Ipv4Frame(fr) /\ IsFragment(fr)
    /\ LET r == FS!ProcessIpv4Fragment(FS!Tick(entries), fr.frag)
       IN  /\ entries' = r.entries
           /\ IF r.outcome = "Assembled"
              THEN \E ret \in PolicyResults : ProcessUdpDatagram(r.dgram, fr.dg.ident, ret)
              ELSE result' = r.outcome /\ UNCHANGED <<queue, callout>>
    /\ Done

\* Lines 581-641 on a frame that is not a UDP fragment: the header checksum
\* (line 585), then the protocol: ICMP and IGMP pass unchanged (lines
\* 590-597, 644-646), UDP goes to the policy, anything else is
\* Error::Unrecognized.
Ipv4Unfragmented(fr) ==
    /\ Ipv4Frame(fr) /\ ~IsFragment(fr)
    /\ \/ ~fr.hdrOk /\ result' = "Malformed" /\ UNCHANGED <<queue, callout>>
       \/ /\ fr.hdrOk /\ fr.proto \in {"ICMP", "IGMP"}
          /\ queue' = Enqueue(queue, << Passthrough("IPv4", fr) >>)
          /\ result' = "Ok" /\ UNCHANGED callout
       \/ /\ fr.hdrOk /\ fr.proto = "UDP"
          /\ \E ret \in PolicyResults : ProcessUdpDatagram(Whole(fr.dg), fr.dg.ident, ret)
       \/ /\ fr.hdrOk /\ fr.proto \notin {"ICMP", "IGMP", "UDP"}
          /\ result' = "Unrecognized" /\ UNCHANGED <<queue, callout>>
    /\ UNCHANGED entries /\ Done

\* An IPv4 frame too short for its header (line 565).
Ipv4Truncated(fr) ==
    /\ ParseOk(fr) /\ AcceptedMac(fr) /\ fr.eth = "IPv4" /\ ~fr.ipOk
    /\ result' = "Malformed"
    /\ Done /\ UNCHANGED <<entries, queue, callout>>

ProcessEthernet(fr) ==
    /\ inv < MaxFrames
    /\ \/ Malformed(fr) \/ Filtered(fr) \/ Ignore(fr) \/ ArpPassthrough(fr)
       \/ Ipv4Truncated(fr) \/ Ipv4Fragment(fr) \/ Ipv4Unfragmented(fr)

\* The other side takes the frame at the head of the queue (client_rx or
\* the driver send path; spec.md section 4.6).
Drain ==
    /\ queue # << >>
    /\ queue' = Tail(queue)
    /\ UNCHANGED <<entries, inv, callout, result>>

\* The bound of the exploration is reached and the queue is empty.
Terminating ==
    /\ inv = MaxFrames /\ queue = << >>
    /\ UNCHANGED vars

Init == /\ entries = [s \in FS!Slots |-> FS!EmptyEntry]
        /\ queue = << >>
        /\ inv = 0
        /\ callout = NoCallout
        /\ result = "Ok"

Next == (\E fr \in Frames : ProcessEthernet(fr)) \/ Drain \/ Terminating

Spec == Init /\ [][Next]_vars

-----------------------------------------------------------------------------
TypeOK ==
    /\ entries \in [FS!Slots -> FS!Entry]
    /\ queue \in Seq([inv : Nat, idx : Nat, kind : {"ARP", "IPv4", "UDP"},
                      frame : Frames \cup {NoFrag}, dgram : [key : FS!Keys \cup {NoKey},
                      len : Nat, srcs : SUBSET Datagrams], ret : Int,
                      part : [offset : Nat, size : Nat, mf : BOOLEAN, ident : 0..65535] \cup {NoFrag}])
    /\ Len(queue) <= MAX_ENQUEUED_PACKETS
    /\ inv \in 0..MaxFrames
    /\ callout \in [dataLen : Nat, cap : Nat, ret : Int]
    /\ result \in Results

(***************************************************************************)
(* spec.md section 5: frames emitted by one pipeline invocation are        *)
(* enqueued in the order produced.  In the queue, the frames of one       *)
(* invocation sit next to each other in fragment order, whatever the      *)
(* queue's fill level when the invocation ran and however the drain       *)
(* interleaved with earlier invocations; a full queue only cuts off a     *)
(* tail, so a receiver never gets a later fragment without the earlier.    *)
(***************************************************************************)
FramesOfAnInvocationInOrder ==
    \A i, j \in 1..Len(queue) :
        (i < j /\ queue[i].inv = queue[j].inv) => queue[j].idx = queue[i].idx + (j - i)

(***************************************************************************)
(* A UDP packet reaches the queue only if every fragment its bytes came    *)
(* from had a valid IPv4 header checksum (spec.md sections 3 and 4.1: a    *)
(* view validates its checksum before its fields are used).               *)
(***************************************************************************)
NoUnverifiedHeaderForwarded ==
    \A i \in 1..Len(queue) :
        queue[i].kind = "UDP" => \A d \in queue[i].dgram.srcs : d.hdrOk

(***************************************************************************)
(* The length given to Vec::from_raw_parts at line 825 never exceeds the  *)
(* capacity of the buffer handed to the callout (its safety contract;      *)
(* spec.md section 9: reading back the reported length must be            *)
(* well-defined).  A negative i32 cast to usize is at least 2^31.          *)
(***************************************************************************)
RawPartsLenWithinCapacity ==
    callout.ret >= 0 /\ callout.ret <= callout.cap

=============================================================================
