--------------------------- MODULE UdpFragmenter ---------------------------
(***************************************************************************)
(* The post-policy IPv4 fragmenter of src/src/utils.rs,                    *)
(* fragment_large_udp_packet (lines 368-501).  A UDP packet accepted by    *)
(* the policy callout is split into IPv4 packets whose payload is at most  *)
(* MTU_UDP bytes.  Payload bytes are abstracted to their byte range in the *)
(* UDP packet: an emitted IPv4 packet is the record                        *)
(*     [offset, size, mf, ident]                                           *)
(* carrying udp_packet[offset .. offset+size), its more-fragments flag and *)
(* its identification.  Addresses, hop limit and checksums are the same    *)
(* in every emitted packet and are left out.                               *)
(*                                                                         *)
(* The identification drawn from get_pseudorandom_packet_id (line 406) is  *)
(* an input here (freshId); the racy counter behind it is modelled in      *)
(* StaticCounters.                                                         *)
(***************************************************************************)
EXTENDS Integers, Sequences, SequencesExt

CONSTANTS
    MTU_UDP,    \* constants::MTU_UDP, IPv4 payload bytes per emitted packet
    UdpLens,    \* lengths of the UDP packets (header included) to fragment
    Idents,     \* identifications of the packet being forwarded (u16)
    FreshIds    \* values get_pseudorandom_packet_id can return

ASSUME /\ MTU_UDP \in Nat \ {0}
       /\ MTU_UDP % 8 = 0            \* IPv4 offsets are in units of 8 bytes
       /\ UdpLens \subseteq Nat
       /\ Idents \subseteq 0..65535
       /\ FreshIds \subseteq 0..65535

-----------------------------------------------------------------------------
(* Conversions done by Ipv4Packet setters.                                 *)

\* fragment_offset is a u16 (line 443); set_frag_offset stores offset / 8 in
\* the 13-bit field, so the offset read back is that value times 8.
WireFragOffset(o) == (((o % 65536) \div 8) % 8192) * 8

Frag(offset, size, mf, ident) ==
    [offset |-> WireFragOffset(offset), size |-> size, mf |-> mf, ident |-> ident]

(***************************************************************************)
(* The while loop of lines 437-469: while more than MTU_UDP bytes remain,  *)
(* emit one MTU_UDP-sized middle fragment.  `offset` is the offset of the  *)
(* previous fragment, `remaining` the bytes not yet emitted.               *)
(***************************************************************************)
\* Mutant: the loop runs while any byte remains (`remaining_len > 0`);
\* the subtraction of line 467 then goes below zero.
RECURSIVE MiddleFragmentsWhileNonZero(_, _, _)
MiddleFragmentsWhileNonZero(offset, remaining, id) ==
    IF remaining > 0
    THEN << Frag(offset + MTU_UDP, MTU_UDP, TRUE, id) >>
            \o MiddleFragmentsWhileNonZero(offset + MTU_UDP, remaining - MTU_UDP, id)
    ELSE << >>

RECURSIVE MiddleFragments(_, _, _)
MiddleFragments(offset, remaining, id) ==
    IF remaining > MTU_UDP
    THEN << Frag(offset + MTU_UDP, MTU_UDP, TRUE, id) >>
            \o MiddleFragments(offset + MTU_UDP, remaining - MTU_UDP, id)
    ELSE << >>

\* Mutant: the last fragment's offset misses the update of line 475.
FragmentLastOffsetStale(len, packetId, freshId) ==
    IF len < MTU_UDP
    THEN << Frag(0, len, FALSE, packetId) >>
    ELSE LET id      == IF packetId = 0 THEN freshId ELSE packetId
             middles == MiddleFragments(0, len - MTU_UDP, id)
             lastOff == MTU_UDP * Len(middles)
         IN  << Frag(0, MTU_UDP, TRUE, id) >> \o middles
                 \o << Frag(lastOff, len - lastOff - MTU_UDP, FALSE, id) >>

(***************************************************************************)
(* fragment_large_udp_packet(udp_packet, src, dst, packet_id).  A packet   *)
(* shorter than MTU_UDP (line 384) goes out whole with the identification  *)
(* it came with.  Otherwise a zero identification is replaced by a fresh   *)
(* one (lines 405-407), the first fragment takes MTU_UDP bytes at offset 0 *)
(* (lines 408-435), the loop emits the middle ones and the last fragment   *)
(* takes what remains, with MF cleared (lines 471-498).                    *)
(***************************************************************************)
FragmentLargeUdpPacket(len, packetId, freshId) ==
    IF len < MTU_UDP
    THEN << Frag(0, len, FALSE, packetId) >>
    ELSE LET id      == IF packetId = 0 THEN freshId ELSE packetId
             middles == MiddleFragments(0, len - MTU_UDP, id)
             lastOff == MTU_UDP * (Len(middles) + 1)
         IN  << Frag(0, MTU_UDP, TRUE, id) >> \o middles
                 \o << Frag(lastOff, len - lastOff, FALSE, id) >>

-----------------------------------------------------------------------------
(* The reference of spec.md section 4.3: a packet of at most MTU_UDP bytes *)
(* goes out whole; a longer one becomes ceil(len / MTU_UDP) fragments of   *)
(* MTU_UDP bytes but the last, with MF set on all but the last.            *)

ReferenceFragments(len, packetId, freshId) ==
    IF len <= MTU_UDP
    THEN << Frag(0, len, FALSE, packetId) >>
    ELSE LET n  == (len + MTU_UDP - 1) \div MTU_UDP
             id == IF packetId = 0 THEN freshId ELSE packetId
         IN  [i \in 1..n |->
                Frag((i - 1) * MTU_UDP,
                     IF i < n THEN MTU_UDP ELSE len - (n - 1) * MTU_UDP,
                     i < n, id)]

-----------------------------------------------------------------------------
(* One call of the fragmenter per step, on any input.                      *)

VARIABLES input, out
vars == <<input, out>>

Init == /\ input = [len |-> 0, ident |-> 0, fresh |-> 0]
        /\ out = << >>

Fragment(len, packetId, freshId) ==
    /\ input' = [len |-> len, ident |-> packetId, fresh |-> freshId]
    /\ out' = FragmentLargeUdpPacket(len, packetId, freshId)

Next == \E l \in UdpLens, i \in Idents, f \in FreshIds : Fragment(l, i, f)

Spec == Init /\ [][Next]_vars

-----------------------------------------------------------------------------
TypeOK ==
    /\ input \in [len : Nat, ident : 0..65535, fresh : 0..65535]
    /\ out \in Seq([offset : Nat, size : 0..MTU_UDP, mf : BOOLEAN, ident : 0..65535])

(***************************************************************************)
(* The emitted packets tile the UDP packet (spec.md section 3, invariant   *)
(* 5; section 8): they start at offset 0, each begins where the previous   *)
(* one ended, together they carry exactly len bytes, every packet but the  *)
(* last carries MTU_UDP bytes with MF set, the last carries at most        *)
(* MTU_UDP with MF clear, and all share one identification, which is not  *)
(* zero when the packet was split and the generator gave a non-zero id.    *)
(* This is the offset and remaining-length bookkeeping of the loop in      *)
(* fragment_large_udp_packet.                                              *)
(***************************************************************************)
FragmentsTile ==
    out # << >> =>
      LET n == Len(out) IN
      /\ out[1].offset = 0
      /\ out[n].offset + out[n].size = input.len
      /\ \A i \in 1..n-1 : /\ out[i+1].offset = out[i].offset + out[i].size
                           /\ out[i].size = MTU_UDP
                           /\ out[i].mf
      /\ out[n].size <= MTU_UDP /\ ~out[n].mf
      /\ \A i \in 1..n : out[i].ident = out[1].ident
      /\ (n > 1 /\ input.fresh # 0) => out[1].ident # 0

(***************************************************************************)
(* The fragmenter computes the reference of spec.md section 4.3: a UDP     *)
(* packet of at most MTU_UDP bytes is emitted as one unfragmented packet,  *)
(* and a longer one as ceil(len / MTU_UDP) fragments.                      *)
(***************************************************************************)
MatchesReference ==
    out # << >> => out = ReferenceFragments(input.len, input.ident, input.fresh)

=============================================================================
