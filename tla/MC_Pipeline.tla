---------------------------- MODULE MC_Pipeline ----------------------------
(* The ingress pipeline (MAC check on) on a mix of frames: malformed, ARP  *)
(* for us and for another host, IPv6, an unknown EtherType, ICMP, TCP, a   *)
(* truncated IPv4 header, unfragmented UDP with a good and a bad header    *)
(* checksum and with a bad UDP checksum, an ICMP fragment, and the two fragments of a UDP datagram.    *)
(* The policy can drop (0, 33), accept a packet of exactly MTU_UDP bytes   *)
(* (8) or one needing three fragments (32); the queue holds two frames, so *)
(* a three-fragment packet is cut.  One table entry with a timeout of one  *)
(* lets fragments of the datagram be lost, evicted and refused.           *)
EXTENDS Pipeline

CONSTANTS KU, KF

\* An unfragmented UDP datagram (identification 0) and a fragmented one;
\* DB has DF's key and bytes but arrives with a corrupt IPv4 header
\* checksum.
DU == [key |-> KU, len |-> 1, ident |-> 0, payload |-> 5, udpOk |-> TRUE,
       content |-> 1, hdrOk |-> TRUE]
DF == [key |-> KF, len |-> 2, ident |-> 7, payload |-> 12, udpOk |-> TRUE,
       content |-> 2, hdrOk |-> TRUE]
DB == [DF EXCEPT !.hdrOk = FALSE]
\* An unfragmented UDP datagram with a wrong UDP checksum.
DX == [DU EXCEPT !.udpOk = FALSE, !.content = 3]

EthFrame(ok, dst, type) ==
    [ethOk |-> ok, dst |-> dst, eth |-> type, ipOk |-> TRUE, hdrOk |-> TRUE,
     proto |-> "None", dg |-> DU, frag |-> NoFrag]
IpFrame(proto, d, f, ipOk, hdrOk) ==
    [ethOk |-> TRUE, dst |-> "local", eth |-> "IPv4", ipOk |-> ipOk, hdrOk |-> hdrOk,
     proto |-> proto, dg |-> d, frag |-> f]
FragmentFrames(d) == { IpFrame("UDP", d, f, TRUE, d.hdrOk) : f \in FS!Fragments(d) }

MC_Frames ==
    { EthFrame(FALSE, "local", "ARP"), EthFrame(TRUE, "broadcast", "ARP"),
      EthFrame(TRUE, "remote", "ARP"), EthFrame(TRUE, "local", "IPv6"),
      EthFrame(TRUE, "multicast", "Other"),
      IpFrame("ICMP", DU, NoFrag, TRUE, TRUE), IpFrame("ICMP", DU, NoFrag, FALSE, TRUE),
      IpFrame("TCP", DU, NoFrag, TRUE, TRUE),
      IpFrame("UDP", DU, NoFrag, TRUE, TRUE), IpFrame("UDP", DU, NoFrag, TRUE, FALSE),
      IpFrame("UDP", DX, NoFrag, TRUE, TRUE),
      IpFrame("ICMP", DF, [dg |-> DF, off |-> 0, size |-> 1, mf |-> TRUE], TRUE, TRUE) }
    \cup FragmentFrames(DF)

MC_Datagrams == {DU, DX, DF}
MC_DatagramsCorrupt == {DU, DX, DF, DB}

MC_FramesCorrupt == MC_Frames \cup FragmentFrames(DB)

\* Policy results including a negative one (a drop, per the contract) and
\* one above the buffer capacity but within MAX_UDP_PACKET_SIZE.
MC_PolicyResultsWide == {-1, 0, 8, 28}
=============================================================================
