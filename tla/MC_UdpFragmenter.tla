------------------------- MODULE MC_UdpFragmenter --------------------------
(* Instantiates UdpFragmenter with a 16-byte MTU and every UDP packet     *)
(* length from a bare 8-byte header with one payload byte up to three     *)
(* and a half MTUs, so that the unfragmented, exactly-one-MTU, two-, three-*)
(* and four-fragment cases and both identification branches all occur.    *)
EXTENDS UdpFragmenter

MC_MTU_UDP == 16
MC_UdpLens == 9..56
MC_Idents == {0, 7}
MC_FreshIds == {0, 43}
=============================================================================
