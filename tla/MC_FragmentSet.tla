-------------------------- MODULE MC_FragmentSet ---------------------------
(* Two entries and three keys, so that the table fills up and a stale     *)
(* entry is taken over; key K1 is carried by two different datagrams (an  *)
(* identification reused by the sender); the datagram of K3 is longer than *)
(* the reassembly buffer, so its tail fragments fail with                  *)
(* TooManyFragments.  A timeout of 2 makes an entry stale after three     *)
(* fragments of other datagrams.                                           *)
EXTENDS FragmentSet

CONSTANTS K1, K2, K3

MC_Datagrams == { [key |-> K1, len |-> 2], [key |-> K1, len |-> 3],
                  [key |-> K2, len |-> 3], [key |-> K3, len |-> 5] }
=============================================================================
