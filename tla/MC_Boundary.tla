---------------------------- MODULE MC_Boundary ----------------------------
(* Two frames arrive at the driver while the client sends two, on buffers *)
(* of 8 bytes.  The arrivals can come before, during or after an          *)
(* iteration, so the iterator sees statuses 1, 0 and -1.  A queue of one   *)
(* frame makes a second frame tail-dropped while the first still waits.    *)
EXTENDS Boundary

MC_RxArrivals == << [id |-> 1, len |-> 3], [id |-> 2, len |-> 5] >>
MC_ClientFrames == << [id |-> 3, len |-> 2], [id |-> 4, len |-> 7] >>

\* The second arrival fills the buffer exactly.
MC_RxArrivalsFull == << [id |-> 1, len |-> 3], [id |-> 2, len |-> 8] >>
=============================================================================
