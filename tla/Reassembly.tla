---------------------------- MODULE Reassembly ----------------------------
(***************************************************************************)
(* What a reassembly table promises (spec.md section 4.2), without its     *)
(* slots, buffers, byte ranges or clock: for each key, the datagrams whose *)
(* fragments were received since the key's accumulation started.  At     *)
(* most SUPPORTED_FRAGMENTS keys accumulate at once.  On a fragment of    *)
(* key k:                                                                  *)
(*   - with k not accumulating and no room, it is refused;                 *)
(*   - otherwise some other keys may be dropped (stale), and then the       *)
(*     fragment is kept, or k's fragments are all discarded, or k's        *)
(*     datagram is delivered, made of bytes of k's fragments only, and k   *)
(*     starts afresh.                                                      *)
(* It leaves open when a key goes stale and when a datagram is complete.  *)
(***************************************************************************)
EXTENDS Naturals, FiniteSets

CONSTANTS
    SUPPORTED_FRAGMENTS,
    Datagrams,          \* [key, len, ...] records of whole datagrams
    AllFragments,       \* fragments: [dg, off, size, mf] slices of them
    NoKey

VARIABLES held, outcome, dgram
vars == <<held, outcome, dgram>>

Keys == {d.key : d \in Datagrams}

Init == /\ held = [k \in Keys |-> {}]
        /\ outcome = "None"
        /\ dgram = [key |-> NoKey, srcs |-> {}]

Busy(h) == {k \in Keys : h[k] # {}}

Receive(f) ==
    LET k == f.dg.key IN
    \/ /\ held[k] = {} /\ Cardinality(Busy(held)) >= SUPPORTED_FRAGMENTS
       /\ outcome' = "FragmentSetFull" /\ dgram' = [key |-> NoKey, srcs |-> {}]
       /\ UNCHANGED held
    \/ \E stale \in SUBSET (Busy(held) \ {k}) :
         LET h == [j \in Keys |-> IF j \in stale THEN {} ELSE held[j]] IN
         /\ Cardinality(Busy(h) \cup {k}) <= SUPPORTED_FRAGMENTS
         /\ \/ /\ outcome' = "Fragmented" /\ held' = [h EXCEPT ![k] = @ \cup {f.dg}]
               /\ dgram' = [key |-> NoKey, srcs |-> {}]
            \/ /\ outcome' = "TooManyFragments" /\ held' = [h EXCEPT ![k] = {}]
               /\ dgram' = [key |-> NoKey, srcs |-> {}]
            \/ /\ outcome' = "Assembled" /\ held' = [h EXCEPT ![k] = {}]
               /\ \E srcs \in (SUBSET (h[k] \cup {f.dg})) \ {{}} :
                     dgram' = [key |-> k, srcs |-> srcs]

Next == \E f \in AllFragments : Receive(f)

Spec == Init /\ [][Next]_vars

=============================================================================
