--------------------------- MODULE StaticCounters ---------------------------
(***************************************************************************)
(* The two `static mut` counters of src/src/utils.rs:                      *)
(*   get_pseudorandom_packet_id (lines 268-274): SEED: u16 = 42,           *)
(*       `SEED += 1; SEED`, called by the fragmenter (line 406) with no    *)
(*       lock held;                                                        *)
(*   timestamp() (lines 277-284): MS: i64 = 0, `MS += 1`, then             *)
(*       Instant::from_millis(MS), called by process_ipv4 (line 572) under *)
(*       the fragment lock of its own direction.                           *)
(* The ingress pipeline (ethdriver notification) and the egress pipeline   *)
(* (client_tx) run on different threads and hold different fragment locks *)
(* (FRAGMENTS_RX, FRAGMENTS_TX), so nothing serialises their accesses: a   *)
(* data race.  `X += 1` on a static is a load and a store; the value       *)
(* returned is a second read of X, which the compiler may also take from   *)
(* the register that was stored.  Both outcomes are allowed.               *)
(***************************************************************************)
EXTENDS Integers, Sequences, Functions

CONSTANTS
    Threads,     \* the pipeline threads calling the counters
    MaxCalls,    \* calls each thread makes (bound of the exploration)
    SeedStart,   \* values SEED can hold when the exploration starts
    OVERFLOW_CHECKS  \* the build traps integer overflow (debug profile)

ASSUME /\ MaxCalls \in Nat
       /\ SeedStart \subseteq 0..65535
       /\ OVERFLOW_CHECKS \in BOOLEAN

Fns == {"timestamp", "packet_id"}

VARIABLES
    MS, SEED,    \* the two statics
    pc,          \* per thread: "idle", or inside `X += 1` after the load
                 \* ("loaded") or after the store ("stored"), or
                 \* "panicked" on an overflow the build traps
    fn,          \* per thread: the function being executed
    reg,         \* per thread: the value loaded
    calls,       \* per thread: calls started
    tsSeen,      \* per thread: timestamps returned, in order
    idSeen       \* per thread: packet ids returned, in order

vars == <<MS, SEED, pc, fn, reg, calls, tsSeen, idSeen>>

Init == /\ MS = 0
        /\ SEED \in SeedStart
        /\ pc = [t \in Threads |-> "idle"]
        /\ fn = [t \in Threads |-> "timestamp"]
        /\ reg = [t \in Threads |-> 0]
        /\ calls = [t \in Threads |-> 0]
        /\ tsSeen = [t \in Threads |-> << >>]
        /\ idSeen = [t \in Threads |-> << >>]

\* The static a function increments, read as a value.
Static(f) == IF f = "timestamp" THEN MS ELSE SEED

\* The load of `X += 1`.
Load(t, f) ==
    /\ pc[t] = "idle" /\ calls[t] < MaxCalls
    /\ pc' = [pc EXCEPT ![t] = "loaded"]
    /\ fn' = [fn EXCEPT ![t] = f]
    /\ reg' = [reg EXCEPT ![t] = Static(f)]
    /\ calls' = [calls EXCEPT ![t] = @ + 1]
    /\ UNCHANGED <<MS, SEED, tsSeen, idSeen>>

\* Mutant: the store of `MS += 1` decrements (`MS -= 1`).
StoreTsDecrement(t) ==
    /\ pc[t] = "loaded"
    /\ IF fn[t] = "packet_id" /\ reg[t] = 65535 /\ OVERFLOW_CHECKS
       THEN pc' = [pc EXCEPT ![t] = "panicked"] /\ UNCHANGED <<MS, SEED>>
       ELSE /\ pc' = [pc EXCEPT ![t] = "stored"]
            /\ IF fn[t] = "timestamp"
               THEN MS' = reg[t] - 1 /\ UNCHANGED SEED
               ELSE SEED' = (reg[t] + 1) % 65536 /\ UNCHANGED MS
    /\ UNCHANGED <<fn, reg, calls, tsSeen, idSeen>>

\* The store of `MS += 1` (i64, no overflow within reach) or of
\* `SEED += 1` (u16): at 65535 it wraps to 0 in a build without overflow
\* checks and panics ("attempt to add with overflow") in one with them.
Store(t) ==
    /\ pc[t] = "loaded"
    /\ IF fn[t] = "packet_id" /\ reg[t] = 65535 /\ OVERFLOW_CHECKS
       THEN pc' = [pc EXCEPT ![t] = "panicked"] /\ UNCHANGED <<MS, SEED>>
       ELSE /\ pc' = [pc EXCEPT ![t] = "stored"]
            /\ IF fn[t] = "timestamp"
               THEN MS' = reg[t] + 1 /\ UNCHANGED SEED
               ELSE SEED' = (reg[t] + 1) % 65536 /\ UNCHANGED MS
    /\ UNCHANGED <<fn, reg, calls, tsSeen, idSeen>>

\* Reading the static for the return value: the stored register or the
\* static as it is now.
Return(t) ==
    /\ pc[t] = "stored"
    /\ \E v \in {Static(fn[t]), IF fn[t] = "timestamp" THEN reg[t] + 1
                                ELSE (reg[t] + 1) % 65536} :
          IF fn[t] = "timestamp"
          THEN tsSeen' = [tsSeen EXCEPT ![t] = Append(@, v)] /\ UNCHANGED idSeen
          ELSE idSeen' = [idSeen EXCEPT ![t] = Append(@, v)] /\ UNCHANGED tsSeen
    /\ pc' = [pc EXCEPT ![t] = "idle"]
    /\ UNCHANGED <<MS, SEED, fn, reg, calls>>

\* Every thread has made its calls.
Terminating ==
    /\ \A t \in Threads : pc[t] = "idle" /\ calls[t] = MaxCalls
    /\ UNCHANGED vars

Next == \/ \E t \in Threads, f \in Fns : Load(t, f)
        \/ \E t \in Threads : Store(t) \/ Return(t)
        \/ Terminating

Spec == Init /\ [][Next]_vars

-----------------------------------------------------------------------------
TypeOK ==
    /\ MS \in Nat /\ SEED \in 0..65535
    /\ pc \in [Threads -> {"idle", "loaded", "stored", "panicked"}]
    /\ fn \in [Threads -> Fns]
    /\ calls \in [Threads -> 0..MaxCalls]
    /\ tsSeen \in [Threads -> Seq(Nat)]
    /\ idSeen \in [Threads -> Seq(0..65535)]

\* The timestamps a thread got increase (spec.md section 4.2: "the only
\* requirement is monotonicity"), so its table's staleness test never sees
\* time go back.
TimestampsMonotonic ==
    \A t \in Threads : \A i, j \in DOMAIN tsSeen[t] :
        i < j => tsSeen[t][i] < tsSeen[t][j]

\* The packet ids a thread got differ (spec.md section 4.3), so two
\* datagrams it fragments never share a fragment key.
FreshIdsDistinct ==
    \A t \in Threads : IsInjective(idSeen[t])

(***************************************************************************)
(* Neither counter hands a pipeline thread a value it already had: its     *)
(* timestamps increase and its packet ids differ.  Both come from the same *)
(* unlocked `X += 1; X` on a static mut, timestamp() at lines 277-284 and  *)
(* get_pseudorandom_packet_id at lines 268-274.                            *)
(***************************************************************************)
CountersNeverRepeat == TimestampsMonotonic /\ FreshIdsDistinct

(***************************************************************************)
(* The identification generator never aborts its caller: spec.md section  *)
(* 4.3 says of the u16 counter "Wrap-around is accepted".  About `SEED +=  *)
(* 1` at line 271 once SEED has reached 65535, 65493 calls after its      *)
(* initial 42, in a build that traps overflow; the fragmenter calling it   *)
(* (line 406) runs inside the egress or ingress pipeline.                 *)
(***************************************************************************)
IdGeneratorNeverPanics ==
    \A t \in Threads : pc[t] # "panicked"

=============================================================================
