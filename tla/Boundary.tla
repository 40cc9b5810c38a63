----------------------------- MODULE Boundary -----------------------------
(***************************************************************************)
(* The boundary glue of src/src/utils.rs and the threads that use it.     *)
(* Two shared buffers, each with a Mutex (lines 14-41):                    *)
(*   ethdriver_buf, MTX_ETHDRIVER_BUF: used by                             *)
(*     rx: the ethdriver notification handler iterating EthdriverRxStatus  *)
(*         (lines 191-230), one ethdriver_rx call and one                  *)
(*         sel4_buffer_fetch per item, then the ingress pipeline;          *)
(*     tx: the egress drain popping PACKETS_TX and calling                 *)
(*         dispatch_data_to_ethdriver (lines 183-189);                     *)
(*   client_buf, MTX_CLIENT_BUF: used by                                   *)
(*     crx: the client_rx handler popping PACKETS_RX and calling           *)
(*          copy_data_to_client_buf (lines 232-237);                       *)
(*     ctx: the client_tx handler calling fetch_client_data (lines         *)
(*          240-246), then the egress pipeline.                            *)
(* The Ethernet driver and the client are the environment.  Frames arrive  *)
(* at the driver in the order RxArrivals; each arrival raises the          *)
(* notification; during ethdriver_rx the driver copies its oldest pending  *)
(* frame into the buffer (spec.md sections 4.6 and 6).  The client writes  *)
(* the frames ClientFrames, in order, into client_buf before calling       *)
(* client_tx, and reads client_buf after client_rx returns.  The handler   *)
(* loops, the drain and the client lie outside src/ and are modelled from  *)
(* spec.md.  process_ethernet is abstracted to its effect on the queues:   *)
(* the frame is dropped or pushed, tail-dropped when the queue is full     *)
(* (Pipeline checks which frames pass).                                    *)
(*                                                                         *)
(* A frame is [id, len]; a buffer holds the frame last copied into it.     *)
(***************************************************************************)
EXTENDS Integers, Sequences, SequencesExt

CONSTANTS
    BUFFER_SIZE,            \* constants::BUFFER_SIZE
    MAX_ENQUEUED_PACKETS,   \* constants::MAX_ENQUEUED_PACKETS
    RxArrivals,             \* frames arriving at the driver, in order
    ClientFrames,           \* frames the client sends, in order
    CONCURRENT_CLIENT,      \* the client may call client_rx during client_tx
    None                    \* model value: a buffer before any copy

\* Frame ids increase along each sequence and differ between the two.
IdsIncrease(s) == \A i, j \in DOMAIN s : i < j => s[i].id < s[j].id

ASSUME /\ BUFFER_SIZE \in Nat \ {0}
       /\ MAX_ENQUEUED_PACKETS \in Nat \ {0}
       /\ CONCURRENT_CLIENT \in BOOLEAN
       \* spec.md section 3: a frame's length is bounded by BUFFER_SIZE.
       /\ \A f \in ToSet(RxArrivals) \cup ToSet(ClientFrames) : f.len \in 0..BUFFER_SIZE
       /\ IdsIncrease(RxArrivals) /\ IdsIncrease(ClientFrames)
       /\ ToSet(RxArrivals) \cap ToSet(ClientFrames) = {}

VARIABLES
    holder,     \* thread holding MTX_ETHDRIVER_BUF, or "none"
    buf,        \* content of the shared driver buffer
    arrived,    \* frames of RxArrivals the driver has got
    handed,     \* of those, frames handed over by ethdriver_rx
    notified,   \* a notification is pending
    rx,         \* the rx thread: pc, the iterator's `finished`, ret, len
    received,   \* frames the iterator yielded, in order
    rxq,        \* PACKETS_RX
    cholder,    \* thread holding MTX_CLIENT_BUF, or "none"
    cbuf,       \* content of the shared client buffer
    crx,        \* the client_rx handler: pc and the frame popped
    delivered,  \* frames the client read after client_rx, in order
    written,    \* frames of ClientFrames the client has written
    ctx,        \* the client_tx handler: pc, len and the frame fetched
    txq,        \* PACKETS_TX
    tx,         \* the egress drain: pc and the frame popped
    sent,       \* frames the driver took at ethdriver_tx, in order
    panicked    \* threads stopped by a panic

vars == <<holder, buf, arrived, handed, notified, rx, received, rxq, cholder,
          cbuf, crx, delivered, written, ctx, txq, tx, sent, panicked>>
rxVars == <<arrived, handed, notified, rx, received>>
clientVars == <<cholder, cbuf, crx, delivered, written, ctx>>

-----------------------------------------------------------------------------
(* Mutex::lock and Mutex::unlock (lines 30-40) call the host's lock and    *)
(* unlock: lock blocks until the lock is free.                             *)

Acquire(m, t) == m = "none" /\ m' = t
Release(m) == m' = "none"

\* The asserts of sel4_buffer_insert (line 156) and sel4_buffer_fetch (line
\* 168), the latter on `len as usize`: a negative i32 becomes a huge usize.
InsertFits(len) == len < BUFFER_SIZE
FetchFits(len) == len >= 0 /\ len < BUFFER_SIZE

\* The enqueue of process_ethernet (lines 333-338, 352-354): push while the
\* queue is below MAX_ENQUEUED_PACKETS, otherwise drop.
Push(q, f) == IF Len(q) < MAX_ENQUEUED_PACKETS THEN Append(q, f) ELSE q

\* process_ethernet on one frame: the pipeline drops it or passes it on.
Pipe(q, f) == {q, Push(q, f)}

Pending == handed < arrived

Panic(t) == panicked' = panicked \cup {t}

-----------------------------------------------------------------------------
(* The driver (spec_modelled: outside src/).                               *)

\* A frame arrives at the driver, which raises the notification.
Arrive ==
    /\ arrived < Len(RxArrivals)
    /\ arrived' = arrived + 1 /\ notified' = TRUE
    /\ UNCHANGED <<holder, buf, handed, rx, received, rxq, clientVars, txq, tx, sent, panicked>>

\* The notification handler starts `for frame in EthdriverRxStatus::new()`
\* (new: finished = false, lines 198-201).
Notify ==
    /\ rx.pc = "idle" /\ notified
    /\ notified' = FALSE
    /\ rx' = [rx EXCEPT !.pc = "next", !.finished = FALSE]
    /\ UNCHANGED <<holder, buf, arrived, handed, received, rxq, clientVars, txq, tx, sent, panicked>>

-----------------------------------------------------------------------------
(* The rx thread: EthdriverRxStatus::next, lines 207-229, and the loop     *)
(* body.                                                                   *)

\* Lines 208-211: a finished iterator yields None and the loop ends;
\* otherwise the buffer lock is taken.
RxNext ==
    /\ rx.pc = "next"
    /\ IF rx.finished
       THEN rx' = [rx EXCEPT !.pc = "idle"] /\ UNCHANGED holder
       ELSE Acquire(holder, "rx") /\ rx' = [rx EXCEPT !.pc = "call"]
    /\ UNCHANGED <<buf, arrived, handed, notified, received, rxq, clientVars, txq, tx, sent, panicked>>

\* The driver's side of ethdriver_rx: it copies its oldest pending frame
\* into the buffer and returns 1 if more are pending, 0 if it was the last;
\* with nothing pending it returns -1 and leaves len alone.
DriverRx ==
    IF Pending
    THEN LET f == RxArrivals[handed + 1] IN
         /\ buf' = f /\ handed' = handed + 1
         /\ rx' = [rx EXCEPT !.pc = "fetch", !.len = f.len,
                             !.ret = IF handed + 1 < arrived THEN 1 ELSE 0]
    ELSE /\ rx' = [rx EXCEPT !.pc = "fetch", !.len = 0, !.ret = -1]
         /\ UNCHANGED <<buf, handed>>

\* Mutant: the lock is released right after the ethdriver_rx call.
RxCallEarlyUnlock ==
    /\ rx.pc = "call" /\ DriverRx /\ Release(holder)
    /\ UNCHANGED <<arrived, notified, received, rxq, clientVars, txq, tx, sent, panicked>>

\* Lines 212-213: len = 0, then ethdriver_rx(&mut len).
RxCall ==
    /\ rx.pc = "call" /\ DriverRx
    /\ UNCHANGED <<holder, arrived, notified, received, rxq, clientVars, txq, tx, sent, panicked>>

\* Mutant: `finished` is set on status 1 instead of 0.
RxFetchFinishedSwapped ==
    /\ rx.pc = "fetch"
    /\ CASE rx.ret = -1 ->
              Release(holder) /\ rx' = [rx EXCEPT !.pc = "idle"] /\ UNCHANGED <<received, panicked>>
         [] rx.ret \in {0, 1} /\ FetchFits(rx.len) ->
              /\ Release(holder) /\ received' = Append(received, buf)
              /\ rx' = [rx EXCEPT !.pc = "process", !.finished = (rx.ret = 1)]
              /\ UNCHANGED panicked
         [] OTHER ->
              Panic("rx") /\ rx' = [rx EXCEPT !.pc = "panicked"] /\ UNCHANGED <<holder, received>>
    /\ UNCHANGED <<buf, arrived, handed, notified, rxq, clientVars, txq, tx, sent>>

\* Mutant: the -1 arm returns None straight away, skipping the unlock.
RxFetchReturnWithoutUnlock ==
    /\ rx.pc = "fetch"
    /\ CASE rx.ret = -1 ->
              rx' = [rx EXCEPT !.pc = "idle"] /\ UNCHANGED <<holder, received, panicked>>
         [] rx.ret \in {0, 1} /\ FetchFits(rx.len) ->
              /\ Release(holder) /\ received' = Append(received, buf)
              /\ rx' = [rx EXCEPT !.pc = "process", !.finished = (rx.ret = 0)]
              /\ UNCHANGED panicked
         [] OTHER ->
              Panic("rx") /\ rx' = [rx EXCEPT !.pc = "panicked"] /\ UNCHANGED <<holder, received>>
    /\ UNCHANGED <<buf, arrived, handed, notified, rxq, clientVars, txq, tx, sent>>

\* Lines 215-228: -1 yields None (the loop ends, `finished` untouched); 0
\* or 1 yield the frame fetched from the buffer, 0 marking the iterator
\* finished; sel4_buffer_fetch's assert, or any other status, panics with
\* the lock held.  The lock is released before returning.
RxFetch ==
    /\ rx.pc = "fetch"
    /\ CASE rx.ret = -1 ->
              Release(holder) /\ rx' = [rx EXCEPT !.pc = "idle"] /\ UNCHANGED <<received, panicked>>
         [] rx.ret \in {0, 1} /\ FetchFits(rx.len) ->
              /\ Release(holder) /\ received' = Append(received, buf)
              /\ rx' = [rx EXCEPT !.pc = "process", !.finished = (rx.ret = 0)]
              /\ UNCHANGED panicked
         [] OTHER ->
              Panic("rx") /\ rx' = [rx EXCEPT !.pc = "panicked"] /\ UNCHANGED <<holder, received>>
    /\ UNCHANGED <<buf, arrived, handed, notified, rxq, clientVars, txq, tx, sent>>

\* The loop body: process_ethernet(frame, PACKETS_RX, .., true).
RxProcess ==
    /\ rx.pc = "process"
    /\ rxq' \in Pipe(rxq, Last(received))
    /\ rx' = [rx EXCEPT !.pc = "next"]
    /\ UNCHANGED <<holder, buf, arrived, handed, notified, received, clientVars, txq, tx, sent, panicked>>

-----------------------------------------------------------------------------
(* The client and its two calls (spec_modelled: the client and the        *)
(* handlers' bodies lie outside src/).  A client that is not concurrent    *)
(* makes one call at a time.                                               *)

Serial(other) == CONCURRENT_CLIENT \/ other.pc = "idle"

\* The client calls client_rx, whose handler pops the head of PACKETS_RX.
ClientRx ==
    /\ crx.pc = "idle" /\ Serial(ctx) /\ rxq # << >>
    /\ crx' = [pc |-> "copy", frame |-> Head(rxq)] /\ rxq' = Tail(rxq)
    /\ UNCHANGED <<holder, buf, rxVars, cholder, cbuf, delivered, written, ctx, txq, tx, sent, panicked>>

\* copy_data_to_client_buf, lines 232-237: lock, then sel4_buffer_insert
\* (its assert, then the copy).
CrxCopy ==
    /\ crx.pc = "copy" /\ Acquire(cholder, "crx")
    /\ IF InsertFits(crx.frame.len)
       THEN cbuf' = crx.frame /\ crx' = [crx EXCEPT !.pc = "unlock"] /\ UNCHANGED panicked
       ELSE Panic("crx") /\ crx' = [crx EXCEPT !.pc = "panicked"] /\ UNCHANGED cbuf
    /\ UNCHANGED <<holder, buf, rxVars, rxq, delivered, written, ctx, txq, tx, sent>>

\* Line 235: unlock, and client_rx returns the length to the client.
CrxUnlock ==
    /\ crx.pc = "unlock" /\ Release(cholder)
    /\ crx' = [crx EXCEPT !.pc = "read"]
    /\ UNCHANGED <<holder, buf, rxVars, rxq, cbuf, delivered, written, ctx, txq, tx, sent, panicked>>

\* The client reads the frame out of client_buf.
ClientRead ==
    /\ crx.pc = "read"
    /\ delivered' = Append(delivered, cbuf) /\ crx' = [crx EXCEPT !.pc = "idle"]
    /\ UNCHANGED <<holder, buf, rxVars, rxq, cholder, cbuf, written, ctx, txq, tx, sent, panicked>>

\* The client writes its next frame into client_buf and calls client_tx
\* with its length.
ClientTx ==
    /\ ctx.pc = "idle" /\ Serial(crx) /\ written < Len(ClientFrames)
    /\ LET f == ClientFrames[written + 1] IN
       /\ cbuf' = f /\ written' = written + 1
       /\ ctx' = [pc |-> "fetch", len |-> f.len, frame |-> None]
    /\ UNCHANGED <<holder, buf, rxVars, rxq, cholder, crx, delivered, txq, tx, sent, panicked>>

\* fetch_client_data(len), lines 240-244: lock, then sel4_buffer_fetch (its
\* assert, then the copy out).
CtxFetch ==
    /\ ctx.pc = "fetch" /\ Acquire(cholder, "ctx")
    /\ IF FetchFits(ctx.len)
       THEN ctx' = [ctx EXCEPT !.pc = "process", !.frame = cbuf] /\ UNCHANGED panicked
       ELSE Panic("ctx") /\ ctx' = [ctx EXCEPT !.pc = "panicked"]
    /\ UNCHANGED <<holder, buf, rxVars, rxq, cbuf, crx, delivered, written, txq, tx, sent>>

\* Line 244, unlock; then the handler runs process_ethernet(frame,
\* PACKETS_TX, .., false).
CtxProcess ==
    /\ ctx.pc = "process" /\ Release(cholder)
    /\ txq' \in Pipe(txq, ctx.frame)
    /\ ctx' = [ctx EXCEPT !.pc = "idle"]
    /\ UNCHANGED <<holder, buf, rxVars, rxq, cbuf, crx, delivered, written, tx, sent, panicked>>

-----------------------------------------------------------------------------
(* The egress drain: pop PACKETS_TX (spec_modelled), then                  *)
(* dispatch_data_to_ethdriver, lines 183-189.                              *)

TxPop ==
    /\ tx.pc = "idle" /\ txq # << >>
    /\ tx' = [pc |-> "lock", frame |-> Head(txq)] /\ txq' = Tail(txq)
    /\ UNCHANGED <<holder, buf, rxVars, rxq, clientVars, sent, panicked>>

\* Line 184.
TxLock ==
    /\ tx.pc = "lock" /\ Acquire(holder, "tx")
    /\ tx' = [tx EXCEPT !.pc = "insert"]
    /\ UNCHANGED <<buf, rxVars, rxq, clientVars, txq, sent, panicked>>

\* Line 185, sel4_buffer_insert (lines 152-162): the assert of line 156,
\* then the copy into the buffer.
TxInsert ==
    /\ tx.pc = "insert"
    /\ IF InsertFits(tx.frame.len)
       THEN buf' = tx.frame /\ tx' = [tx EXCEPT !.pc = "send"] /\ UNCHANGED panicked
       ELSE Panic("tx") /\ tx' = [tx EXCEPT !.pc = "panicked"] /\ UNCHANGED buf
    /\ UNCHANGED <<holder, rxVars, rxq, clientVars, txq, sent>>

\* Lines 186-188: ethdriver_tx(len) makes the driver take the buffer's
\* content; then the lock is released.
TxSend ==
    /\ tx.pc = "send"
    /\ sent' = Append(sent, buf) /\ Release(holder)
    /\ tx' = [tx EXCEPT !.pc = "idle"]
    /\ UNCHANGED <<buf, rxVars, rxq, clientVars, txq, panicked>>

\* Every frame has arrived, been sent by the client and worked off.
Terminating ==
    /\ arrived = Len(RxArrivals) /\ written = Len(ClientFrames) /\ ~notified
    /\ rxq = << >> /\ txq = << >>
    /\ \A th \in {rx, crx, ctx, tx} : th.pc = "idle"
    /\ UNCHANGED vars

Init == /\ holder = "none" /\ cholder = "none"
        /\ buf = None /\ cbuf = None
        /\ arrived = 0 /\ handed = 0
        /\ notified = FALSE
        /\ rx = [pc |-> "idle", finished |-> FALSE, ret |-> -1, len |-> 0]
        /\ received = << >> /\ rxq = << >> /\ txq = << >>
        /\ crx = [pc |-> "idle", frame |-> None]
        /\ ctx = [pc |-> "idle", len |-> 0, frame |-> None]
        /\ delivered = << >> /\ written = 0
        /\ tx = [pc |-> "idle", frame |-> None]
        /\ sent = << >>
        /\ panicked = {}

Next == \/ Arrive \/ Notify
        \/ RxNext \/ RxCall \/ RxFetch \/ RxProcess
        \/ ClientRx \/ CrxCopy \/ CrxUnlock \/ ClientRead
        \/ ClientTx \/ CtxFetch \/ CtxProcess
        \/ TxPop \/ TxLock \/ TxInsert \/ TxSend
        \/ Terminating

\* The host schedules every runnable thread and delivers every raised
\* notification: weak fairness on each step of the firewall's threads once
\* they run.  What the driver receives and what the client asks for is the
\* environment and is not forced.
Fairness == /\ WF_vars(Notify)
            /\ WF_vars(RxNext) /\ WF_vars(RxCall) /\ WF_vars(RxFetch) /\ WF_vars(RxProcess)
            /\ WF_vars(CrxCopy) /\ WF_vars(CrxUnlock) /\ WF_vars(CtxFetch) /\ WF_vars(CtxProcess)
            /\ WF_vars(TxPop) /\ WF_vars(TxLock) /\ WF_vars(TxInsert) /\ WF_vars(TxSend)

Spec == Init /\ [][Next]_vars /\ Fairness

-----------------------------------------------------------------------------
\* s is made of frames of src, in the order of src, none twice.
OrderedFrom(s, src) ==
    /\ \A i \in DOMAIN s : s[i] \in ToSet(src)
    /\ IdsIncrease(s)

(***************************************************************************)
(* Frames keep their direction and their order across both shared         *)
(* buffers and both queues: what the client reads after client_rx is made  *)
(* of frames that arrived at the driver, in arrival order, and what the    *)
(* driver takes at ethdriver_tx is made of frames the client sent, in      *)
(* order.  No frame is read twice, and none is copied into the wrong       *)
(* direction by a thread writing the same buffer.  It rests on             *)
(* MTX_ETHDRIVER_BUF covering the ethdriver_rx call and the fetch in       *)
(* next() (lines 211-227) and the insert and ethdriver_tx in dispatch      *)
(* (lines 184-187), and on MTX_CLIENT_BUF around the two client copies     *)
(* (lines 232-246).                                                        *)
(***************************************************************************)
FramesKeepDirectionAndOrder ==
    OrderedFrom(delivered, RxArrivals) /\ OrderedFrom(sent, ClientFrames)

(***************************************************************************)
(* spec.md section 3 bounds a frame by BUFFER_SIZE, and section 6 expects  *)
(* every status but -1, 0, 1 to abort: a frame within the bound never      *)
(* makes sel4_buffer_insert or sel4_buffer_fetch panic, whichever buffer   *)
(* it crosses.                                                             *)
(***************************************************************************)
FittingFramesNeverPanic == panicked = {}

(***************************************************************************)
(* Every frame that arrives at the driver is eventually yielded by the     *)
(* iterator: no notification is lost, and the loop does not end while the *)
(* driver still holds frames.  It rests on the iterator ending only on     *)
(* status 0 (the last frame) or -1 (nothing pending) at lines 216-220.     *)
(***************************************************************************)
ArrivedFramesReceived ==
    \A i \in 1..Len(RxArrivals) : (arrived >= i) ~> (Len(received) >= i)

(***************************************************************************)
(* Every frame the egress pipeline queues in PACKETS_TX is eventually      *)
(* taken by the driver: the drain never waits forever on                   *)
(* MTX_ETHDRIVER_BUF.  The rx thread takes that lock on every next() and   *)
(* must release it on each of the paths of lines 215-228, whatever the     *)
(* driver returned, or dispatch (line 184) blocks for good.                *)
(***************************************************************************)
QueuedEgressFramesSent ==
    \A f \in ToSet(ClientFrames) : Contains(txq, f) ~> Contains(sent, f)

=============================================================================
