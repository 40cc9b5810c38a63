---------------------------- MODULE FragmentSet ----------------------------
(***************************************************************************)
(* One direction's IPv4 reassembly table (FRAGMENTS_RX or FRAGMENTS_TX of  *)
(* src/src/utils.rs, lines 98-116) and process_ipv4_fragment (lines        *)
(* 667-749), which feeds it one UDP fragment at a time.                    *)
(*                                                                         *)
(* The table itself is smoltcp's FragmentSet / FragmentedPacket, which is  *)
(* not part of this repository: its lookup policy, the byte ranges it      *)
(* records and its completion test are taken from spec.md section 4.2.     *)
(*                                                                         *)
(* Bytes are abstracted to positions of the reassembly buffer; a position  *)
(* records which datagram the byte written there came from (a ghost        *)
(* provenance, so that a property can tell datagrams apart).  A fragment   *)
(* is an honest slice of one datagram: its payload is bytes                *)
(* [off, off+size) of that datagram's IP payload, MF set unless it ends    *)
(* the datagram.  Offsets and lengths are in abstract units.               *)
(***************************************************************************)
EXTENDS Integers, FiniteSets, FiniteSetsExt

CONSTANTS
    SUPPORTED_FRAGMENTS,            \* entries per table
    MAX_REASSEMBLED_FRAGMENT_SIZE,  \* capacity of an entry's buffer
    IP_HEADER_LEN,                  \* header length of every fragment
    FRAGMENT_TIMEOUT,               \* staleness threshold of the lookup
    Datagrams,                      \* [key, len] records of whole datagrams
    NoKey,                          \* model value: key of an empty entry
    None                            \* model value: position not filled

ASSUME /\ SUPPORTED_FRAGMENTS \in Nat \ {0}
       /\ IP_HEADER_LEN \in Nat \ {0}
       /\ MAX_REASSEMBLED_FRAGMENT_SIZE > IP_HEADER_LEN
       /\ FRAGMENT_TIMEOUT \in Nat
       /\ \A d \in Datagrams : d.len \in Nat \ {0}

Slots == 1..SUPPORTED_FRAGMENTS
NoSlot == 0
Pos == 0..(MAX_REASSEMBLED_FRAGMENT_SIZE - 1)
Keys == {d.key : d \in Datagrams}

\* Every slice of a datagram that process_ipv4 treats as a fragment (line
\* 567: MF set or a non-zero offset), i.e. every slice but the whole.
Fragments(d) ==
    UNION { { [dg |-> d, off |-> o, size |-> s, mf |-> o + s < d.len] :
                s \in 1..(d.len - o) } : o \in 0..(d.len - 1) }
    \ { [dg |-> d, off |-> 0, size |-> d.len, mf |-> FALSE] }

(***************************************************************************)
(* An entry's last-touched timestamp matters only through the staleness    *)
(* test now - last > FRAGMENT_TIMEOUT, and timestamp() advances by one per *)
(* fragment.  An entry therefore keeps its age, now - last, saturated at   *)
(* FRAGMENT_TIMEOUT + 1.                                                   *)
(***************************************************************************)
Ages == 0..(FRAGMENT_TIMEOUT + 1)

AllFragments == UNION {Fragments(d) : d \in Datagrams}

\* frags is a ghost: the datagrams whose fragments the entry took since it
\* was started.
Entry == [key : Keys \cup {NoKey}, total : 0..MAX_REASSEMBLED_FRAGMENT_SIZE,
          data : [Pos -> Datagrams \cup {None}], age : Ages,
          frags : SUBSET Datagrams]

\* FragmentedPacket::new / reset: no key, total length unknown (0), no
\* byte range recorded.
EmptyEntry == [key |-> NoKey, total |-> 0, data |-> [p \in Pos |-> None], age |-> 0,
               frags |-> {}]

\* timestamp() (lines 277-284) moves time on by one: every started entry
\* gets one unit older.
Tick(entries) ==
    [s \in Slots |-> IF entries[s].key = NoKey THEN entries[s]
                     ELSE [entries[s] EXCEPT !.age = Min({@ + 1, FRAGMENT_TIMEOUT + 1})]]

-----------------------------------------------------------------------------
(* smoltcp's FragmentSet and FragmentedPacket, from spec.md section 4.2.   *)

\* Mutant: an empty entry is preferred to the one already holding the key.
GetPacketEmptyFirst(entries, key) ==
    LET match == {s \in Slots : entries[s].key = key}
        empty == {s \in Slots : entries[s].key = NoKey}
        stale == {s \in Slots : entries[s].age > FRAGMENT_TIMEOUT}
    IN  CASE empty # {} -> Min(empty)
          [] match # {} -> Min(match)
          [] stale # {} -> Min(stale)
          [] OTHER      -> NoSlot

\* FragmentSet::get_packet: (a) the entry holding the key, else (b) an
\* empty entry, else (c) a stale entry, which is reset; else none.
GetPacket(entries, key) ==
    LET match == {s \in Slots : entries[s].key = key}
        empty == {s \in Slots : entries[s].key = NoKey}
        stale == {s \in Slots : entries[s].age > FRAGMENT_TIMEOUT}
    IN  CASE match # {} -> Min(match)
          [] empty # {} -> Min(empty)
          [] stale # {} -> Min(stale)
          [] OTHER      -> NoSlot

\* Mutant: a stale entry is taken over for the new key without a reset.
ReusedNoReset(entries, s, key) ==
    IF entries[s].key \in {key, NoKey} THEN entries[s]
    ELSE [entries[s] EXCEPT !.key = key]

\* The entry get_packet hands out: a stale entry of another key is reset.
Reused(entries, s, key) ==
    IF entries[s].key \in {key, NoKey} THEN entries[s] ELSE EmptyEntry

\* Buffer positions FragmentedPacket::add writes: the first fragment
\* brings the header used for the reassembled datagram, later ones only
\* their payload, placed after the header at the fragment offset.
Written(f) ==
    IF f.off = 0 THEN 0..(IP_HEADER_LEN + f.size - 1)
    ELSE (IP_HEADER_LEN + f.off)..(IP_HEADER_LEN + f.off + f.size - 1)

Fits(f) == IP_HEADER_LEN + f.off + f.size <= MAX_REASSEMBLED_FRAGMENT_SIZE

\* Mutant: the staleness time is left as it was when the entry started.
AddKeepsAge(e, f) ==
    [e EXCEPT !.data = [p \in Pos |-> IF p \in Written(f) THEN f.dg ELSE e.data[p]],
              !.frags = @ \cup {f.dg}]

Add(e, f) ==
    [e EXCEPT !.data = [p \in Pos |-> IF p \in Written(f) THEN f.dg ELSE e.data[p]],
              !.age = 0, !.frags = @ \cup {f.dg}]

\* FragmentedPacket::front: length of the filled prefix of the buffer.
Front(e) == Max({n \in 0..MAX_REASSEMBLED_FRAGMENT_SIZE :
                    \A p \in 0..(n - 1) : e.data[p] # None})

\* FragmentedPacket::check_contig_range: the total length is known and
\* [0, total) is filled.
CheckContigRange(e) ==
    /\ e.total # 0
    /\ \A p \in 0..(e.total - 1) : p \in Pos /\ e.data[p] # None

-----------------------------------------------------------------------------
(* process_ipv4_fragment, src/src/utils.rs lines 667-749.                  *)

\* Mutant: the header length left out of the remembered total (spec.md
\* section 9 warns of this off-by-header-length error).
LastFragmentTotalLenNoHeader(f) == f.off + f.size

\* Line 698: the total length remembered from the last fragment is its
\* offset plus the IPv4 total_len field (header and payload).
LastFragmentTotalLen(f) == f.off + IP_HEADER_LEN + f.size

\* The entry after lines 684-699: started with the key if it was empty,
\* and given the total length if this is the last fragment.
Started(e, f) ==
    LET e1 == IF e.key = NoKey THEN [e EXCEPT !.key = f.dg.key] ELSE e
    IN  IF ~f.mf THEN [e1 EXCEPT !.total = LastFragmentTotalLen(f)] ELSE e1

\* The assembled datagram handed back at lines 730-742: its key, its
\* length and the datagrams its bytes came from.
Assembled(e) ==
    [key |-> e.key, len |-> Front(e),
     srcs |-> {e.data[p] : p \in 0..(Front(e) - 1)}]

NoDatagram == [key |-> NoKey, len |-> 0, srcs |-> {}]

\* Mutant: the entry is not reset when add fails (line 713 left out).
ProcessIpv4FragmentNoReset(entries, f) ==
    LET s == GetPacket(entries, f.dg.key)
        e == Started(Reused(entries, s, f.dg.key), f)
        a == Add(e, f)
    IN  CASE s = NoSlot ->
               [entries |-> entries, outcome |-> "FragmentSetFull", dgram |-> NoDatagram]
          [] ~Fits(f) ->
               [entries |-> [entries EXCEPT ![s] = e],
                outcome |-> "TooManyFragments", dgram |-> NoDatagram]
          [] CheckContigRange(a) ->
               [entries |-> [entries EXCEPT ![s] = EmptyEntry],
                outcome |-> "Assembled", dgram |-> Assembled(a)]
          [] OTHER ->
               [entries |-> [entries EXCEPT ![s] = a],
                outcome |-> "Fragmented", dgram |-> NoDatagram]

(***************************************************************************)
(* The whole of process_ipv4_fragment for fragment f, the table already   *)
(* advanced to the fragment's timestamp.  It                               *)
(* returns the new table, the outcome and the assembled datagram, if any:  *)
(*   "FragmentSetFull"  no entry (line 681);                               *)
(*   "TooManyFragments" add failed, entry reset (lines 711-715);           *)
(*   "Assembled"        [0,total) filled: the bytes are copied out and the *)
(*                      entry reset (lines 718-742);                       *)
(*   "Fragmented"       otherwise (line 746; the caller's Error::Fragmented)*)
(* fragment.front() returning None (line 726) cannot follow a successful  *)
(* check_contig_range, which needs a filled prefix, and is not a branch.   *)
(***************************************************************************)
ProcessIpv4Fragment(entries, f) ==
    LET s == GetPacket(entries, f.dg.key)
        e == Started(Reused(entries, s, f.dg.key), f)
        a == Add(e, f)
    IN  CASE s = NoSlot ->
               [entries |-> entries, outcome |-> "FragmentSetFull", dgram |-> NoDatagram]
          [] ~Fits(f) ->
               [entries |-> [entries EXCEPT ![s] = EmptyEntry],
                outcome |-> "TooManyFragments", dgram |-> NoDatagram]
          [] CheckContigRange(a) ->
               [entries |-> [entries EXCEPT ![s] = EmptyEntry],
                outcome |-> "Assembled", dgram |-> Assembled(a)]
          [] OTHER ->
               [entries |-> [entries EXCEPT ![s] = a],
                outcome |-> "Fragmented", dgram |-> NoDatagram]

-----------------------------------------------------------------------------
(* The table on its own: UDP fragments of any datagram arrive in any       *)
(* order, any number of times, and any of them may never arrive.           *)

VARIABLES entries, outcome, dgram,
          fkey,       \* ghost: key of the fragment last received
          sinceAdd    \* ghost: per held key, timestamps since its last
                      \* successful add (saturated), 0 for a key not held
vars == <<entries, outcome, dgram, fkey, sinceAdd>>

Init == /\ entries = [s \in Slots |-> EmptyEntry]
        /\ outcome = "None"
        /\ dgram = NoDatagram
        /\ fkey = NoKey
        /\ sinceAdd = [k \in Keys |-> 0]

\* The entries holding key k.
HeldBy(es, k) == {s \in Slots : es[s].key = k}

\* Lines 567-578 of process_ipv4: the fragment lock is taken, timestamp()
\* is called and process_ipv4_fragment runs on the fragment.  The ghost
\* sinceAdd counts timestamps per key, restarting on an add that
\* succeeded (spec.md section 4.2, Eviction), independently of the ages
\* the entries keep.
ReceiveFragment(f) ==
    LET r == ProcessIpv4Fragment(Tick(entries), f)
    IN  /\ entries' = r.entries
        /\ outcome' = r.outcome
        /\ dgram' = r.dgram
        /\ fkey' = f.dg.key
        /\ sinceAdd' = [k \in Keys |->
              IF HeldBy(r.entries, k) = {} \/ (k = f.dg.key /\ r.outcome = "Fragmented")
              THEN 0 ELSE Min({sinceAdd[k] + 1, FRAGMENT_TIMEOUT + 1})]

Next == \E d \in Datagrams : \E f \in Fragments(d) : ReceiveFragment(f)

Spec == Init /\ [][Next]_vars

-----------------------------------------------------------------------------
TypeOK ==
    /\ entries \in [Slots -> Entry]
    /\ outcome \in {"None", "FragmentSetFull", "TooManyFragments", "Assembled", "Fragmented"}
    /\ dgram.key \in Keys \cup {NoKey}

(***************************************************************************)
(* spec.md section 3, invariant 3: at most one entry of a table holds a   *)
(* given key.  It rests on get_packet preferring the entry that holds the  *)
(* key over an empty or stale one, across any order of fragment arrivals.  *)
(***************************************************************************)
UniqueKey ==
    \A s, t \in Slots :
        (s # t /\ entries[s].key # NoKey) => entries[s].key # entries[t].key

(***************************************************************************)
(* A datagram handed back by process_ipv4_fragment is made only of bytes   *)
(* of datagrams with its key (never bytes an evicted, failed or completed  *)
(* entry held for another key), and the datagram of a key no other         *)
(* datagram shares comes back whole: header plus every payload byte        *)
(* (spec.md section 8, reassembly in any permutation).  It relates the     *)
(* total length remembered at line 698, the completion test of line 718    *)
(* and the resets of lines 713 and 741 over arbitrary fragment orders,     *)
(* duplicates and losses.  (Two datagrams sharing a key can mix: the total *)
(* of one and the bytes of the other; that is inherent to keying by        *)
(* identification and is not claimed.)                                     *)
(***************************************************************************)
ReassembledIntact ==
    outcome = "Assembled" =>
        /\ \A d \in dgram.srcs : d.key = dgram.key
        /\ \A d \in Datagrams :
              (/\ dgram.srcs = {d}
               /\ \A d2 \in Datagrams : d2.key = d.key => d2 = d)
                 => dgram.len = IP_HEADER_LEN + d.len

(***************************************************************************)
(* The table implements the abstract Reassembly: under the mapping that   *)
(* gives each key the datagrams its entry took fragments of since it was  *)
(* started, every                                                          *)
(* step of process_ipv4_fragment refuses, keeps, discards or delivers as   *)
(* the abstract table may, and a delivered datagram is made of bytes of    *)
(* fragments of its key received since its entry was (re)started, never    *)
(* bytes left over from an entry's earlier key.  It checks get_packet's    *)
(* reuse of stale entries and the resets of lines 713 and 741.             *)
(***************************************************************************)
HeldFragments == [k \in Keys |-> UNION {entries[s].frags : s \in {s \in Slots : entries[s].key = k}}]

Abs == INSTANCE Reassembly WITH held <- HeldFragments,
                                dgram <- [key |-> dgram.key, srcs |-> dgram.srcs]

ImplementsReassembly == Abs!Spec

(***************************************************************************)
(* A key's accumulation is lost to another datagram's fragment only once  *)
(* the key has gone FRAGMENT_TIMEOUT timestamps without a successful add: *)
(* a step that takes the fragments held for key k away (its entry handed  *)
(* to another key and started, failed with TooManyFragments or completed  *)
(* for it) on a fragment of another key finds k's time since its last     *)
(* add, counted by the ghost sinceAdd, above the threshold.  It relates    *)
(* the age get_packet tests (line 681) with the timestamp() of line 572,   *)
(* the age reset on every add and the reuse of stale entries, over         *)
(* interleavings of slow and fast datagrams.                               *)
(***************************************************************************)
OnlyStaleKeysEvicted ==
    [][\A k \in Keys :
         /\ HeldFragments[k] # {} /\ HeldFragments'[k] = {}
         /\ fkey' # k
         => sinceAdd[k] + 1 > FRAGMENT_TIMEOUT]_vars

=============================================================================
