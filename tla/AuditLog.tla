------------------------------ MODULE AuditLog ------------------------------
(***************************************************************************)
(* The audit log (audit/src/lib.rs): a file of entries, each carrying the  *)
(* hash of the one before it.                                              *)
(*                                                                         *)
(* append reads the whole file, links a new entry to its last one and      *)
(* writes a line; it keeps nothing in memory.  A write may be cut short (a *)
(* full disk, a power loss): in the middle of the line, after which the    *)
(* file cannot be read any more, or just before its newline, after which   *)
(* it can, but the next line is glued to it.                               *)
(*                                                                         *)
(* A hash is a sequence that determines everything it was computed from.   *)
(***************************************************************************)
EXTENDS Naturals, Sequences

CONSTANTS
  Writers,       \* processes that append
  Events,        \* what is recorded
  MaxEntries,    \* bound on the entries of a file still appended to
  MaxEdits       \* bound on edits by hand

ASSUME AuditAssumption == MaxEntries \in Nat /\ MaxEdits \in Nat

VARIABLES
  log,           \* the entries of the file, in order
  tail,          \* how the file ends: "clean", "open" (no newline) or "cut"
  draft,         \* draft[d]: {}, or the entry append has linked to the file
  edits,         \* edits by hand so far
  heads          \* history: the hashes of the entries daemons have written

auditVars == <<log, tail, draft, edits, heads>>

Hashes == Seq(Nat \X Events)
Entries == [sequence : Nat \ {0}, previous : Hashes, hash : Hashes,
            event : Events]
GENESIS == <<>>

hash_entry(sequence, previous, e) == Append(previous, <<sequence, e>>)
Entry(sequence, previous, e) ==
  [sequence |-> sequence, previous |-> previous,
   hash |-> hash_entry(sequence, previous, e), event |-> e]

EventsOf(entries) == [k \in DOMAIN entries |-> entries[k].event]
Committed(hash) == [k \in DOMAIN hash |-> hash[k][2]]    \* the events behind it

AuditInit ==
  /\ log = <<>>
  /\ tail = "clean"
  /\ draft = [d \in Writers |-> {}]
  /\ edits = 0
  /\ heads = {}

NextEntryMutant(e) ==            \* counts from the entries' number, from zero
  IF log = <<>> THEN Entry(0, GENESIS, e)
  ELSE Entry(Len(log), log[Len(log)].hash, e)

NextEntryStaleMutant(e) ==       \* links to the entry before the last one
  IF log = <<>> THEN Entry(1, GENESIS, e)
  ELSE Entry(log[Len(log)].sequence + 1, log[Len(log)].previous, e)

(* The sequence and the link come from the last entry, whatever the others. *)
NextEntry(e) ==
  IF log = <<>> THEN Entry(1, GENESIS, e)
  ELSE Entry(log[Len(log)].sequence + 1, log[Len(log)].hash, e)

(* read_all, with the process's audit mutex held until the write.  A file cut
   short fails to parse, and the daemon drops that error with the event. *)
AppendRead(d) ==
  /\ draft[d] = {}
  /\ tail # "cut"
  /\ Len(log) < MaxEntries
  /\ \E e \in Events : draft' = [draft EXCEPT ![d] = {NextEntry(e)}]
  /\ UNCHANGED <<log, tail, edits, heads>>

Written(entry) ==
  /\ log' = Append(log, entry)
  /\ heads' = heads \cup {entry.hash}

(* A line written after one without a newline is glued to it: neither can be
   read again. *)
AppendWrite(d) ==
  /\ \E entry \in draft[d] :
       \/ tail = "clean" /\ Written(entry) /\ UNCHANGED tail
       \/ /\ tail # "clean"
          /\ tail' = "cut"
          /\ log' = IF tail = "open" THEN SubSeq(log, 1, Len(log) - 1) ELSE log
          /\ UNCHANGED heads
  /\ draft' = [draft EXCEPT ![d] = {}]
  /\ UNCHANGED edits

AppendCut(d) ==
  /\ tail = "clean"
  /\ \E entry \in draft[d] :
       \/ tail' = "cut" /\ UNCHANGED <<log, heads>>
       \/ tail' = "open" /\ Written(entry)
  /\ draft' = [draft EXCEPT ![d] = {}]
  /\ UNCHANGED edits

AppendLost(d) ==         \* nothing is written: an I/O error, or the process ends
  /\ draft' = [draft EXCEPT ![d] = {}]
  /\ UNCHANGED <<log, tail, edits, heads>>

(* Someone edits an event or removes a line, and recomputes no hash. *)
EditByHand ==
  /\ edits < MaxEdits
  /\ tail = "clean"
  /\ edits' = edits + 1
  /\ \/ \E k \in DOMAIN log : \E e \in Events \ {log[k].event} :
          log' = [log EXCEPT ![k].event = e]
     \/ \E k \in DOMAIN log :
          log' = SubSeq(log, 1, k - 1) \o SubSeq(log, k + 1, Len(log))
  /\ UNCHANGED <<tail, draft, heads>>

VerifyMutant(entries) ==         \* trusts the stored hashes
  \A k \in DOMAIN entries :
    /\ entries[k].sequence = k
    /\ entries[k].previous = IF k = 1 THEN GENESIS ELSE entries[k - 1].hash

(* verify answers Intact; otherwise it names the first entry that is not. *)
Verify(entries) ==
  \A k \in DOMAIN entries :
    /\ entries[k].sequence = k
    /\ entries[k].previous = IF k = 1 THEN GENESIS ELSE entries[k - 1].hash
    /\ entries[k].hash =
         hash_entry(entries[k].sequence, entries[k].previous, entries[k].event)

Intact == tail # "cut" /\ Verify(log)

-----------------------------------------------------------------------------
(* Properties *)

AuditTypeOK ==
  /\ log \in Seq(Entries)
  /\ tail \in {"clean", "open", "cut"}
  /\ draft \in [Writers -> SUBSET Entries]
  /\ edits \in 0 .. MaxEdits
  /\ heads \subseteq Hashes

(* Daemons alone never break the chain: while nobody edits the file, what can
   be read of it verifies, across restarts, lost and half-written entries.  And
   what they recorded stays where it was: of the entries ever written in full a
   write cut short costs the last one at most, and nothing else costs any. *)
Stays(head) ==
  \A k \in DOMAIN head :
    k < Len(head) \/ tail # "cut" =>
      k \in DOMAIN log /\ log[k].event = Committed(head)[k]

LogVerifies == edits = 0 => Verify(log) /\ \A head \in heads : Stays(head)

(* A log that verifies holds a history a daemon recorded, whatever was edited
   in it or removed from it and however many entries followed. *)
VerifiedIsRecorded ==
  Intact /\ log # <<>> => \E head \in heads : EventsOf(log) = Committed(head)
=============================================================================
