----------------------------- MODULE RunJournal -----------------------------
(***************************************************************************)
(* The hash-chained journal of one run directory (observability/journal.py *)
(* and _io.py): the file journal.ndjson, its head anchor, the OS lock, the *)
(* processes that open the directory (the run, then `compile` and          *)
(* `approve`).                                                             *)
(*                                                                         *)
(* Each write that reaches the disk on its own is an action, so that a     *)
(* process can die or the machine lose power between any two of them.      *)
(* A digest is modelled by a number no other record has, a record's        *)
(* payload is left out.  RunJournal._mutex serialises the appends of one   *)
(* process, so a process is at one place of one append.                    *)
(***************************************************************************)
EXTENDS Integers, Sequences

CONSTANTS Writers,      \* processes that may open the run directory
          NoWriter,     \* nobody holds the flock
          MaxRecords    \* bound on the records ever built

ASSUME JournalAssumption == /\ NoWriter \notin Writers
                            /\ MaxRecords \in Nat

VARIABLES
    exists,    \* does journal.ndjson exist?
    records,   \* its complete lines
    torn,      \* does it end in an incomplete line?
    anchor,    \* journal.head.json, or NoAnchor
    undo,      \* the anchor a power loss may bring back: renames are not synced
    fresh,     \* may a power loss undo the creation of journal.ndjson?
    owner,     \* who holds the flock on journal.lock
    pc,        \* where each process is
    head,      \* RunJournal.head of each process
    draft,     \* the record each process is appending
    hashes,    \* digests handed out so far
    acked      \* records append() has returned

disk    == <<exists, records, torn, anchor, undo, fresh>>
process == <<pc, head, draft>>
vars    == <<disk, owner, process, hashes, acked>>

-----------------------------------------------------------------------------
Record  == [seq : Nat, prev : Nat, hash : Nat]
JournalHead == [seq : Nat, hash : Nat]
NoAnchor == [seq |-> -1, hash |-> 0]
NoHead  == [seq |-> 0, hash |-> 0]
NoRecord == [seq |-> 0, prev |-> 0, hash |-> 0]

Places == {"closed", "opening", "create", "anchoring", "verifying",
           "ready", "write", "save", "ack"}
MidWrite == {"create", "anchoring", "write", "save", "ack"}

HashAt(s, n) == IF n = 0 THEN 0 ELSE s[n].hash
Tip(s)       == [seq |-> Len(s), hash |-> HashAt(s, Len(s))]
HeadOf(r)    == [seq |-> r.seq, hash |-> r.hash]

Chained(s) ==
    \A i \in DOMAIN s : s[i].seq = i /\ s[i].prev = HashAt(s, i - 1)

\* verify_chain_directory
Intact ==
    /\ anchor # NoAnchor
    /\ exists
    /\ ~torn
    /\ Chained(records)
    /\ anchor = Tip(records)

Init ==
    /\ exists = FALSE /\ records = <<>> /\ torn = FALSE
    /\ anchor = NoAnchor /\ undo = NoAnchor
    /\ fresh = FALSE
    /\ owner = NoWriter
    /\ pc = [w \in Writers |-> "closed"]
    /\ head = [w \in Writers |-> NoHead]
    /\ draft = [w \in Writers |-> NoRecord]
    /\ hashes = 0
    /\ acked = {}

Goto(w, place) == pc' = [pc EXCEPT ![w] = place]

-----------------------------------------------------------------------------
(* Opening: RunJournal.__init__                                            *)

\* WriterLock: the flock is free, or WriterBusyError.
AcquireLock(w) ==
    /\ pc[w] = "closed"
    /\ owner = NoWriter
    /\ owner' = w
    /\ head' = [head EXCEPT ![w] = NoHead]
    /\ Goto(w, "opening")
    /\ UNCHANGED <<disk, draft, hashes, acked>>

\* Only a directory with neither file is a new run.
LookAtFiles(w) ==
    /\ pc[w] = "opening"
    /\ Goto(w, IF ~exists /\ anchor = NoAnchor THEN "create" ELSE "verifying")
    /\ UNCHANGED <<disk, owner, head, draft, hashes, acked>>

\* The empty file is renamed into place; nothing syncs the directory.
CreateFile(w) ==
    /\ pc[w] = "create"
    /\ exists' = TRUE /\ records' = <<>> /\ torn' = FALSE /\ fresh' = TRUE
    /\ Goto(w, "anchoring")
    /\ UNCHANGED <<anchor, undo, owner, head, draft, hashes, acked>>

\* _save_head: write and fsync a temporary file, which makes the creation of
\* the journal durable, then replace the anchor.
SaveAnchor(new) == anchor' = new /\ undo' = anchor /\ fresh' = FALSE

CreateAnchor(w) ==
    /\ pc[w] = "anchoring"
    /\ SaveAnchor(head[w])
    /\ Goto(w, "verifying")
    /\ UNCHANGED <<exists, records, torn, owner, head, draft, hashes, acked>>

Open_Repairs(w) ==                                   \* mutant: a late anchor is repaired
    /\ pc[w] = "verifying"
    /\ head' = [head EXCEPT ![w] = Tip(records)]
    /\ SaveAnchor(Tip(records))
    /\ Goto(w, "ready")
    /\ UNCHANGED <<exists, records, torn, owner, draft, hashes, acked>>

\* _assert_intact, then the head is loaded; or BrokenChainError and close.
Open(w) ==
    /\ pc[w] = "verifying"
    /\ IF Intact
       THEN /\ head' = [head EXCEPT ![w] = anchor]
            /\ Goto(w, "ready")
            /\ UNCHANGED owner
       ELSE /\ Goto(w, "closed")
            /\ owner' = NoWriter
            /\ UNCHANGED head
    /\ UNCHANGED <<disk, draft, hashes, acked>>

Close(w) ==
    /\ pc[w] = "ready"
    /\ owner' = NoWriter
    /\ Goto(w, "closed")
    /\ UNCHANGED <<disk, head, draft, hashes, acked>>

-----------------------------------------------------------------------------
(* Appending: RunJournal.append                                            *)

StartAppend_Unchecked(w) ==                          \* mutant: no _assert_intact
    /\ pc[w] = "ready"
    /\ hashes < MaxRecords
    /\ hashes' = hashes + 1
    /\ draft' = [draft EXCEPT ![w] = [seq |-> head[w].seq + 1,
                                      prev |-> head[w].hash,
                                      hash |-> hashes']]
    /\ Goto(w, "write")
    /\ UNCHANGED <<disk, owner, head, acked>>

\* _assert_intact and the new record; a broken chain raises.
StartAppend(w) ==
    /\ pc[w] = "ready"
    /\ hashes < MaxRecords
    /\ Intact
    /\ hashes' = hashes + 1
    /\ draft' = [draft EXCEPT ![w] = [seq |-> head[w].seq + 1,
                                      prev |-> head[w].hash,
                                      hash |-> hashes']]
    /\ Goto(w, "write")
    /\ UNCHANGED <<disk, owner, head, acked>>

\* write_bytes(append=True): the whole line is on disk.  The fsync also
\* makes an earlier rename of the anchor durable.
WriteRecord(w) ==
    /\ pc[w] = "write"
    /\ records' = Append(records, draft[w])
    /\ undo' = anchor
    /\ Goto(w, "save")
    /\ UNCHANGED <<exists, torn, anchor, fresh, owner, head, draft, hashes, acked>>

\* ... or only a part of it, or none, and write_bytes raises.
WriteFails(w) ==
    /\ pc[w] = "write"
    /\ torn' \in BOOLEAN
    /\ undo' \in {undo, anchor}
    /\ Goto(w, "ready")
    /\ UNCHANGED <<exists, records, anchor, fresh, owner, head, draft, hashes, acked>>

SaveHead(w) ==
    /\ pc[w] = "save"
    /\ SaveAnchor(HeadOf(draft[w]))
    /\ Goto(w, "ack")
    /\ UNCHANGED <<exists, records, torn, owner, head, draft, hashes, acked>>

\* _save_head raises: self.head keeps its old value, the file does not.
SaveFails(w) ==
    /\ pc[w] = "save"
    /\ Goto(w, "ready")
    /\ UNCHANGED <<disk, owner, head, draft, hashes, acked>>

\* self.head = head; return record
Acknowledge(w) ==
    /\ pc[w] = "ack"
    /\ head' = [head EXCEPT ![w] = HeadOf(draft[w])]
    /\ acked' = acked \cup {draft[w]}
    /\ Goto(w, "ready")
    /\ UNCHANGED <<disk, owner, draft, hashes>>

-----------------------------------------------------------------------------
(* Dying                                                                   *)

\* The process dies; the OS drops its flock.  A line it was writing may have
\* got to the disk in part.
Crash(w) ==
    /\ pc[w] # "closed"
    /\ Goto(w, "closed")
    /\ owner' = NoWriter
    /\ torn' \in IF pc[w] = "write" THEN BOOLEAN ELSE {torn}
    /\ UNCHANGED <<exists, records, anchor, undo, fresh, head, draft, hashes, acked>>

\* Power is lost: every process is gone, and with it perhaps the last rename,
\* of the anchor or of the new journal.
PowerLoss ==
    /\ \E w \in Writers : pc[w] # "closed"
    /\ pc' = [w \in Writers |-> "closed"]
    /\ owner' = NoWriter
    /\ anchor' \in {anchor, undo}
    /\ undo' = anchor'
    /\ exists' \in IF fresh THEN BOOLEAN ELSE {exists}
    /\ fresh' = FALSE
    /\ torn' \in IF \E w \in Writers : pc[w] = "write" THEN BOOLEAN ELSE {torn}
    /\ UNCHANGED <<records, head, draft, hashes, acked>>

-----------------------------------------------------------------------------
Step(w) ==
    \/ AcquireLock(w) \/ LookAtFiles(w) \/ CreateFile(w) \/ CreateAnchor(w)
    \/ Open(w) \/ Close(w)
    \/ StartAppend(w) \/ WriteRecord(w) \/ WriteFails(w)
    \/ SaveHead(w) \/ SaveFails(w) \/ Acknowledge(w)
    \/ Crash(w)

Next ==
    \/ \E w \in Writers : Step(w)
    \/ PowerLoss

Spec == Init /\ [][Next]_vars

-----------------------------------------------------------------------------
(* Properties                                                              *)

\* The journal's variables keep their types.
TypeOK ==
    /\ exists \in BOOLEAN
    /\ records \in Seq(Record)
    /\ torn \in BOOLEAN
    /\ anchor \in JournalHead \cup {NoAnchor}
    /\ undo \in JournalHead \cup {NoAnchor}
    /\ fresh \in BOOLEAN
    /\ owner \in Writers \cup {NoWriter}
    /\ pc \in [Writers -> Places]
    /\ head \in [Writers -> JournalHead]
    /\ draft \in [Writers -> Record]
    /\ hashes \in Nat
    /\ acked \in SUBSET Record

\* Whatever was interrupted, the complete lines of the file are one chain:
\* no two processes ever append to the same predecessor.
ChainUnforked == Chained(records)

\* A record that append() has returned stays where it was put, through every
\* crash, failed write and reopening.
AcknowledgedStays ==
    \A r \in acked : r.seq \in DOMAIN records /\ records[r.seq] = r

\* The head a process would chain its next record to is the end of the file,
\* or the file no longer verifies and the append is refused.
HeadIsCurrent ==
    \A w \in Writers : pc[w] = "ready" => head[w] = Tip(records) \/ ~Intact

\* Interrupted: nobody is writing, and the chain, which is on the disk for
\* good, does not verify.
Interrupted ==
    /\ exists \/ anchor # NoAnchor
    /\ ~fresh
    /\ ~Intact
    /\ \A w \in Writers : pc[w] \notin MidWrite

\* An interrupted journal is kept for investigation: no later process heals,
\* extends or recreates it.
InterruptedForGood ==
    [][Interrupted => Interrupted' /\ UNCHANGED <<records, exists>>]_vars

\* The file and its anchor implement a log that only grows, and only while
\* its whole length is committed.
Log == INSTANCE AppendOnlyLog WITH
    log <- records,
    committed <- IF anchor = NoAnchor THEN 0 ELSE anchor.seq

ImplementsAppendOnlyLog == Log!Spec
=============================================================================
