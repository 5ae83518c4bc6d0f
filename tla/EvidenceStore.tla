---------------------------- MODULE EvidenceStore ---------------------------
(***************************************************************************)
(* The content-addressed evidence of one run directory                     *)
(* (observability/evidence.py and _io.py): the blobs, their index, the OS  *)
(* lock, and the processes that put evidence and journal the references    *)
(* they get back.                                                          *)
(*                                                                         *)
(* A blob and the index are each replaced as a whole by a rename; a        *)
(* process can die between any two renames.  A blob may rot at any time:   *)
(* nothing but its own digest protects it.  A digest is identified with    *)
(* the content it names; what else tells entries apart (kind, media type,  *)
(* observation) is their use.                                              *)
(***************************************************************************)
EXTENDS Integers, Sequences

CONSTANTS Writers,   \* processes that may open the run directory
          NoWriter,  \* nobody holds the flock
          Contents,  \* the bytes put, after redaction
          Uses,      \* what they are evidence of
          NoEntry    \* no reference is being made

Entry == [sha : Contents, use : Uses]

ASSUME EvidenceAssumption == NoWriter \notin Writers /\ NoEntry \notin Entry

VARIABLES
    blobs,     \* each content's blob: "absent", "intact" or "rotten"
    index,     \* the entries of index.json
    owner,     \* who holds the flock on evidence.lock
    pc,        \* where each process is
    known,     \* EvidenceStore.index of each process
    draft,     \* the reference each process is making
    returned   \* references put() has returned: the journal may cite them

vars == <<blobs, index, owner, pc, known, draft, returned>>

Listed(entries) == {entries[i] : i \in DOMAIN entries}

Init ==
    /\ blobs = [c \in Contents |-> "absent"]
    /\ index = <<>>
    /\ owner = NoWriter
    /\ pc = [w \in Writers |-> "closed"]
    /\ known = [w \in Writers |-> <<>>]
    /\ draft = [w \in Writers |-> NoEntry]
    /\ returned = {}

Goto(w, place) == pc' = [pc EXCEPT ![w] = place]

-----------------------------------------------------------------------------
Open_Shared(w) ==                                    \* mutant: no exclusive lock
    /\ pc[w] = "closed"
    /\ owner' = w
    /\ known' = [known EXCEPT ![w] = index]
    /\ Goto(w, "ready")
    /\ UNCHANGED <<blobs, index, draft, returned>>

\* WriterLock, then the index is loaded.
Open(w) ==
    /\ pc[w] = "closed"
    /\ owner = NoWriter
    /\ owner' = w
    /\ known' = [known EXCEPT ![w] = index]
    /\ Goto(w, "ready")
    /\ UNCHANGED <<blobs, index, draft, returned>>

Put_Appends(w, entry) ==                             \* mutant: no look at the index
    /\ pc[w] = "ready"
    /\ IF blobs[entry.sha] = "rotten"
       THEN UNCHANGED <<pc, draft>>
       ELSE /\ draft' = [draft EXCEPT ![w] = entry]
            /\ Goto(w, IF blobs[entry.sha] = "absent" THEN "blob" ELSE "index")
    /\ UNCHANGED <<blobs, index, owner, known, returned>>

\* put: a listed entry is returned if its blob verifies; otherwise, and when
\* a new entry's blob is there with another digest, it raises.
Put(w, entry) ==
    /\ pc[w] = "ready"
    /\ IF entry \in Listed(known[w])
       THEN /\ returned' = returned \cup
                           (IF blobs[entry.sha] = "intact" THEN {entry} ELSE {})
            /\ UNCHANGED <<pc, draft>>
       ELSE IF blobs[entry.sha] = "rotten"
       THEN UNCHANGED <<pc, draft, returned>>
       ELSE /\ draft' = [draft EXCEPT ![w] = entry]
            /\ Goto(w, IF blobs[entry.sha] = "absent" THEN "blob" ELSE "index")
            /\ UNCHANGED returned
    /\ UNCHANGED <<blobs, index, owner, known>>

WriteBlob(w) ==
    /\ pc[w] = "blob"
    /\ blobs' = [blobs EXCEPT ![draft[w].sha] = "intact"]
    /\ Goto(w, "index")
    /\ UNCHANGED <<index, owner, known, draft, returned>>

WriteIndex(w) ==
    /\ pc[w] = "index"
    /\ index' = Append(known[w], draft[w])
    /\ Goto(w, "return")
    /\ UNCHANGED <<blobs, owner, known, draft, returned>>

Return(w) ==
    /\ pc[w] = "return"
    /\ known' = [known EXCEPT ![w] = Append(@, draft[w])]
    /\ returned' = returned \cup {draft[w]}
    /\ Goto(w, "ready")
    /\ UNCHANGED <<blobs, index, owner, draft>>

\* A write raises: the store stays open with the index it has.
WriteFails(w) ==
    /\ pc[w] \in {"blob", "index"}
    /\ Goto(w, "ready")
    /\ UNCHANGED <<blobs, index, owner, known, draft, returned>>

\* close(), or the process dies: the OS releases the lock.
Leave(w) ==
    /\ pc[w] # "closed"
    /\ owner' = NoWriter
    /\ Goto(w, "closed")
    /\ UNCHANGED <<blobs, index, known, draft, returned>>

\* A blob no longer has the bytes its name promises.
Rot(c) ==
    /\ blobs[c] = "intact"
    /\ blobs' = [blobs EXCEPT ![c] = "rotten"]
    /\ UNCHANGED <<index, owner, pc, known, draft, returned>>

Step(w) ==
    \/ Open(w) \/ WriteBlob(w) \/ WriteIndex(w) \/ Return(w)
    \/ WriteFails(w) \/ Leave(w)
    \/ \E entry \in Entry : Put(w, entry)

Next ==
    \/ \E w \in Writers : Step(w)
    \/ \E c \in Contents : Rot(c)

Spec == Init /\ [][Next]_vars

-----------------------------------------------------------------------------
(* Properties                                                              *)

\* The directory and the processes on it keep their types.
TypeOK ==
    /\ blobs \in [Contents -> {"absent", "intact", "rotten"}]
    /\ index \in Seq(Entry)
    /\ owner \in Writers \cup {NoWriter}
    /\ pc \in [Writers -> {"closed", "ready", "blob", "index", "return"}]
    /\ known \in [Writers -> Seq(Entry)]
    /\ draft \in [Writers -> Entry \cup {NoEntry}]
    /\ returned \subseteq Entry

\* A reference that put() has returned, and that the journal may cite, is in
\* the index for good, whoever crashes or opens the directory afterwards; and
\* what is in the index has a blob.
ReferencesResolve ==
    /\ returned \subseteq Listed(index)
    /\ \A entry \in Listed(index) : blobs[entry.sha] # "absent"

\* Identical bytes put for the same use share one entry, across crashes
\* between the blob, the index and the return.
EntriesAreDistinct ==
    \A i, j \in DOMAIN index : index[i] = index[j] => i = j

\* "Preserve it for investigation": a blob that rotted is never replaced.
CorruptionIsPreserved ==
    [][\A c \in Contents : blobs[c] = "rotten" => blobs'[c] = "rotten"]_vars

\* The index only grows at its end.
IndexGrows ==
    [][/\ Len(index) <= Len(index')
       /\ \A i \in DOMAIN index : index'[i] = index[i]]_vars
=============================================================================
