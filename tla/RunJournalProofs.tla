-------------------------- MODULE RunJournalProofs --------------------------
(***************************************************************************)
(* For any number of processes and any bound: the journal's chain never    *)
(* forks, a returned record stays where it is, and file and anchor         *)
(* implement AppendOnlyLog.                                                *)
(*                                                                         *)
(* The argument: the flock leaves one process inside the directory         *)
(* (OneInside), so what that process knows of the disk stays true until it *)
(* acts or dies (Knows); and the anchor, or the anchor a power loss brings *)
(* back, is at most one record behind the file (AnchorNear), so a file     *)
(* that outgrew its anchor is exactly one that no longer verifies.         *)
(***************************************************************************)
EXTENDS RunJournal, SequenceTheorems, TLAPS

\* The flock admits one process.
OneInside == \A w \in Writers : pc[w] # "closed" => owner = w

\* What a process inside the directory knows of the disk.
KnowsAt(w) ==
    /\ pc[w] = "create" => ~exists /\ anchor = NoAnchor
    /\ pc[w] = "anchoring" => exists /\ records = <<>> /\ anchor = NoAnchor
    /\ pc[w] \in {"opening", "create", "anchoring"} => head[w] = NoHead
    /\ pc[w] = "ready" => head[w] = Tip(records) \/ ~Intact
    /\ pc[w] = "write" =>
           /\ Intact
           /\ head[w] = Tip(records)
           /\ draft[w].seq = Len(records) + 1
           /\ draft[w].prev = HashAt(records, Len(records))
    /\ pc[w] \in {"save", "ack"} =>
           /\ exists
           /\ records # <<>>
           /\ draft[w] = records[Len(records)]
    /\ pc[w] = "save" => anchor # Tip(records)
    /\ pc[w] = "ack" => anchor = Tip(records)

Knows == \A w \in Writers : KnowsAt(w)

\* An anchor the file has not left behind by more than one record.
Near(a) ==
    /\ a = NoAnchor => records = <<>>
    /\ a # NoAnchor => /\ a.seq \in {Len(records), Len(records) - 1}
                       /\ a.seq >= 0
                       /\ a.hash = HashAt(records, a.seq)

\* The anchor a power loss brings back never vouches for more than the anchor.
AnchorNear ==
    /\ Near(anchor)
    /\ Near(undo)
    /\ undo = Tip(records) => anchor = Tip(records)

\* The anchor and the records come after the file, and the anchor is written
\* when the file is on the disk for good.
NoFile ==
    /\ ~exists => records = <<>> /\ anchor = NoAnchor
    /\ fresh => exists /\ records = <<>> /\ anchor = NoAnchor /\ undo = NoAnchor

IInv ==
    /\ TypeOK
    /\ OneInside
    /\ Knows
    /\ AnchorNear
    /\ NoFile
    /\ ChainUnforked
    /\ AcknowledgedStays

-----------------------------------------------------------------------------
(* Types                                                                   *)

\* The head made of a record, and the head at the end of a file, are heads.
LEMMA HeadTypes ==
    /\ NoHead \in JournalHead
    /\ \A r \in Record : HeadOf(r) \in JournalHead
    BY DEF NoHead, JournalHead, HeadOf, Record

\* Steps of one process keep the types.
LEMMA TypeStep ==
    ASSUME TypeOK, NEW w \in Writers, Step(w)
    PROVE  TypeOK'
<1> USE DEF TypeOK, disk, process, Goto
<1>0. Places = {"closed", "opening", "create", "anchoring", "verifying",
                "ready", "write", "save", "ack"}
  BY DEF Places
<1>1. CASE AcquireLock(w)
  <2>1. head' \in [Writers -> JournalHead]
    BY <1>1, HeadTypes DEF AcquireLock
  <2>. QED
    BY <1>0, <1>1, <2>1 DEF AcquireLock
<1>2. CASE LookAtFiles(w)
  BY <1>0, <1>2 DEF LookAtFiles
<1>3. CASE CreateFile(w)
  <2>1. << >> \in Seq(Record)
    OBVIOUS
  <2>. QED
    BY <1>0, <1>3, <2>1 DEF CreateFile
<1>4. CASE CreateAnchor(w)
  BY <1>0, <1>4 DEF CreateAnchor, SaveAnchor
<1>5. CASE Open(w)
  <2>1. Intact => anchor \in JournalHead
    BY DEF Intact
  <2>. QED
    BY <1>0, <1>5, <2>1 DEF Open
<1>6. CASE Close(w)
  BY <1>0, <1>6 DEF Close
<1>7. CASE StartAppend(w)
  <2>1. [seq |-> head[w].seq + 1, prev |-> head[w].hash, hash |-> hashes + 1] \in Record
    BY DEF Record, JournalHead
  <2>. QED
    BY <1>0, <1>7, <2>1 DEF StartAppend
<1>8. CASE WriteRecord(w)
  <2>1. Append(records, draft[w]) \in Seq(Record)
    OBVIOUS
  <2>. QED
    BY <1>0, <1>8, <2>1 DEF WriteRecord
<1>9. CASE WriteFails(w) \/ SaveFails(w)
  BY <1>0, <1>9 DEF WriteFails, SaveFails
<1>10. CASE SaveHead(w)
  BY <1>0, <1>10, HeadTypes DEF SaveHead, SaveAnchor
<1>11. CASE Acknowledge(w)
  BY <1>0, <1>11, HeadTypes DEF Acknowledge
<1>12. CASE Crash(w)
  BY <1>0, <1>12 DEF Crash
<1>. QED
  BY <1>1, <1>2, <1>3, <1>4, <1>5, <1>6, <1>7, <1>8, <1>9, <1>10, <1>11, <1>12
  DEF Step

\* So does a loss of power.
LEMMA TypePowerLoss ==
    ASSUME TypeOK, PowerLoss
    PROVE  TypeOK'
    BY DEF TypeOK, PowerLoss, Places

\* Init is well typed.
LEMMA TypeInit == Init => TypeOK
<1>. SUFFICES ASSUME Init PROVE TypeOK
  OBVIOUS
<1>1. records \in Seq(Record)
  BY DEF Init
<1>2. [w \in Writers |-> NoRecord] \in [Writers -> Record]
  BY DEF NoRecord, Record
<1>. QED
  BY <1>1, <1>2, HeadTypes DEF Init, TypeOK, Places

\* The journal's variables keep their types, for any set of processes.
THEOREM TypeCorrect == Spec => []TypeOK
<1>1. TypeOK /\ [Next]_vars => TypeOK'
  <2>. SUFFICES ASSUME TypeOK, [Next]_vars PROVE TypeOK'
    OBVIOUS
  <2>1. CASE UNCHANGED vars
    BY <2>1 DEF vars, disk, process, TypeOK
  <2>. QED
    BY <2>1, TypeStep, TypePowerLoss DEF Next
<1>. QED
  BY <1>1, TypeInit, PTL DEF Spec

-----------------------------------------------------------------------------
(* The inductive invariant                                                 *)

\* The process that moves is the only one inside, so it is the only one that
\* has to know anything.
LEMMA OnlyMover ==
    ASSUME IInv, NEW w \in Writers, Step(w)
    PROVE  \A v \in Writers : v # w => pc[v] = "closed" /\ pc'[v] = "closed"
<1>1. \A v \in Writers : v # w => pc[v] = "closed"
  <2>1. CASE AcquireLock(w)
    BY <2>1, JournalAssumption DEF AcquireLock, IInv, OneInside
  <2>2. CASE pc[w] # "closed"
    BY <2>2 DEF IInv, OneInside
  <2>. QED
    BY <2>1, <2>2 DEF Step, LookAtFiles, CreateFile, CreateAnchor, Open, Close,
       StartAppend, WriteRecord, WriteFails, SaveHead, SaveFails, Acknowledge,
       Crash
<1>2. \E place : pc' = [pc EXCEPT ![w] = place]
  BY DEF Step, Goto, AcquireLock, LookAtFiles, CreateFile, CreateAnchor, Open,
     Close, StartAppend, WriteRecord, WriteFails, SaveHead, SaveFails,
     Acknowledge, Crash
<1>. QED
  BY <1>1, <1>2 DEF IInv, TypeOK

\* Hence the invariant of the processes follows from the mover's part of it.
LEMMA MoverSuffices ==
    ASSUME IInv, NEW w \in Writers, Step(w),
           pc'[w] # "closed" => owner' = w,
           KnowsAt(w)'
    PROVE  OneInside' /\ Knows'
<1>1. ASSUME NEW v \in Writers, v # w PROVE pc'[v] = "closed"
  BY <1>1, OnlyMover
<1>2. OneInside'
  BY <1>1 DEF OneInside
<1>3. ASSUME NEW v \in Writers, v # w PROVE KnowsAt(v)'
  BY <1>1, <1>3 DEF KnowsAt
<1>. QED
  BY <1>2, <1>3 DEF Knows

\* Taking the lock, looking at the files, opening and closing move nothing on
\* the disk.
LEMMA KeepsDisk ==
    ASSUME IInv, UNCHANGED <<disk, acked>>
    PROVE  AnchorNear' /\ NoFile' /\ ChainUnforked' /\ AcknowledgedStays'
    BY DEF IInv, disk, AnchorNear, Near, NoFile, ChainUnforked,
       AcknowledgedStays

\* ... so they preserve the invariant.
LEMMA OpeningStep ==
    ASSUME IInv, NEW w \in Writers,
           \/ AcquireLock(w) \/ LookAtFiles(w) \/ Open(w) \/ Close(w)
           \/ StartAppend(w)
    PROVE  IInv'
<1>1. Step(w)
  BY DEF Step
<1>2. TypeOK'
  BY <1>1, TypeStep DEF IInv
<1>3. UNCHANGED <<disk, acked>>
  BY DEF AcquireLock, LookAtFiles, Open, Close, StartAppend, disk
<1>4. pc'[w] # "closed" => owner' = w
  BY DEF AcquireLock, LookAtFiles, Open, Close, StartAppend, Goto, IInv, TypeOK,
     OneInside
<1>5. KnowsAt(w)'
  <2>0. Intact' = Intact /\ Tip(records)' = Tip(records)
    BY <1>3 DEF disk, Intact, Chained
  <2>. USE <1>3 DEF KnowsAt, disk, Goto, TypeOK
  <2>1. CASE AcquireLock(w)
    BY <2>1 DEF AcquireLock, IInv
  <2>2. CASE LookAtFiles(w)
    BY <2>2 DEF LookAtFiles, IInv, Knows
  <2>3. CASE Open(w)
    <3>1. CASE Intact
      <4>1. anchor = Tip(records)
        BY <3>1 DEF Intact
      <4>. QED
        BY <2>3, <3>1, <4>1 DEF Open, IInv
    <3>2. CASE ~Intact
      BY <2>3, <3>2 DEF Open, IInv
    <3>. QED
      BY <3>1, <3>2
  <2>4. CASE Close(w)
    BY <2>4 DEF Close, IInv
  <2>5. CASE StartAppend(w)
    <3>1. head[w] = Tip(records)
      BY <2>5 DEF StartAppend, IInv, Knows
    <3>2. /\ pc'[w] = "write"
          /\ draft'[w].seq = head[w].seq + 1
          /\ draft'[w].prev = head[w].hash
          /\ head' = head
          /\ Intact
      BY <2>5 DEF StartAppend, IInv
    <3>3. head[w].seq = Len(records) /\ head[w].hash = HashAt(records, Len(records))
      BY <3>1 DEF Tip
    <3>. QED
      BY <2>0, <3>1, <3>2, <3>3
  <2>. QED
    BY <2>1, <2>2, <2>3, <2>4, <2>5
<1>. QED
  BY <1>1, <1>2, <1>3, <1>4, <1>5, MoverSuffices, KeepsDisk DEF IInv

\* A power loss brings back no anchor where there is none.
LEMMA NothingToUndo ==
    ASSUME IInv, anchor = NoAnchor
    PROVE  undo = NoAnchor
BY DEF IInv, AnchorNear, Near, Tip, NoAnchor, TypeOK, HashAt, JournalHead

\* Creating the two files of a new run: both start empty.
LEMMA CreationStep ==
    ASSUME IInv, NEW w \in Writers, CreateFile(w) \/ CreateAnchor(w)
    PROVE  IInv'
<1>1. Step(w)
  BY DEF Step
<1>2. TypeOK'
  BY <1>1, TypeStep DEF IInv
<1>3. records = <<>> /\ records' = <<>> /\ acked' = acked /\ exists'
  BY DEF CreateFile, CreateAnchor, IInv, Knows, KnowsAt, NoFile
<1>4. owner = w /\ owner' = w
  BY DEF CreateFile, CreateAnchor, IInv, OneInside
<1>5. KnowsAt(w)' /\ AnchorNear'
  <2>0. Tip(<<>>) = NoHead /\ NoHead # NoAnchor /\ NoHead.seq = 0
        /\ NoHead.hash = 0 /\ Len(<<>>) = 0
    BY DEF Tip, HashAt, NoHead, NoAnchor
  <2>1. CASE CreateFile(w)
    <3>1. /\ pc'[w] = "anchoring" /\ anchor' = anchor /\ undo' = undo
          /\ head' = head /\ anchor = NoAnchor /\ head[w] = NoHead
      BY <2>1 DEF CreateFile, Goto, IInv, TypeOK, Knows, KnowsAt
    <3>. QED
      BY <1>3, <3>1 DEF KnowsAt, AnchorNear, Near, IInv
  <2>2. CASE CreateAnchor(w)
    <3>1. /\ pc'[w] = "verifying" /\ anchor' = NoHead /\ undo' = NoAnchor
      BY <2>2 DEF CreateAnchor, SaveAnchor, Goto, IInv, TypeOK, Knows, KnowsAt
    <3>2. HashAt(<<>>, 0) = 0
      BY DEF HashAt
    <3>. QED
      BY <1>3, <2>0, <3>1, <3>2 DEF KnowsAt, AnchorNear, Near
  <2>. QED
    BY <2>1, <2>2
<1>6. fresh' => anchor' = NoAnchor /\ undo' = NoAnchor
  BY NothingToUndo DEF CreateFile, CreateAnchor, SaveAnchor, IInv, Knows, KnowsAt
<1>7. NoFile' /\ ChainUnforked' /\ AcknowledgedStays'
  BY <1>3, <1>6 DEF NoFile, ChainUnforked, AcknowledgedStays, IInv
<1>. QED
  BY <1>1, <1>2, <1>4, <1>5, <1>7, MoverSuffices DEF IInv

\* Appending a record leaves the hashes of the earlier ones.
LEMMA AppendHash ==
    ASSUME NEW s \in Seq(Record), NEW r \in Record
    PROVE  /\ Append(s, r) \in Seq(Record)
           /\ Append(s, r) # <<>>
           /\ Len(Append(s, r)) = Len(s) + 1
           /\ Append(s, r)[Len(s) + 1] = r
           /\ \A i \in 1 .. Len(s) : Append(s, r)[i] = s[i]
           /\ \A n \in 0 .. Len(s) : HashAt(Append(s, r), n) = HashAt(s, n)
    BY DEF HashAt

\* Writing a record extends the chain by one: the anchor is now one behind.
LEMMA WriteStep ==
    ASSUME IInv, NEW w \in Writers, WriteRecord(w)
    PROVE  IInv'
<1>1. Step(w)
  BY DEF Step
<1>2. TypeOK'
  BY <1>1, TypeStep DEF IInv
<1>. DEFINE n == Len(records)
<1>3. /\ Intact /\ draft[w].seq = n + 1 /\ draft[w].prev = HashAt(records, n)
      /\ pc[w] = "write"
  BY DEF WriteRecord, IInv, Knows, KnowsAt
<1>4. /\ records \in Seq(Record) /\ draft[w] \in Record /\ n \in Nat
      /\ records' = Append(records, draft[w])
      /\ UNCHANGED <<exists, anchor, fresh, owner, draft, acked>>
      /\ undo' = anchor
      /\ pc'[w] = "save"
  BY DEF WriteRecord, IInv, TypeOK, Goto
<1>5. /\ Len(records') = n + 1
      /\ records' # <<>>
      /\ records'[n + 1] = draft[w]
      /\ \A i \in 1 .. n : records'[i] = records[i]
      /\ \A i \in 0 .. n : HashAt(records', i) = HashAt(records, i)
  BY <1>4, AppendHash
<1>6. exists /\ anchor = Tip(records) /\ anchor.seq = n
      /\ anchor.hash = HashAt(records, n) /\ anchor # NoAnchor
  BY <1>3 DEF Intact, Tip
<1>7. Tip(records)'.seq = n + 1
  BY <1>5 DEF Tip
<1>8. KnowsAt(w)'
  BY <1>4, <1>5, <1>6, <1>7 DEF KnowsAt
<1>9. AnchorNear'
  BY <1>4, <1>5, <1>6, <1>7 DEF AnchorNear, Near
<1>10. NoFile'
  BY <1>4, <1>6 DEF IInv, NoFile
<1>11. ChainUnforked'
  <2>1. DOMAIN records' = 1 .. n + 1 /\ DOMAIN records = 1 .. n
    BY <1>4, <1>5
  <2>2. ASSUME NEW i \in 1 .. n
        PROVE  records'[i].seq = i /\ records'[i].prev = HashAt(records', i - 1)
    <3>1. records[i].seq = i /\ records[i].prev = HashAt(records, i - 1)
      BY <2>1 DEF IInv, ChainUnforked, Chained
    <3>. QED
      BY <1>4, <1>5, <3>1
  <2>. QED
    BY <1>3, <1>4, <1>5, <2>1, <2>2 DEF ChainUnforked, Chained
<1>12. AcknowledgedStays'
  <2>1. DOMAIN records' = 1 .. n + 1 /\ DOMAIN records = 1 .. n
    BY <1>4, <1>5
  <2>. QED
    BY <1>4, <1>5, <2>1 DEF AcknowledgedStays, IInv
<1>13. owner' = w
  BY <1>3, <1>4 DEF IInv, OneInside
<1>. QED
  BY <1>1, <1>2, <1>8, <1>9, <1>10, <1>11, <1>12, <1>13, MoverSuffices
  DEF IInv

\* A failed write may tear the file's end; the complete lines are as before.
LEMMA WriteFailsStep ==
    ASSUME IInv, NEW w \in Writers, WriteFails(w) \/ SaveFails(w)
    PROVE  IInv'
<1>1. Step(w)
  BY DEF Step
<1>2. TypeOK'
  BY <1>1, TypeStep DEF IInv
<1>3. /\ UNCHANGED <<exists, records, anchor, fresh, owner, head, acked>>
      /\ undo' \in {undo, anchor}
      /\ pc'[w] = "ready"
      /\ pc[w] \in {"write", "save"}
  BY DEF WriteFails, SaveFails, IInv, TypeOK, Goto, disk
<1>4. KnowsAt(w)'
  <2>1. CASE WriteFails(w)
    <3>1. head[w] = Tip(records)
      BY <2>1 DEF WriteFails, IInv, Knows, KnowsAt
    <3>. QED
      BY <1>3, <3>1 DEF KnowsAt, Tip
  <2>2. CASE SaveFails(w)
    <3>1. anchor # Tip(records)
      BY <2>2 DEF SaveFails, IInv, Knows, KnowsAt
    <3>. QED
      BY <1>3, <3>1 DEF KnowsAt, Intact
  <2>. QED
    BY <2>1, <2>2
<1>5. AnchorNear' /\ NoFile' /\ ChainUnforked' /\ AcknowledgedStays'
  BY <1>3 DEF IInv, AnchorNear, Near, NoFile, ChainUnforked, AcknowledgedStays
<1>6. owner' = w
  BY <1>3 DEF IInv, OneInside
<1>. QED
  BY <1>1, <1>2, <1>4, <1>5, <1>6, MoverSuffices DEF IInv

\* Saving the head makes the anchor catch up; then the record is returned.
LEMMA SaveStep ==
    ASSUME IInv, NEW w \in Writers, SaveHead(w) \/ Acknowledge(w)
    PROVE  IInv'
<1>1. Step(w)
  BY DEF Step
<1>2. TypeOK'
  BY <1>1, TypeStep DEF IInv
<1>. DEFINE n == Len(records)
<1>3. /\ exists /\ records # <<>> /\ draft[w] = records[n]
      /\ pc[w] \in {"save", "ack"}
  BY DEF SaveHead, Acknowledge, IInv, Knows, KnowsAt
<1>4. n \in Nat \ {0} /\ n \in DOMAIN records
  BY <1>3 DEF IInv, TypeOK
<1>5. draft[w].seq = n /\ HeadOf(draft[w]) = Tip(records)
  BY <1>3, <1>4 DEF IInv, ChainUnforked, Chained, HeadOf, Tip, HashAt
<1>6. UNCHANGED <<exists, records, torn, owner, draft>>
  BY DEF SaveHead, Acknowledge, disk
<1>7. owner' = w
  BY <1>3, <1>6 DEF IInv, OneInside
<1>8. CASE SaveHead(w)
  <2>1. /\ anchor' = Tip(records) /\ undo' = anchor /\ acked' = acked
        /\ pc'[w] = "ack"
    BY <1>5, <1>8 DEF SaveHead, SaveAnchor, Goto, IInv, TypeOK
  <2>2. Near(anchor)' /\ Near(undo)'
    BY <1>4, <1>6, <2>1 DEF Near, Tip, NoAnchor, IInv, AnchorNear
  <2>3. KnowsAt(w)' /\ AnchorNear'
    BY <1>3, <1>6, <2>1, <2>2 DEF KnowsAt, AnchorNear, Tip
  <2>4. NoFile' /\ ChainUnforked' /\ AcknowledgedStays'
    BY <1>3, <1>6, <1>8, <2>1 DEF SaveHead, SaveAnchor, IInv, NoFile, ChainUnforked,
       AcknowledgedStays
  <2>. QED
    BY <1>1, <1>2, <1>7, <2>3, <2>4, MoverSuffices DEF IInv
<1>9. CASE Acknowledge(w)
  <2>1. /\ UNCHANGED disk /\ acked' = acked \cup {draft[w]}
        /\ head'[w] = Tip(records) /\ pc'[w] = "ready"
    BY <1>5, <1>9 DEF Acknowledge, Goto, IInv, TypeOK
  <2>2. KnowsAt(w)'
    BY <1>6, <2>1 DEF KnowsAt, Tip
  <2>3. AnchorNear' /\ NoFile' /\ ChainUnforked'
    BY <2>1 DEF disk, IInv, AnchorNear, Near, NoFile, ChainUnforked
  <2>4. AcknowledgedStays'
    BY <1>3, <1>4, <1>5, <1>6, <2>1 DEF IInv, AcknowledgedStays
  <2>. QED
    BY <1>1, <1>2, <1>7, <2>2, <2>3, <2>4, MoverSuffices DEF IInv
<1>. QED
  BY <1>8, <1>9

\* A process that dies leaves the complete lines and the anchor as they were.
LEMMA CrashStep ==
    ASSUME IInv, NEW w \in Writers, Crash(w)
    PROVE  IInv'
<1>1. Step(w)
  BY DEF Step
<1>2. TypeOK'
  BY <1>1, TypeStep DEF IInv
<1>3. /\ UNCHANGED <<exists, records, anchor, undo, fresh, acked>>
      /\ pc'[w] = "closed"
  BY DEF Crash, Goto, IInv, TypeOK
<1>4. AnchorNear' /\ NoFile' /\ ChainUnforked' /\ AcknowledgedStays'
  BY <1>3 DEF IInv, AnchorNear, Near, NoFile, ChainUnforked, AcknowledgedStays
<1>. QED
  BY <1>1, <1>2, <1>3, <1>4, MoverSuffices DEF IInv, KnowsAt

\* A power loss brings back an anchor that is near, and no process survives.
LEMMA PowerLossStep ==
    ASSUME IInv, PowerLoss
    PROVE  IInv'
<1>1. TypeOK'
  BY TypePowerLoss DEF IInv
<1>2. /\ UNCHANGED <<records, acked>> /\ ~fresh' /\ (exists' # exists => fresh)
      /\ anchor' \in {anchor, undo} /\ undo' = anchor'
      /\ \A w \in Writers : pc'[w] = "closed"
  BY DEF PowerLoss, IInv, NoFile
<1>3. undo # NoAnchor => anchor # NoAnchor
  BY NothingToUndo
<1>4. AnchorNear'
  BY <1>2 DEF IInv, AnchorNear, Near
<1>5. ChainUnforked' /\ AcknowledgedStays'
  BY <1>2 DEF IInv, ChainUnforked, AcknowledgedStays
<1>6. NoFile'
  BY <1>2, <1>3 DEF IInv, NoFile
<1>7. OneInside' /\ Knows'
  BY <1>2 DEF OneInside, Knows, KnowsAt
<1>. QED
  BY <1>1, <1>4, <1>5, <1>6, <1>7 DEF IInv

\* Every step preserves the invariant.
LEMMA InductiveStep == IInv /\ [Next]_vars => IInv'
<1>. SUFFICES ASSUME IInv, [Next]_vars PROVE IInv'
  OBVIOUS
<1>1. CASE UNCHANGED vars
  <2>1. TypeOK'
    BY <1>1 DEF vars, disk, process, IInv, TypeOK
  <2>2. OneInside' /\ Knows'
    BY <1>1 DEF vars, disk, process, IInv, OneInside, Knows, KnowsAt, Intact, Chained
  <2>. QED
    BY <1>1, <2>1, <2>2, KeepsDisk DEF vars, IInv
<1>2. CASE PowerLoss
  BY <1>2, PowerLossStep
<1>3. ASSUME NEW w \in Writers, Step(w) PROVE IInv'
  BY <1>3, OpeningStep, CreationStep, WriteStep, WriteFailsStep, SaveStep,
     CrashStep DEF Step
<1>. QED
  BY <1>1, <1>2, <1>3 DEF Next

\* It holds of a directory nobody has touched.
LEMMA InductiveInit == Init => IInv
<1>. SUFFICES ASSUME Init PROVE IInv
  OBVIOUS
<1>1. TypeOK
  BY TypeInit
<1>2. OneInside /\ Knows
  BY DEF Init, OneInside, Knows, KnowsAt
<1>3. AnchorNear /\ NoFile
  BY DEF Init, AnchorNear, Near, NoFile, Tip, NoAnchor
<1>4. ChainUnforked /\ AcknowledgedStays
  BY DEF Init, ChainUnforked, Chained, AcknowledgedStays
<1>. QED
  BY <1>1, <1>2, <1>3, <1>4 DEF IInv

\* The inductive invariant holds in every reachable state.
THEOREM Invariant == Spec => []IInv
  BY InductiveInit, InductiveStep, PTL DEF Spec

-----------------------------------------------------------------------------
(* What follows from it                                                    *)

\* The chain never forks, whatever is interrupted and whoever comes next.
THEOREM NeverForked == Spec => []ChainUnforked
  BY Invariant, PTL DEF IInv

\* A record append() returned is never lost, moved or changed.
THEOREM ReturnedRecordsStay == Spec => []AcknowledgedStays
  BY Invariant, PTL DEF IInv

\* A process never chains a record to anything but the end of the file.
THEOREM HeadsAreCurrent == Spec => []HeadIsCurrent
<1>1. IInv => HeadIsCurrent
  BY DEF IInv, Knows, KnowsAt, HeadIsCurrent
<1>. QED
  BY <1>1, Invariant, PTL

\* Nothing heals, extends or recreates an interrupted journal.
THEOREM InterruptedStays == Spec => InterruptedForGood
<1>1. IInv /\ [Next]_vars
      => [Interrupted => Interrupted' /\ UNCHANGED <<records, exists>>]_vars
  <2>. SUFFICES ASSUME IInv, Next, Interrupted
                PROVE  Interrupted' /\ UNCHANGED <<records, exists>>
    BY DEF Interrupted
  <2>1. \A w \in Writers : pc[w] \in {"closed", "opening", "verifying", "ready"}
    BY DEF Interrupted, MidWrite, IInv, TypeOK, Places
  <2>2. ASSUME NEW w \in Writers, Step(w)
        PROVE  /\ UNCHANGED disk
               /\ pc'[w] \in {"closed", "opening", "verifying", "ready"}
    <3>1. pc[w] \in {"closed", "opening", "verifying", "ready"}
      BY <2>1
    <3>2. exists \/ anchor # NoAnchor
      BY DEF Interrupted
    <3>3. ~Intact
      BY DEF Interrupted
    <3>. QED
      BY <2>2, <3>1, <3>2, <3>3
      DEF Step, Goto, AcquireLock, LookAtFiles, CreateFile, CreateAnchor, Open,
          Close, StartAppend, WriteRecord, WriteFails, SaveHead, SaveFails,
          Acknowledge, Crash, IInv, TypeOK, disk
  <2>3. CASE \E w \in Writers : Step(w)
    <3>1. PICK w \in Writers : Step(w)
      BY <2>3
    <3>2. UNCHANGED disk /\ (Intact' <=> Intact)
      BY <2>2, <3>1 DEF disk, Intact, Chained
    <3>3. \A v \in Writers : pc'[v] \notin MidWrite
      BY <2>2, <3>1, OnlyMover DEF MidWrite
    <3>. QED
      BY <3>2, <3>3 DEF Interrupted, disk
  <2>4. CASE PowerLoss
    <3>1. /\ UNCHANGED <<exists, records, torn, fresh>>
          /\ anchor' \in {anchor, undo}
          /\ \A w \in Writers : pc'[w] \notin MidWrite
      BY <2>1, <2>4 DEF PowerLoss, MidWrite, Interrupted, IInv, TypeOK
    <3>2. exists /\ undo = Tip(records) => anchor = Tip(records)
      BY DEF IInv, AnchorNear
    <3>3. exists
      BY DEF IInv, NoFile, Interrupted
    <3>4. ~Intact'
      BY <3>1, <3>2 DEF Interrupted, Intact, Chained, Tip, NoAnchor
    <3>. QED
      BY <3>1, <3>3, <3>4 DEF Interrupted
  <2>. QED
    BY <2>3, <2>4 DEF Next
<1>. QED
  BY <1>1, Invariant, PTL DEF Spec, InterruptedForGood

-----------------------------------------------------------------------------
(* File and anchor implement AppendOnlyLog                                 *)

\* Every step is a step of the log or leaves it alone.
LEMMA LogStep ==
    ASSUME IInv, [Next]_vars
    PROVE  [Log!Next]_(Log!vars)
<1>. USE DEF Log!vars
<1>1. CASE UNCHANGED vars
  BY <1>1 DEF vars, disk
<1>2. ASSUME NEW w \in Writers, WriteRecord(w) PROVE Log!Extend
  <2>1. /\ Intact /\ draft[w].seq = Len(records) + 1
        /\ draft[w].prev = HashAt(records, Len(records))
    BY <1>2 DEF WriteRecord, IInv, Knows, KnowsAt
  <2>2. /\ records \in Seq(Record) /\ draft[w] \in Record
        /\ records' = Append(records, draft[w])
        /\ anchor' = anchor
    BY <1>2 DEF WriteRecord, IInv, TypeOK
  <2>3. anchor # NoAnchor /\ anchor.seq = Len(records)
    BY <2>1 DEF Intact, Tip
  <2>4. /\ Len(records') = Len(records) + 1
        /\ records'[Len(records) + 1] = draft[w]
        /\ \A i \in 1 .. Len(records) : records'[i] = records[i]
    BY <2>2, AppendHash
  <2>5. \A n : Log!HashAt(records, n) = HashAt(records, n)
    BY DEF Log!HashAt, HashAt
  <2>. QED
    BY <2>1, <2>2, <2>3, <2>4, <2>5 DEF Log!Extend
<1>3. ASSUME NEW w \in Writers, SaveHead(w) PROVE Log!Commit
  <2>1. /\ records # <<>> /\ draft[w] = records[Len(records)]
        /\ records' = records /\ anchor' = HeadOf(draft[w])
    BY <1>3 DEF SaveHead, SaveAnchor, IInv, Knows, KnowsAt
  <2>2. Len(records) \in DOMAIN records /\ Len(records) \in Nat
    BY <2>1 DEF IInv, TypeOK
  <2>3. anchor'.seq = Len(records)
    BY <2>1, <2>2 DEF IInv, ChainUnforked, Chained, HeadOf
  <2>. QED
    BY <2>1, <2>2, <2>3 DEF Log!Commit, NoAnchor
<1>4. ASSUME NEW w \in Writers, CreateAnchor(w) PROVE UNCHANGED Log!vars
  BY <1>4 DEF CreateAnchor, SaveAnchor, IInv, Knows, KnowsAt, NoHead, NoAnchor
<1>5. ASSUME NEW w \in Writers, CreateFile(w) PROVE UNCHANGED Log!vars
  BY <1>5 DEF CreateFile, IInv, Knows, KnowsAt, NoFile
<1>6. CASE PowerLoss
  <2>1. records' = records /\ (anchor' = anchor \/ anchor' = undo)
    BY <1>6 DEF PowerLoss
  <2>2. CASE anchor' = anchor
    BY <2>1, <2>2
  <2>3. CASE anchor' = undo
    <3>1. undo = NoAnchor => Len(records) = 0
      BY DEF IInv, AnchorNear, Near
    <3>2. undo # NoAnchor => /\ undo.seq \in {Len(records), Len(records) - 1}
                             /\ undo.seq >= 0
      BY DEF IInv, AnchorNear, Near
    <3>3. Len(records) \in Nat
      BY DEF IInv, TypeOK
    <3>4. records = <<>> => Len(records) = 0
      OBVIOUS
    <3>. QED
      BY <2>1, <2>3, <3>1, <3>2, <3>3, <3>4
      DEF Log!Next, Log!Commit, Log!Forget
  <2>. QED
    BY <2>1, <2>2, <2>3
<1>7. ASSUME NEW w \in Writers,
             \/ AcquireLock(w) \/ LookAtFiles(w) \/ Open(w) \/ Close(w)
             \/ StartAppend(w) \/ WriteFails(w) \/ SaveFails(w)
             \/ Acknowledge(w) \/ Crash(w)
      PROVE  UNCHANGED Log!vars
  BY <1>7 DEF AcquireLock, LookAtFiles, Open, Close, StartAppend, WriteFails,
     SaveFails, Acknowledge, Crash, disk
<1>. QED
  BY <1>1, <1>2, <1>3, <1>4, <1>5, <1>6, <1>7 DEF Next, Step, Log!Next

\* The journal's file and head anchor implement a log that only grows, and
\* only while its whole length is committed, whoever writes and whatever dies.
THEOREM JournalImplementsAppendOnlyLog == Spec => ImplementsAppendOnlyLog
<1>1. Init => Log!Init
  BY DEF Init, Log!Init
<1>. QED
  BY <1>1, LogStep, Invariant, PTL
  DEF Spec, ImplementsAppendOnlyLog, Log!Spec
=============================================================================
