--------------------------- MODULE ArtifactProofs ---------------------------
(***************************************************************************)
(* For any contents and any number of actors: what an approval and an      *)
(* override in a file that anyone may edit can be relied upon for.         *)
(*                                                                         *)
(* The argument: what approve has read is what its actor reviewed, and     *)
(* nothing but approve appends to the journal's approvals (Witnessed); it  *)
(* goes on to the file only once its record is there (Recorded).           *)
(***************************************************************************)
EXTENDS ArtifactLifecycle, TLAPS

\* Every approval of the journal, and what is about to become one, is of
\* something its actor has run the command on.
Witnessed ==
    /\ approvals \subseteq reviewed
    /\ \A a \in Actors : pc[a] # "idle" => Review(a, held[a]) \in reviewed

\* An approve command that has left the journal has its record there.
Recorded ==
    \A a \in Actors : pc[a] \in {"open", "write"} => Review(a, held[a]) \in approvals

IInv == TypeOK /\ Witnessed /\ Recorded /\ OverrideFitsBase

USE LifecycleAssumption

-----------------------------------------------------------------------------
\* At first there is no file and no approval.
LEMMA InductiveInit == Init => IInv
<1>. SUFFICES ASSUME Init PROVE IInv
  OBVIOUS
<1>1. TypeOK
  BY DEF Init, TypeOK, Commands
<1>2. Witnessed /\ Recorded /\ OverrideFitsBase
  BY DEF Init, Witnessed, Recorded, OverrideFitsBase, Commands
<1>. QED
  BY <1>1, <1>2 DEF IInv

\* A command that goes on has its label, the others theirs.
LEMMA GotoLabels ==
    ASSUME TypeOK, NEW p \in Commands, NEW label, Goto(p, label)
    PROVE  /\ pc'[p] = label
           /\ \A q \in Commands \ {p} : pc'[q] = pc[q]
  BY DEF Goto, TypeOK

\* A command that ends forgets what it has read.
LEMMA ExitLabels ==
    ASSUME TypeOK, NEW p \in Commands, Exit(p)
    PROVE  /\ pc'[p] = "idle" /\ held'[p] = None
           /\ \A q \in Commands \ {p} : pc'[q] = pc[q] /\ held'[q] = held[q]
           /\ pc' \in [Commands -> {"idle", "record", "open", "write"}]
           /\ held' \in [Commands -> Contents \cup {None}]
  BY DEF Exit, Goto, TypeOK

\* What an actor approves is an approval.
LEMMA ReviewType ==
    ASSUME NEW a \in Actors, NEW content \in Contents
    PROVE  Review(a, content) \in Approval
  BY DEF Review, Approval

\* What a command that is not idle has read is a content.
LEMMA HeldContent ==
    ASSUME TypeOK, NEW a \in Actors, pc[a] # "idle"
    PROVE  held[a] \in Contents
  BY DEF TypeOK, Commands
\* What a command writes is a capability.
LEMMA ProductType ==
    ASSUME TypeOK, NEW p \in Commands, pc[p] # "idle"
    PROVE  Product(p) \in Capability
<1>1. CASE p = Maker
  BY <1>1 DEF Product, Draft, Capability
<1>2. CASE p \in Actors
  BY <1>2, HeldContent, ReviewType DEF Product, Approved, Capability
<1>. QED
  BY <1>1, <1>2 DEF Commands

-----------------------------------------------------------------------------
\* The commands preserve the types.
LEMMA CommandTypes ==
    ASSUME TypeOK,
           \/ \E a \in Actors : Load(a) \/ RecordApproval(a)
           \/ StartCompile \/ RecordCompiled
           \/ \E p \in Commands : OpenFile(p) \/ WriteFile(p) \/ Crash(p) \/ Interrupt(p)
    PROVE  TypeOK'
<1>1. ASSUME NEW a \in Actors, Load(a) PROVE TypeOK'
  <2>1. artifact.content \in Contents
    BY <1>1 DEF Load, Loads, Capability
  <2>. QED
    BY <1>1, <2>1, ReviewType DEF Load, TypeOK, Goto, Commands, files, journal, invoked
<1>2. ASSUME NEW a \in Actors, RecordApproval(a) PROVE TypeOK'
  <2>1. Review(a, held[a]) \in Approval
    BY <1>2, HeldContent, ReviewType DEF RecordApproval
  <2>. QED
    BY <1>2, <2>1 DEF RecordApproval, TypeOK, Goto, Commands, files, invoked
<1>3. CASE StartCompile \/ RecordCompiled
  BY <1>3 DEF StartCompile, RecordCompiled, TypeOK, Goto, Commands, files, journal, invoked
<1>4. ASSUME NEW p \in Commands, OpenFile(p) PROVE TypeOK'
  BY <1>4 DEF OpenFile, TypeOK, Goto, Commands, journal, invoked
<1>5. ASSUME NEW p \in Commands, WriteFile(p) PROVE TypeOK'
  <2>1. artifact' \in Capability \cup {Torn}
    BY <1>5, ProductType DEF WriteFile
  <2>2. CASE p = Maker
    BY <1>5, <2>1, <2>2 DEF WriteFile, TypeOK, Goto, Commands, journal, invoked
  <2>3. CASE p \in Actors
    <3>1. Exit(p)
      BY <1>5, <2>3 DEF WriteFile
    <3>. QED
      BY <1>5, <2>1, <3>1, ExitLabels DEF WriteFile, TypeOK, Commands, journal, invoked
  <2>. QED
    BY <2>2, <2>3 DEF Commands
<1>6. ASSUME NEW p \in Commands, Crash(p) PROVE TypeOK'
  <2>1. Exit(p)
    BY <1>6 DEF Crash
  <2>. QED
    BY <1>6, <2>1, ExitLabels DEF Crash, TypeOK, Commands, files, journal, invoked
<1>7. ASSUME NEW p \in Commands, Interrupt(p) PROVE TypeOK'
  <2>1. Exit(p)
    BY <1>7 DEF Interrupt
  <2>2. approvals' \subseteq Approval
    BY <1>7, HeldContent, ReviewType DEF Interrupt, TypeOK, Commands
  <2>3. intact' \in BOOLEAN /\ UNCHANGED <<files, invoked, reviewed>>
    BY <1>7 DEF Interrupt
  <2>. QED
    BY <2>1, <2>2, <2>3, ExitLabels DEF TypeOK, Commands, files, invoked
<1>. QED
  BY <1>1, <1>2, <1>3, <1>4, <1>5, <1>6, <1>7

\* So do the catalog and the editors.
LEMMA OtherTypes ==
    ASSUME TypeOK,
           LoadCatalog \/ ReplayTool \/ EndCatalog \/ Edit \/ EditOverride
    PROVE  TypeOK'
<1>1. CASE LoadCatalog
  BY <1>1 DEF LoadCatalog, TypeOK, IsApproved, Loads, Capability, files, journal, command
<1>2. CASE ReplayTool
  BY <1>2 DEF ReplayTool, TypeOK, IsApproved, Loads, Capability, files, journal, command
<1>3. CASE EndCatalog
  BY <1>3 DEF EndCatalog, TypeOK, files, journal, command
<1>4. CASE Edit \/ EditOverride
  BY <1>4 DEF Edit, EditOverride, TypeOK, journal, command, invoked
<1>. QED
  BY <1>1, <1>2, <1>3, <1>4

-----------------------------------------------------------------------------
\* What is approved was reviewed, and recorded before it is written.
LEMMA CommandRecords ==
    ASSUME TypeOK, Witnessed, Recorded,
           \/ \E a \in Actors : Load(a) \/ RecordApproval(a)
           \/ StartCompile \/ RecordCompiled
           \/ \E p \in Commands : OpenFile(p) \/ WriteFile(p) \/ Crash(p) \/ Interrupt(p)
    PROVE  Witnessed' /\ Recorded'
<1>. USE DEF Witnessed, Recorded, Commands
<1>1. ASSUME NEW a \in Actors, Load(a) PROVE Witnessed' /\ Recorded'
  <2>1. /\ pc'[a] = "record" /\ held'[a] = artifact.content
        /\ \A b \in Actors \ {a} : pc'[b] = pc[b] /\ held'[b] = held[b]
    BY <1>1, GotoLabels DEF Load, TypeOK
  <2>. QED
    BY <1>1, <2>1 DEF Load, journal, Review
<1>2. ASSUME NEW a \in Actors, RecordApproval(a) PROVE Witnessed' /\ Recorded'
  BY <1>2, GotoLabels DEF RecordApproval
<1>3. CASE StartCompile \/ RecordCompiled
  BY <1>3, GotoLabels DEF StartCompile, RecordCompiled, journal
<1>4. ASSUME NEW p \in Commands, OpenFile(p) PROVE Witnessed' /\ Recorded'
  BY <1>4, GotoLabels DEF OpenFile, journal
<1>5. ASSUME NEW p \in Commands, WriteFile(p) PROVE Witnessed' /\ Recorded'
  <2>1. CASE p = Maker
    BY <1>5, <2>1, GotoLabels DEF WriteFile, journal
  <2>2. CASE p \in Actors
    BY <1>5, <2>2, ExitLabels DEF WriteFile, journal
  <2>. QED
    BY <2>1, <2>2
<1>6. ASSUME NEW p \in Commands, Crash(p) PROVE Witnessed' /\ Recorded'
  BY <1>6, ExitLabels DEF Crash, journal
<1>7. ASSUME NEW p \in Commands, Interrupt(p) PROVE Witnessed' /\ Recorded'
  <2>1. approvals \subseteq approvals' /\ approvals' \subseteq reviewed
    BY <1>7 DEF Interrupt
  <2>. QED
    BY <1>7, <2>1, ExitLabels DEF Interrupt
<1>. QED
  BY <1>1, <1>2, <1>3, <1>4, <1>5, <1>6, <1>7

\* The catalog replays an override with its own base, and nobody else touches
\* what is replayed.
LEMMA OverrideStep ==
    ASSUME TypeOK, OverrideFitsBase, [Next]_vars
    PROVE  OverrideFitsBase'
<1>1. CASE ReplayTool
  BY <1>1 DEF ReplayTool, Fits, OverrideFitsBase
<1>2. CASE EndCatalog
  BY <1>2 DEF EndCatalog, OverrideFitsBase
<1>3. CASE UNCHANGED executed
  BY <1>3 DEF OverrideFitsBase
<1>4. \/ ReplayTool \/ EndCatalog \/ UNCHANGED executed
  BY DEF Next, Load, RecordApproval, StartCompile, RecordCompiled, OpenFile, WriteFile,
         Crash, Interrupt, LoadCatalog, Edit, EditOverride, invoked, vars
<1>. QED
  BY <1>1, <1>2, <1>3, <1>4

-----------------------------------------------------------------------------
\* Every step preserves the invariant.
LEMMA InductiveStep == IInv /\ [Next]_vars => IInv'
<1>. SUFFICES ASSUME IInv, [Next]_vars PROVE IInv'
  OBVIOUS
<1>. USE DEF IInv
<1>1. CASE \/ \E a \in Actors : Load(a) \/ RecordApproval(a)
           \/ StartCompile \/ RecordCompiled
           \/ \E p \in Commands : OpenFile(p) \/ WriteFile(p) \/ Crash(p) \/ Interrupt(p)
  BY <1>1, CommandTypes, CommandRecords, OverrideStep
<1>2. CASE LoadCatalog \/ ReplayTool \/ EndCatalog \/ Edit \/ EditOverride
  <2>1. UNCHANGED <<approvals, reviewed, pc, held>>
    BY <1>2 DEF LoadCatalog, ReplayTool, EndCatalog, Edit, EditOverride, journal, command
  <2>2. Witnessed' /\ Recorded'
    BY <2>1 DEF Witnessed, Recorded
  <2>. QED
    BY <1>2, <2>2, OtherTypes, OverrideStep
<1>3. CASE UNCHANGED vars
  BY <1>3, OverrideStep
     DEF vars, files, journal, command, invoked, TypeOK, Witnessed, Recorded
<1>. QED
  BY <1>1, <1>2, <1>3 DEF Next

\* The invariant holds for ever.
THEOREM Invariant == Spec => []IInv
<1>1. Init => IInv
  BY InductiveInit
<1>2. IInv /\ [Next]_vars => IInv'
  BY InductiveStep
<1>. QED
  BY <1>1, <1>2, PTL DEF Spec

\* The files, the journal and the commands keep their types, for any number
\* of actors and contents.
THEOREM TypeCorrect == Spec => []TypeOK
<1>1. IInv => TypeOK
  BY DEF IInv
<1>. QED
  BY <1>1, Invariant, PTL

\* What verifies as approved was witnessed by the journal, and so reviewed.
LEMMA WitnessedFile == IInv => VerifiedIsReviewed
<1>. SUFFICES ASSUME IInv, Verified(artifact), IsApproved(artifact)
              PROVE  Review(artifact.approval.actor, artifact.content) \in reviewed
  BY DEF VerifiedIsReviewed
<1>1. artifact.approval \in approvals /\ artifact.approval.reviewed = artifact.content
  BY DEF Verified, IsApproved, Loads
<1>2. artifact.approval \in Approval /\ artifact.approval \in reviewed
  BY <1>1 DEF IInv, TypeOK, Witnessed
<1>3. artifact.approval = Review(artifact.approval.actor, artifact.approval.reviewed)
  BY <1>2 DEF Approval, Review
<1>. QED
  BY <1>1, <1>2, <1>3

\* `cua verify` accepts an approved artifact only if its approver has run
\* `cua approve` on that content: no edit of the file can bring an approval,
\* and the journal has it before the file, whoever edits or dies in between.
THEOREM ApprovalsSound == Spec => []ApprovalsAreSound
<1>1. IInv => JournaledFirst
  BY DEF IInv, Recorded, JournaledFirst, Product, Approved
<1>2. IInv => ApprovalsAreSound
  BY <1>1, WitnessedFile DEF ApprovalsAreSound
<1>. QED
  BY <1>2, Invariant, PTL

\* The override a catalog call replays is the one made for the base it
\* replays, although both files are read twice.
THEOREM OverridesFit == Spec => []OverrideFitsBase
<1>1. IInv => OverrideFitsBase
  BY DEF IInv
<1>. QED
  BY <1>1, Invariant, PTL
=============================================================================
