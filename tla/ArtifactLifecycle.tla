------------------------- MODULE ArtifactLifecycle --------------------------
(***************************************************************************)
(* A capability's file from compilation to use: `cua compile`, `approve`,  *)
(* `verify` and `catalog-invoke` (cli/__main__.py) as processes that read  *)
(* and write one artifact, one tenant override and the journal of the run  *)
(* the artifact derives from, while anyone may edit the two files and any  *)
(* process may die between two of its steps.                               *)
(*                                                                         *)
(* A content is what capability_content_digest makes of everything but     *)
(* status and approval.  A file with an approval is approved, one without  *)
(* is a draft or a candidate: the approval of a draft is never looked at,  *)
(* and what is approved without one is as unreadable as what is torn.  The *)
(* journal is reduced to its approvals and to whether its chain is intact: *)
(* module RunJournal says why a broken one stays broken.                   *)
(***************************************************************************)
EXTENDS Integers

CONSTANTS Contents,    \* content digests
          Compiled,    \* the content compile_run derives from the journal
          Actors,      \* who runs `cua approve`
          Maker,       \* the process that runs `cua compile`
          None

ASSUME LifecycleAssumption ==
    /\ Compiled \in Contents
    /\ Maker \notin Actors
    /\ None \notin Contents

VARIABLES
    artifact,    \* the artifact's file
    override,    \* the tenant override's file: the base digest it is bound to
    approvals,   \* CapabilityApproved records of the journal
    intact,      \* is the journal's chain intact?
    pc,          \* where each command is
    held,        \* the capability an approve command has read
    catalog,     \* the state of `cua catalog-invoke`
    offered,     \* the tool its model is offered: content, with an override?
    executed,    \* what it replays: content and override
    reviewed     \* what each actor has run `cua approve` on

files   == <<artifact, override>>
journal == <<approvals, intact>>
command == <<pc, held>>
invoked == <<catalog, offered, executed>>
vars    == <<files, journal, command, invoked, reviewed>>

-----------------------------------------------------------------------------
Commands == Actors \cup {Maker}
Approval == [actor : Actors, reviewed : Contents]
Capability == [content : Contents, approval : Approval \cup {None}]
Torn == [content |-> None]     \* a file that is no JSON document

Draft(content) == [content |-> content, approval |-> None]
Review(a, content) == [actor |-> a, reviewed |-> content]
Approved(a, content) == [content |-> content, approval |-> Review(a, content)]

Loads_AnyApproval(file) ==                           \* mutant: a stale approval loads
    file \in Capability

\* Capability.model_validate_json: assert_current_approval among the rest.
Loads(file) ==
    /\ file \in Capability
    /\ file.approval # None => file.approval.reviewed = file.content

\* TenantOverride.verify_parent: an override is bound to the digest of its base.
Fits(bound, file) == bound = file.content

IsApproved(file) == Loads(file) /\ file.approval # None

\* RunProvenanceVerifier.verify, every check of the report passed.
Verified(file) ==
    /\ Loads(file)
    /\ intact
    /\ file.content = Compiled
    /\ file.approval # None => file.approval \in approvals

Init ==
    /\ artifact = Torn /\ override = None
    /\ approvals = {} /\ intact = TRUE
    /\ pc = [p \in Commands |-> "idle"]
    /\ held = [p \in Commands |-> None]
    /\ catalog = "idle" /\ offered = None /\ executed = None
    /\ reviewed = {}

Goto(p, label) == pc' = [pc EXCEPT ![p] = label]

Exit(p) == Goto(p, "idle") /\ held' = [held EXCEPT ![p] = None]

-----------------------------------------------------------------------------
(* cua approve: load, journal the approval, write the file                 *)

Load(a) ==
    /\ pc[a] = "idle"
    /\ Loads(artifact)
    /\ held' = [held EXCEPT ![a] = artifact.content]
    /\ reviewed' = reviewed \cup {Review(a, artifact.content)}
    /\ Goto(a, "record")
    /\ UNCHANGED <<files, journal, invoked>>

\* RunJournal opens a journal whose chain is intact, and appends to it.
RecordApproval(a) ==
    /\ pc[a] = "record"
    /\ intact
    /\ approvals' = approvals \cup {Review(a, held[a])}
    /\ Goto(a, "open")
    /\ UNCHANGED <<files, intact, held, invoked, reviewed>>

-----------------------------------------------------------------------------
(* cua compile: write the file, journal the compilation                    *)

StartCompile ==
    /\ pc[Maker] = "idle"
    /\ Goto(Maker, "open")
    /\ UNCHANGED <<files, journal, held, invoked, reviewed>>

RecordCompiled ==
    /\ pc[Maker] = "record"
    /\ intact
    /\ Goto(Maker, "idle")
    /\ UNCHANGED <<files, journal, held, invoked, reviewed>>

-----------------------------------------------------------------------------
(* What both have in common                                                *)

\* write_bytes: the file is truncated,
OpenFile(p) ==
    /\ pc[p] = "open"
    /\ artifact' = Torn
    /\ Goto(p, "write")
    /\ UNCHANGED <<override, journal, held, invoked, reviewed>>

Product(p) == IF p = Maker THEN Draft(Compiled) ELSE Approved(p, held[p])

\* and written; over what another process has written in between, it may be
\* neither's.
WriteFile(p) ==
    /\ pc[p] = "write"
    /\ artifact' \in {Product(p)} \cup (IF artifact = Torn THEN {} ELSE {Torn})
    /\ IF p = Maker THEN Goto(p, "record") /\ UNCHANGED held ELSE Exit(p)
    /\ UNCHANGED <<override, journal, invoked, reviewed>>

\* The command dies, or its journal is busy, broken or not to be found.
Crash(p) ==
    /\ pc[p] # "idle"
    /\ Exit(p)
    /\ UNCHANGED <<files, journal, invoked, reviewed>>

\* It dies between the record and the head: see RunJournal.
Interrupt(p) ==
    /\ pc[p] = "record" /\ intact
    /\ intact' = FALSE
    /\ approvals' \in IF p = Maker THEN {approvals}
                      ELSE {approvals, approvals \cup {Review(p, held[p])}}
    /\ Exit(p)
    /\ UNCHANGED <<files, invoked, reviewed>>

-----------------------------------------------------------------------------
(* cua catalog-invoke                                                      *)

\* CapabilityCatalog.load: an approved artifact, and an override that is
\* bound to it; the model is asked with the tool derived from them.
LoadCatalog ==
    /\ catalog = "idle"
    /\ IsApproved(artifact)
    /\ override # None => Fits(override, artifact)
    /\ offered' = [content |-> artifact.content, patched |-> override # None]
    /\ catalog' = "selecting"
    /\ UNCHANGED <<files, journal, command, executed, reviewed>>

ReplayTool_TrustsCatalog ==                          \* mutant: the override is not verified
    /\ catalog = "selecting"
    /\ IsApproved(artifact)
    /\ offered.patched => override # None
    /\ executed' = [content |-> artifact.content,
                    override |-> IF offered.patched THEN override ELSE None]
    /\ catalog' = "replaying"
    /\ UNCHANGED <<files, journal, command, offered, reviewed>>

\* The selected tool is replayed from its path: both files are read again.
ReplayTool ==
    /\ catalog = "selecting"
    /\ IsApproved(artifact)
    /\ offered.patched => Fits(override, artifact)
    /\ executed' = [content |-> artifact.content,
                    override |-> IF offered.patched THEN override ELSE None]
    /\ catalog' = "replaying"
    /\ UNCHANGED <<files, journal, command, offered, reviewed>>

\* The replay is over, or it was refused: StaleApprovalError, not approved,
\* StaleOverrideError.
EndCatalog ==
    /\ catalog # "idle"
    /\ catalog' = "idle" /\ offered' = None /\ executed' = None
    /\ UNCHANGED <<files, journal, command, reviewed>>

-----------------------------------------------------------------------------
(* Editors                                                                 *)

Edit ==
    /\ artifact' \in Capability
    /\ UNCHANGED <<override, journal, command, invoked, reviewed>>

EditOverride ==
    /\ override' \in Contents \cup {None}
    /\ UNCHANGED <<artifact, journal, command, invoked, reviewed>>

Next ==
    \/ \E a \in Actors : Load(a) \/ RecordApproval(a)
    \/ StartCompile \/ RecordCompiled
    \/ \E p \in Commands : OpenFile(p) \/ WriteFile(p) \/ Crash(p) \/ Interrupt(p)
    \/ LoadCatalog \/ ReplayTool \/ EndCatalog
    \/ Edit \/ EditOverride

Spec == Init /\ [][Next]_vars

-----------------------------------------------------------------------------
(* Properties                                                              *)

\* The files, the journal and the commands keep their types.
TypeOK ==
    /\ artifact \in Capability \cup {Torn}
    /\ override \in Contents \cup {None}
    /\ approvals \subseteq Approval /\ intact \in BOOLEAN
    /\ pc \in [Commands -> {"idle", "record", "open", "write"}]
    /\ held \in [Commands -> Contents \cup {None}]
    /\ \A a \in Actors : held[a] = None <=> pc[a] = "idle"
    /\ catalog \in {"idle", "selecting", "replaying"}
    /\ offered \in IF catalog = "idle" THEN {None}
                   ELSE [content : Contents, patched : BOOLEAN]
    /\ executed \in IF catalog = "replaying"
                    THEN [content : Contents, override : Contents \cup {None}] ELSE {None}
    /\ reviewed \subseteq Approval

\* An approved artifact that verifies, however its file was edited, is one
\* that its approver has run `cua approve` on, with the very content it has.
VerifiedIsReviewed ==
    Verified(artifact) /\ IsApproved(artifact) =>
        Review(artifact.approval.actor, artifact.content) \in reviewed

\* No approval reaches the file before it is in the journal, whatever was
\* edited and whoever died since the artifact was read.
JournaledFirst ==
    \A a \in Actors : pc[a] = "write" => Product(a).approval \in approvals

\* No file may claim a review that did not take place: what verifies as
\* approved was reviewed, and the journal knew first.
ApprovalsAreSound == VerifiedIsReviewed /\ JournaledFirst

\* A tenant override is replayed with the base it was reviewed against only,
\* whatever has become of the two since the catalog read them.
OverrideFitsBase ==
    executed # None => executed.override \in {None, executed.content}

=============================================================================
