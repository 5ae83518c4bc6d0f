---------------------------- MODULE RunManifest -----------------------------
(***************************************************************************)
(* write_manifest (observability/manifest.py): the summary of a run that   *)
(* is over, derived from the records of its journal and not from what the  *)
(* caller says of it.                                                      *)
(*                                                                         *)
(* The chain is intact here: module RunJournal has the one that is not.    *)
(* Evidence, inputs and prices are copied through and left out, and so is  *)
(* CostAmended, which nothing in the program appends.  A reading is a read *)
(* result that was journaled with a value.                                 *)
(***************************************************************************)
EXTENDS Integers, Sequences, FiniteSets

\* What may be appended to the journal of a run that has ended.
Amendments == {"CostAmended", "EvidenceRelabeled", "TargetMetadataReconstructed",
               "ManifestRegenerated", "CapabilityCompiled", "CapabilityApproved"}

OfType(journal, type) == {i \in DOMAIN journal : journal[i].type = type}

Decisions(journal, verdict) ==
    {i \in OfType(journal, "PolicyDecision") : journal[i].verdict = verdict}
ReadResults(journal) == {i \in OfType(journal, "ActionResult") : journal[i].kind = "read"}
Readings(journal) == {i \in ReadResults(journal) : journal[i].valued}

\* _summarize: the planner's calls and the policy's decisions.
Tally(journal) ==
    [calls     |-> Cardinality(OfType(journal, "ModelDecided")),
     allowed   |-> Cardinality(Decisions(journal, "allow")),
     denied    |-> Cardinality(Decisions(journal, "deny")),
     escalated |-> Cardinality(Decisions(journal, "escalate"))]

NoCounts == [calls |-> 0, allowed |-> 0, denied |-> 0, escalated |-> 0]

Earliest(places) == CHOOSE i \in places : \A j \in places : i <= j
Latest(places) == CHOOSE i \in places : \A j \in places : j <= i

\* _result_summary: the last RunEnded says how the run ended, each reading is
\* an output.
Summary(journal) ==
    [error   |-> "none",
     status  |-> journal[Latest(OfType(journal, "RunEnded"))].result,
     outputs |-> Cardinality(Readings(journal)),
     counts  |-> Tally(journal)]

Unwritten(reason) ==
    [error |-> reason, status |-> "none", outputs |-> 0, counts |-> NoCounts]

\* The first RunEnded is the end of the run; only amendments may follow.
WriteManifest(journal) ==
    LET ends == OfType(journal, "RunEnded")
    IN IF ends = {} THEN Unwritten("not ended")
       ELSE IF \E i \in Earliest(ends) + 1 .. Len(journal) : journal[i].type \notin Amendments
       THEN Unwritten("not an amendment")
       ELSE Summary(journal)
=============================================================================
