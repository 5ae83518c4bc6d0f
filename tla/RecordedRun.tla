---------------------------- MODULE RecordedRun -----------------------------
(***************************************************************************)
(* From a discovery run to its draft: the nodes of DiscoveryAgent with the *)
(* records they journal (discovery/graph.py), and what RunManifest and     *)
(* TraceCompiler make of the journal when the run is over.                 *)
(*                                                                         *)
(* A record's step is the decision it belongs to, known by the count of    *)
(* the calls of the planner; an observation's id is its place in the       *)
(* journal.  The target's metadata is only recorded after the run, by      *)
(* scripts/reconstruct_discovery_target.py.                                *)
(*                                                                         *)
(* The journal of `cua discover` is behind a JournalAdapter that redacts   *)
(* the names of targets and the typed literals; a plain RunJournal, as the *)
(* tests use, only redacts by pattern.                                     *)
(***************************************************************************)
EXTENDS DiscoveryAgent, TraceCompiler, RunManifest

\* Readings, and they only, name an output.
ASSUME RecordedAssumption ==
    \A move \in Moves : move.kind = "read" <=> move.output # None

VARIABLES
    trace,     \* the journal, as far as manifest and compiler look at it
    redacting  \* does an adapter redact the targets in it?

recorded == <<vars, trace, redacting>>

Other(type) == [type |-> type]
Observed(page, place) == [type |-> "Observed", page |-> page, id |-> place]
Decided(step) == [type |-> "ModelDecided", step |-> step]
Judged(page, decided, rule) ==
    [type |-> "PolicyDecision", page |-> page, verdict |-> decided, rule |-> rule]
Attempted(page, step, move, legible) ==
    [type |-> "ActionAttempted", page |-> page, step |-> step, key |-> move.key,
     kind |-> move.kind, output |-> move.output, legible |-> legible]
Performed(move, valued) == [type |-> "ActionResult", kind |-> move.kind, valued |-> valued]
Ended == [type |-> "RunEnded", result |-> ended'[Len(ended')]]

\* What a handoff journals, and what is left of it when one of its calls fails.
HandoffRecords == <<Other("ControlTransferred"), Other("HumanAction"),
                    Other("ControlReturned"), Other("HumanChangeSummary")>>
Unfinished == {SubSeq(HandoffRecords, 1, n) : n \in 0 .. 4}
              \cup {<<HandoffRecords[1], HandoffRecords[3]>>,
                    <<HandoffRecords[1], HandoffRecords[3], HandoffRecords[4]>>}

\* config/policy.yaml has one kind of rule for each risk.
RuleOf(site) == CASE site = "refused" -> "default.deny"
                  [] site = "safe" -> "navigation.read-and-control"
                  [] site = "reversible" -> DataEntry
                  [] site = "irreversible" -> "account.confirm-submit"

Journal(records) == trace' = trace \o records /\ UNCHANGED redacting

\* A reading has a target, which the adapter redacts; whether what a record
\* and its snapshot kept of any other attempt can be compiled is up to the page
\* and the patterns.  The page may have no value to read: a plain journal
\* keeps a marker for that, too.
Kept(legible, valued) ==
    /\ redacting /\ pending.kind = "read" => ~legible
    /\ valued \/ (redacting /\ pending.kind = "read")

RecordedInit == Init /\ trace = <<>> /\ redacting \in BOOLEAN

-----------------------------------------------------------------------------
RecordedObserve ==
    /\ Observe
    /\ Journal(IF status' = "running" THEN <<Observed(observation', Len(trace) + 1)>>
                                      ELSE <<>>)

RecordedDecide ==
    /\ Decide
    /\ Journal(IF observation = None THEN <<>> ELSE <<Decided(budget'.llm_calls)>>)

RecordedCheck ==
    /\ CheckPolicy
    /\ Journal(<<Judged(observation, verdict', RuleOf(pending.site))>>)

\* The attempt is journaled before it is made, the result when there is one.
RecordedAct ==
    /\ Act
    /\ \E legible, valued \in BOOLEAN :
         LET attempt == Attempted(observation, budget.llm_calls, pending, legible)
         IN /\ Kept(legible, valued)
            /\ Journal(CASE status' = "policy_denied" -> <<>>
                         [] status' = "surface_error" -> <<attempt>>
                         [] OTHER -> <<attempt, Performed(pending, valued)>>)

\* The page after the action, the landed URL of a navigation, the turn.
RecordedVerify ==
    /\ Verify
    /\ LET seen == Observed(observation', Len(trace) + 1)
           landed(decided) == Judged(observation', decided, "redirect")
       IN CASE pending.kind # "navigate" -> Journal(<<seen, Other("CheckpointEvaluated")>>)
            [] pending.kind = "navigate" /\ status' # "policy_denied" ->
                 Journal(<<seen, landed("allow"), Other("CheckpointEvaluated")>>)
            [] pending.kind = "navigate" /\ status' = "policy_denied" ->
                 \E decided \in {"deny", "escalate"} : Journal(<<seen, landed(decided)>>)

RecordedTerminal_EndsFirst ==                        \* mutant: the end before the escalation
    /\ Terminal
    /\ Journal(IF status = "goal_reached" THEN <<Ended>>
               ELSE <<Ended, Other("EscalationRaised")>>)

RecordedTerminal ==
    /\ Terminal
    /\ Journal(IF status = "goal_reached" THEN <<Ended>>
               ELSE <<Other("EscalationRaised"), Ended>>)

RecordedLeave == Leave /\ Journal(<<>>)

RecordedEscalation == RaiseEscalation /\ Journal(<<Other("EscalationRaised")>>)

\* The planner raises before its decision is journaled, its locator ladder
\* after; the resolution of the target before the attempt is.
RecordedRaise ==
    /\ Raise
    /\ \/ Journal(<<Ended>>)
       \/ /\ pc = "decide"
          /\ Journal(<<Decided(budget.llm_calls + 1), Ended>>)

RecordedConfirm_AsAttempt ==                         \* mutant: the operator's action is a step
    /\ Confirm
    /\ Journal(<<Other("ControlTransferred"),
                 Attempted(observation, budget.llm_calls, pending, TRUE), Other("ControlReturned")>>
               \o (IF pc' = "closed" THEN <<Ended>> ELSE <<>>))

\* The records of a handoff; nothing of it is an attempt of the agent.
RecordedConfirm ==
    /\ Confirm
    /\ IF pc' = "closed" THEN \E records \in Unfinished : Journal(Append(records, Ended))
       ELSE Journal(HandoffRecords)

RecordedRefuse == Refuse /\ Journal(<<Ended>>)

-----------------------------------------------------------------------------
(* After the run                                                           *)

Reconstructed == OfType(trace, "TargetMetadataReconstructed") # {}

\* The script begins with the manifest of the run.
Reconstruct ==
    /\ pc = "closed" /\ WriteManifest(trace).error = "none"
    /\ ~Reconstructed
    /\ Journal(<<Other("TargetMetadataReconstructed"), Other("ManifestRegenerated")>>)
    /\ UNCHANGED vars

RecordedNext ==
    \/ RecordedObserve \/ RecordedDecide \/ RecordedCheck \/ RecordedAct
    \/ RecordedVerify \/ RecordedTerminal \/ RecordedLeave
    \/ RecordedEscalation \/ RecordedRaise \/ RecordedConfirm \/ RecordedRefuse
    \/ Reconstruct

RecordedSpec == RecordedInit /\ [][RecordedNext]_recorded

-----------------------------------------------------------------------------
(* Properties                                                              *)

Succeeded == pc = "closed" /\ ended = <<"success">>
Capability == CompileRun(trace)

\* The positions of the attempts, in order.
Attempts == OfType(trace, "ActionAttempted")
Nth(n) == CHOOSE i \in Attempts :
              Cardinality({j \in Attempts : j <= i}) = n

\* The one pass of the compiler says of every step what the whole journal
\* says of its attempt: the last observation of its page, the last allowed
\* decision on it, the first observation after it.
CompilesAsJournaled ==
    pc = "closed" /\ Capability.error = "none" =>
        /\ Len(Capability.steps) = Cardinality(Attempts)
        /\ \A n \in DOMAIN Capability.steps :
               Describes(Capability.steps[n], trace, Nth(n))

\* The run read one output twice, which no capability can name.
ReadsTwice ==
    \E i, j \in DOMAIN history :
        i # j /\ history[i].output # None /\ history[i].output = history[j].output

\* A run that reached its goal, handed off or not, compiles once its target is
\* reconstructed if, and only if, the redaction of its journal left every
\* attempt legible and no output was read twice; one that `cua discover` has
\* journaled never does, the reading that reached the goal being illegible.
\* It compiles into the turns the agent took, no more and no less, in their
\* order: an attempt that failed is in no capability, nor is what an operator
\* did.
GoalCompiles ==
    Succeeded =>
        /\ Reconstructed =>
               (Capability.error = "none" <=>
                    (\A i \in Attempts : trace[i].legible) /\ ~ReadsTwice)
        /\ redacting => Capability.error # "none"
        /\ Capability.error = "none" =>
               /\ Len(Capability.steps) = Len(history)
               /\ \A n \in DOMAIN history :
                      LET step == Capability.steps[n]
                      IN /\ step.key = history[n].key
                         /\ (step.page # step.checkpoint) = history[n].changed

\* The manifest of a run that has closed can be written, whichever call failed
\* last, and tells the run, with amendments or without: how it ended, every
\* paid answer of the planner, an escalated decision behind an operator's
\* action, and an output for every reading that was verified, if it had a
\* value.  Only what fails after the terminal node leaves a run without one:
\* the second end is no amendment of the first.
ManifestTellsTheRun ==
    pc = "closed" =>
        LET manifest == WriteManifest(trace)
            readings == {i \in DOMAIN history : history[i].output # None}
            valueless == ReadResults(trace) \ Readings(trace)
        IN IF Len(ended) = 2 THEN manifest.error = "not an amendment"
           ELSE /\ manifest.error = "none"
                /\ ended = <<manifest.status>>
                /\ manifest.counts.calls \in budget.llm_calls .. budget.llm_calls + 1
                /\ confirmed <= manifest.counts.escalated
                /\ Cardinality(readings) <= manifest.outputs + Cardinality(valueless)
=============================================================================
