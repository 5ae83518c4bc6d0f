--------------------------- MODULE TraceCompiler ----------------------------
(***************************************************************************)
(* compile_run (discovery/compiler.py): a draft capability from the        *)
(* journal of a discovery run, in one pass and without asking a model.     *)
(*                                                                         *)
(* A journal is a sequence of records; those the compiler does not look at *)
(* only have their type.  What a step is compiled to is the data the pass  *)
(* has to get right: whose decision, on which observation, with which      *)
(* risk, and the page its checkpoint describes.  Of actions, targets and   *)
(* snapshots an attempt only has whether the journal's redaction left them *)
(* legible.                                                                *)
(***************************************************************************)
EXTENDS Integers, Sequences

\* The policy's rule that makes an action reversible.
DataEntry == "form.data-entry"

\* The dictionaries of the pass, before the first record.
Blank == [observed |-> <<>>, decisions |-> {}, policies |-> <<>>, post_roots |-> <<>>,
          actions |-> <<>>, last_step |-> 0, metadata |-> FALSE]

\* dict[key] = value
Put(dict, key, value) ==
    [k \in DOMAIN dict \cup {key} |-> IF k = key THEN value ELSE dict[k]]

Read_KeepsLastStep(dicts, record) ==                 \* mutant: last_step is not reset
    CASE record.type = "Observed" ->
           [dicts EXCEPT
              !.observed = Put(@, record.page, record.id),
              !.post_roots = IF dicts.last_step = 0 THEN @
                             ELSE Put(@, dicts.last_step, record.page)]
      [] record.type = "ModelDecided" ->
           [dicts EXCEPT !.decisions = @ \cup {record.step}]
      [] record.type = "PolicyDecision" /\ record.verdict = "allow" ->
           [dicts EXCEPT !.policies = Put(@, record.page, record.rule)]
      [] record.type = "ActionAttempted" ->
           [dicts EXCEPT !.actions = Append(@, record), !.last_step = record.step]
      [] record.type = "TargetMetadataReconstructed" ->
           [dicts EXCEPT !.metadata = TRUE]
      [] OTHER -> dicts

\* One record.  An observation or an allowed decision replaces an earlier one
\* of the same page; the first observation after an attempt is its outcome.
Read(dicts, record) ==
    CASE record.type = "Observed" ->
           [dicts EXCEPT
              !.observed = Put(@, record.page, record.id),
              !.post_roots = IF dicts.last_step = 0 THEN @
                             ELSE Put(@, dicts.last_step, record.page),
              !.last_step = 0]
      [] record.type = "ModelDecided" ->
           [dicts EXCEPT !.decisions = @ \cup {record.step}]
      [] record.type = "PolicyDecision" /\ record.verdict = "allow" ->
           [dicts EXCEPT !.policies = Put(@, record.page, record.rule)]
      [] record.type = "ActionAttempted" ->
           [dicts EXCEPT !.actions = Append(@, record), !.last_step = record.step]
      [] record.type = "TargetMetadataReconstructed" ->
           [dicts EXCEPT !.metadata = TRUE]
      [] OTHER -> dicts

\* The lookups of the second loop, without which it raises KeyError.
Attributable(dicts, attempt) ==
    /\ attempt.page \in DOMAIN dicts.observed
    /\ attempt.step \in dicts.decisions
    /\ attempt.step \in DOMAIN dicts.post_roots

\* ACTION_ADAPTER and AxTarget validate what the journal kept of an action and
\* its target, compile_ladder looks for the target in what the snapshot kept of
\* the page, and Step asks for the target: each raises ValueError.
Legible(actions) == \A i \in DOMAIN actions : actions[i].legible

\* A rule that is not the rule of data entry is "safe", unmatched ones too.
CompiledStep(dicts, attempt) ==
    [step        |-> attempt.step,
     key         |-> attempt.key,
     page        |-> attempt.page,
     observation |-> dicts.observed[attempt.page],
     checkpoint  |-> dicts.post_roots[attempt.step],
     risk        |-> IF /\ attempt.page \in DOMAIN dicts.policies
                        /\ dicts.policies[attempt.page] = DataEntry
                     THEN "reversible" ELSE "safe"]

\* What the validators of Capability ask of the steps and outputs compiled:
\* there is a step, and each output has a name of its own.
Coherent(actions) ==
    /\ actions # <<>>
    /\ \A i, j \in DOMAIN actions :
           (/\ actions[i].kind = "read" /\ actions[j].kind = "read"
            /\ actions[i].output = actions[j].output) => i = j

Failure(reason) == [error |-> reason, steps |-> <<>>]

\* The dictionaries after the last record.
Pass(journal) ==
    LET dicts[i \in 0 .. Len(journal)] ==
            IF i = 0 THEN Blank ELSE Read(dicts[i - 1], journal[i])
    IN  dicts[Len(journal)]

CompileRun(journal) ==
    LET dicts == Pass(journal)
    IN CASE ~dicts.metadata -> Failure("no target")
         [] dicts.metadata /\ \E i \in DOMAIN dicts.actions :
                                  ~Attributable(dicts, dicts.actions[i]) -> Failure("key")
         [] OTHER ->
              IF Legible(dicts.actions) /\ Coherent(dicts.actions)
              THEN [error |-> "none",
                    steps |-> [i \in DOMAIN dicts.actions |->
                                   CompiledStep(dicts, dicts.actions[i])]]
              ELSE Failure("validation")

-----------------------------------------------------------------------------
(* What a compiled step says, in terms of the journal                      *)

\* The step compiled from the attempt at i of journal.
Describes(step, journal, i) ==
    LET attempt == journal[i]
        observations == {j \in DOMAIN journal : journal[j].type = "Observed"}
        seen == {j \in observations : journal[j].page = attempt.page}
        allowed == {j \in DOMAIN journal :
                        /\ journal[j].type = "PolicyDecision" /\ journal[j].verdict = "allow"
                        /\ journal[j].page = attempt.page}
        after == {j \in observations : j > i}
        last(S, j) == j \in S /\ \A k \in S : k <= j
        first(S, j) == j \in S /\ \A k \in S : j <= k
    IN /\ step.step = attempt.step /\ step.key = attempt.key /\ step.page = attempt.page
       /\ \E j \in seen : last(seen, j) /\ step.observation = journal[j].id
       /\ \E j \in after : first(after, j) /\ step.checkpoint = journal[j].page
       /\ step.risk = IF \E j \in allowed : last(allowed, j) /\ journal[j].rule = DataEntry
                      THEN "reversible" ELSE "safe"
=============================================================================
