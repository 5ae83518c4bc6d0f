--------------------------- MODULE ReplayExecutor ---------------------------
(***************************************************************************)
(* One `cua replay` run: ReplayExecutor.execute (replay/executor.py) and,  *)
(* around it, the handoff and the resumed execution of _replay_capability  *)
(* (cli/__main__.py).                                                      *)
(*                                                                         *)
(* One action per await of the coroutine.  The page belongs to the world:  *)
(* every observation may differ from the one before.  An observation is    *)
(* abstracted to what the run asks of it; a capability to what its steps   *)
(* make the run do.  Any await that the code does not guard may raise.     *)
(***************************************************************************)
EXTENDS PolicyEngine, Sequences

CONSTANTS Capabilities,   \* recorded step sequences
          Calls,          \* what callers allow and ask for
          Policy          \* the policy configuration

\* Step.valid_step: an irreversible step has a checkpoint.
CapabilityStep == {s \in [reads : BOOLEAN, checked : BOOLEAN, risk : Risks] :
                      s.risk = "irreversible" => s.checked}

Options == [valid : BOOLEAN, approved : BOOLEAN, allow_draft : BOOLEAN,
            allow_irreversible : BOOLEAN, escalate : BOOLEAN, override : BOOLEAN]

ASSUME ReplayAssumption ==
    /\ Calls \subseteq Options
    /\ \A c \in Capabilities : c \in Seq(CapabilityStep) /\ c # <<>>
    /\ Policy.limits.steps \in Nat

VARIABLES
    capability,   \* the steps of the replayed capability
    options,      \* the caller's: one of Calls
    pc,           \* the await the run is at
    index,        \* the step at hand, from 1
    resumed,      \* is this the execution after the handoff?
    patched,      \* does this execution apply the tenant override?
    observation,  \* the last observation
    result,       \* what execute() returned
    outputs,      \* reading steps whose value is in `outputs`
    handed,       \* how many actions were dispatched when the operator handed back
    dispatched,   \* steps whose action reached the surface, in order
    risky,        \* those an irreversible rule covered
    verified,     \* steps whose checkpoint held
    acts          \* calls of surface.act

local == <<outputs, observation>>
ghost == <<handed, dispatched, risky, verified, acts>>
vars  == <<capability, options, pc, index, resumed, patched, local, result, ghost>>

-----------------------------------------------------------------------------
(* What the predicates of the capability and the policy say of a page:     *)
(* "ready": the preconditions of the next step; "site": its policy rule;   *)
(* "outcome": the first declared outcome that matches, by what it calls    *)
(* for; "done": the checkpoint of the last step.                           *)
Recoveries == {"dismiss", "reauthenticate", "retry"}
Observation == [ready : BOOLEAN, done : BOOLEAN,
                site : Sites,
                outcome : {"none", "business", "hard"} \cup Recoveries]

Unseen == [ready |-> FALSE, done |-> FALSE, site |-> "refused", outcome |-> "none"]

HardKinds == {"invalid_input", "precondition", "policy", "locator", "timeout",
              "unknown", "server", "session", "checkpoint"}
Results == {"none", "success", "business"} \cup HardKinds

Executing == {"begin", "decide", "resolve", "act", "look", "dismiss",
              "username", "signin", "recovered", "checkpoint"}
Places == Executing \cup {"returned", "operator", "recheck", "ended", "raised"}

Init ==
    /\ capability \in Capabilities
    /\ options \in Calls
    /\ pc = "begin" /\ index = 1
    /\ resumed = FALSE /\ patched = options.override
    /\ observation = Unseen
    /\ result = "none"
    /\ outputs = {} /\ handed = 0
    /\ dispatched = <<>> /\ risky = {} /\ verified = {}
    /\ acts = 0

Goto(place) == pc' = place
run == <<capability, options, index, resumed, patched>>

Return(r) == result' = r /\ Goto("returned")

-----------------------------------------------------------------------------
(* execute(): before the first step                                        *)

\* Observe; reject the call, or journal a draft's authorization and drift.
Begin ==
    /\ pc = "begin"
    /\ observation' \in Observation
    /\ IF ~options.valid \/ ~(options.approved \/ options.allow_draft)
       THEN Return("invalid_input")
       ELSE Goto("decide") /\ UNCHANGED result
    /\ UNCHANGED <<run, outputs, ghost>>

-----------------------------------------------------------------------------
(* execute(): one step                                                     *)

Step == capability[index]

Request == [site |-> observation.site,
            phase |-> "replay",
            budget |-> [steps |-> index - 1],
            status |-> IF options.approved THEN "approved" ELSE "draft",
            recorded |-> Step.risk,
            flag |-> options.allow_irreversible]

\* The preconditions, then the policy, whose decision is journaled.
Decide ==
    /\ pc = "decide"
    /\ index <= Len(capability)
    /\ IF ~observation.ready
       THEN Return("precondition")
       ELSE IF Verdict(Policy, Request) = "allow"
            THEN Goto("resolve") /\ UNCHANGED result
            ELSE Return("policy")
    /\ UNCHANGED <<run, local, ghost>>

\* The locator ladder, then ActionAttempted.
Resolve ==
    /\ pc = "resolve"
    /\ \/ Goto("act") /\ UNCHANGED result
       \/ Return("locator")
    /\ UNCHANGED <<run, local, ghost>>

\* surface.act; it may time out or raise after the action had its effect.
Act ==
    /\ pc = "act"
    /\ dispatched' = Append(dispatched, index)
    /\ risky' = IF observation.site = "irreversible" THEN risky \cup {index} ELSE risky
    /\ acts' = acts + 1
    /\ \/ Goto("look") /\ UNCHANGED result
       \/ Return("timeout")
       \/ Return("unknown")
    /\ UNCHANGED <<run, local, handed, verified>>

\* Keep the value read, observe, and look for a declared outcome.
Look ==
    /\ pc = "look"
    /\ observation' \in Observation
    /\ \E value \in IF Step.reads THEN {{}, {index}} ELSE {{}} :
           outputs' = outputs \cup value
    /\ LET outcome == observation'.outcome IN
           \/ outcome = "none"           /\ Goto("checkpoint") /\ UNCHANGED result
           \/ outcome = "business"       /\ Return("business")
           \/ outcome = "hard"           /\ Return("server")
           \/ outcome = "dismiss"        /\ Goto("dismiss")    /\ UNCHANGED result
           \/ outcome = "reauthenticate" /\ Goto("username")   /\ UNCHANGED result
           \/ outcome = "retry"          /\ Return("session")
    /\ UNCHANGED <<run, ghost>>

\* Recovery: the notice's button is found and clicked, or is not there.
DismissNotice ==
    /\ pc = "dismiss"
    /\ \/ acts' = acts + 1 /\ Goto("recovered") /\ UNCHANGED result
       \/ Return("locator") /\ UNCHANGED acts
    /\ UNCHANGED <<run, local, handed, dispatched, risky, verified>>

\* Recovery: the user name is typed into the login form, or it is not there.
TypeUsername ==
    /\ pc = "username"
    /\ \/ /\ acts' = acts + 1
          /\ observation' \in Observation
          /\ Goto("signin")
          /\ UNCHANGED result
       \/ Return("session") /\ UNCHANGED <<acts, observation>>
    /\ UNCHANGED <<run, outputs, handed, dispatched, risky, verified>>

ClickSignIn ==
    /\ pc = "signin"
    /\ \/ acts' = acts + 1 /\ Goto("recovered") /\ UNCHANGED result
       \/ Return("session") /\ UNCHANGED acts
    /\ UNCHANGED <<run, local, handed, dispatched, risky, verified>>

Recovered_Retries ==                                 \* mutant: back to the locator
    /\ pc = "recovered"
    /\ observation' \in Observation
    /\ Goto("resolve")
    /\ UNCHANGED <<run, result, outputs, ghost>>

\* Observe again, journal the recovery, go on to the checkpoint.
Recovered ==
    /\ pc = "recovered"
    /\ observation' \in Observation
    /\ Goto("checkpoint")
    /\ UNCHANGED <<run, result, outputs, ghost>>

\* The step's checkpoint, if it has one, on the last observation.
Checkpoint ==
    /\ pc = "checkpoint"
    /\ IF Step.checked /\ ~observation.done
       THEN Return("checkpoint") /\ UNCHANGED <<index, verified>>
       ELSE /\ index' = index + 1
                    /\ verified' = IF Step.checked THEN verified \cup {index} ELSE verified
            /\ Goto("decide")
            /\ UNCHANGED result
    /\ UNCHANGED <<capability, options, resumed, patched, local, handed,
                   dispatched, risky, acts>>

\* No step is left.
Succeed ==
    /\ pc = "decide"
    /\ index > Len(capability)
    /\ Return("success")
    /\ UNCHANGED <<run, local, ghost>>

-----------------------------------------------------------------------------
(* _replay_capability: the handoff, and the end of the run                 *)

FailedStep == IF result = "invalid_input" THEN 1 ELSE index

Escalate_Again ==                                    \* mutant: after the resumption too
    /\ pc = "returned"
    /\ result \in HardKinds /\ options.escalate
    /\ Goto("operator")
    /\ UNCHANGED <<run, result, local, ghost>>

Escalate ==
    /\ pc = "returned"
    /\ result \in HardKinds /\ options.escalate /\ ~resumed
    /\ Goto("operator")
    /\ UNCHANGED <<run, result, local, ghost>>

\* The operator hands back; the run observes what is on the page now.
HandBack ==
    /\ pc = "operator"
    /\ observation' \in Observation
    /\ handed' = Len(dispatched)
    /\ Goto("recheck")
    /\ UNCHANGED <<run, result, outputs, dispatched, risky, verified, acts>>

Resume_OnTrust ==                                    \* mutant: operator believed
    /\ pc = "recheck"
    /\ index' = FailedStep + 1
    /\ resumed' = TRUE /\ patched' = FALSE
    /\ outputs' = {} /\ result' = "none"
    /\ Goto("begin")
    /\ UNCHANGED <<capability, options, observation, handed, dispatched, risky,
                   verified, acts>>

Resume_KeepsOutputs ==                               \* mutant: the values read before
    /\ pc = "recheck"
    /\ capability[FailedStep].checked /\ observation.done
    /\ verified' = verified \cup {FailedStep}
    /\ index' = FailedStep + 1
    /\ resumed' = TRUE /\ patched' = FALSE
    /\ result' = "none"
    /\ Goto("begin")
    /\ UNCHANGED <<capability, options, local, handed, dispatched, risky, acts>>

\* handoff_checkpoint_satisfied: execute() again, past the failed step.
Resume ==
    /\ pc = "recheck"
    /\ capability[FailedStep].checked /\ observation.done
    /\ verified' = verified \cup {FailedStep}
    /\ index' = FailedStep + 1
    /\ resumed' = TRUE /\ patched' = FALSE
    /\ outputs' = {} /\ result' = "none"
    /\ Goto("begin")
    /\ UNCHANGED <<capability, options, observation, handed, dispatched, risky, acts>>

End_OfExecution ==                                   \* mutant: nothing after a recheck
    /\ pc = "returned" /\ ~(result \in HardKinds /\ options.escalate /\ ~resumed)
    /\ Goto("ended")
    /\ UNCHANGED <<run, result, local, ghost>>

\* RunEnded is journaled with the result at hand.
End ==
    /\ \/ pc = "returned" /\ ~(result \in HardKinds /\ options.escalate /\ ~resumed)
       \/ pc = "recheck" /\ ~(capability[FailedStep].checked /\ observation.done)
    /\ Goto("ended")
    /\ UNCHANGED <<run, result, local, ghost>>

\* An await the code does not guard raises: no RunEnded is written.
Raise ==
    /\ pc \notin {"ended", "raised"}
    /\ Goto("raised")
    /\ UNCHANGED <<run, result, local, ghost>>

-----------------------------------------------------------------------------
Execute ==
    \/ Begin \/ Decide \/ Resolve \/ Act \/ Look
    \/ DismissNotice \/ TypeUsername \/ ClickSignIn \/ Recovered
    \/ Checkpoint \/ Succeed
    \/ Escalate \/ Resume \/ End

Next == Execute \/ HandBack \/ Raise

Spec == Init /\ [][Next]_vars

\* The event loop runs the coroutine; nobody makes the operator hand back.
FairSpec == Spec /\ WF_vars(Execute)

-----------------------------------------------------------------------------
(* Properties                                                              *)

\* The variables of the run keep their types.
TypeOK ==
    /\ capability \in Seq(CapabilityStep)
    /\ options \in Options
    /\ pc \in Places
    /\ index \in 1 .. Len(capability) + 1
    /\ resumed \in BOOLEAN /\ patched \in BOOLEAN
    /\ observation \in Observation
    /\ result \in Results
    /\ outputs \in SUBSET (1 .. Len(capability))
    /\ handed \in Nat
    /\ dispatched \in Seq(1 .. Len(capability))
    /\ risky \in SUBSET (1 .. Len(capability))
    /\ verified \in SUBSET (1 .. Len(capability))
    /\ acts \in Nat

\* No recorded action is dispatched twice, nor out of order: not after a
\* recovery, a timeout whose effect is unknown, or a handoff.
DispatchedOnce ==
    \A i, j \in 1 .. Len(dispatched) : i < j => dispatched[i] < dispatched[j]

\* A run succeeds only if each step's checkpoint held after the step was
\* performed or handed back, or the step has none and was performed.
SuccessIsVerified ==
    result = "success" =>
        \A s \in 1 .. Len(capability) :
            IF capability[s].checked THEN s \in verified
            ELSE \E i \in 1 .. Len(dispatched) : dispatched[i] = s

\* Every value a success returns was read by an action of its own execution:
\* none is older than what the operator did.
OutputsAreFresh ==
    result = "success" =>
        \A s \in outputs : \E i \in handed + 1 .. Len(dispatched) : dispatched[i] = s

\* Nothing is dispatched without valid inputs and an approval or a consent to
\* run a draft, before or after a handoff.
DispatchIsConsented ==
    acts > 0 => options.valid /\ (options.approved \/ options.allow_draft)

\* What an irreversible rule covers reaches the surface only in an approved
\* capability, as a step recorded irreversible, when the caller allows it.
IrreversibleIsAuthorised ==
    risky # {} => /\ options.approved /\ options.allow_irreversible
                  /\ \A s \in risky : capability[s].risk = "irreversible"

\* Nothing reaches the surface that the caller has not consented to, and
\* nothing irreversible that the approver has not foreseen.
DispatchIsAuthorised == DispatchIsConsented /\ IrreversibleIsAuthorised

\* Success and business answers are final: no operator is called, no further
\* action dispatched.
AnswersAreFinal ==
    [][(result \in {"success", "business"}) =>
           /\ pc' \in {"ended", "raised"}
           /\ result' = result /\ acts' = acts]_vars

\* Every run comes to its end, raises, or waits for the operator.
RunStops == []<>(pc \in {"ended", "raised", "operator"})

Contract == INSTANCE StepwiseRun WITH
    steps <- Len(capability), accepted <- index - 1, takenUp <- resumed

ImplementsStepwiseRun == Contract!Spec
=============================================================================
