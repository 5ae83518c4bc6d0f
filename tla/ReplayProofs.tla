---------------------------- MODULE ReplayProofs ----------------------------
(***************************************************************************)
(* For any capabilities, callers and policy: a replay dispatches no action *)
(* twice, succeeds only verified, acts only with consent and authority,    *)
(* and implements StepwiseRun.                                             *)
(*                                                                         *)
(* The argument: `index` never goes back and an action is dispatched only  *)
(* when every dispatched step is behind it (Order); a step is left behind  *)
(* only when its checkpoint held or, having none, it was performed         *)
(* (Accepted); and what authorises an action is decided before the page    *)
(* can change what the run has observed of it (Authority).                 *)
(*                                                                         *)
(* And for any bank, members and faults: a replay of the recorded lookup   *)
(* is one of these runs (BankRunsAreRuns), and the balance it succeeds     *)
(* with is the requested member's, unless a person left it another one's   *)
(* page (RequestedBalance).  BankInv follows the requested member from the *)
(* form through the bank to the page: whoever any of them is about is that *)
(* member, or the one the operator left (Faithful), because act() settles  *)
(* before anything else looks at the page (Rested) and the bank serves one *)
(* document at a time (Serving).                                           *)
(*                                                                         *)
(* And for any member and one kind of fault: the replay ends as the demos  *)
(* say (DemosEnd).  DemoInv tells, of each step and place of the run, what *)
(* the page and the bank are like, with the fault met or still ahead: up   *)
(* to the sign-in (FirstStep), while the shell fills and a notice or an    *)
(* expired session is recovered from (SecondStep), from the search page on *)
(* (Later), and while the operator restores that page (Restoring).         *)
(***************************************************************************)
EXTENDS BankReplay, SequenceTheorems, TLAPS

N == Len(capability)

\* Places between a step's action and its acceptance.
Performed == {"look", "dismiss", "username", "signin", "recovered", "checkpoint"}

Was(s) == \E i \in 1 .. Len(dispatched) : dispatched[i] = s

\* Where the run is, what it has returned and which step is at hand.
Progress ==
    /\ pc \in Executing => result = "none"
    /\ pc \in Performed \cup {"resolve", "act"} => index <= N
    /\ pc \in {"operator", "recheck"} => result \in HardKinds /\ ~resumed
    /\ pc = "returned" => result # "none"
    /\ result = "success" => index = N + 1 /\ pc \in {"returned", "ended", "raised"}
    /\ result = "business" => index <= N /\ pc \in {"returned", "ended", "raised"}
    /\ ~resumed /\ result # "success" /\ pc # "decide" => index <= N \/ pc = "raised"
    /\ ~resumed /\ (pc = "begin" \/ result = "invalid_input") => index = 1

\* Every dispatched step is behind the one at hand, or is the one at hand.
Order ==
    /\ \A i, j \in 1 .. Len(dispatched) : i < j => dispatched[i] < dispatched[j]
    /\ \A i \in 1 .. Len(dispatched) : dispatched[i] <= index
    /\ pc \in {"begin", "decide", "resolve", "act"} =>
           \A i \in 1 .. Len(dispatched) : dispatched[i] < index
    /\ pc \in Performed => Was(index)

\* Every step behind was verified or, having no checkpoint, performed.
Accepted ==
    \A s \in 1 .. N : s < index => IF capability[s].checked THEN s \in verified
                                   ELSE Was(s)

\* What has been decided about the action at hand holds when it is dispatched.
Authority ==
    /\ pc \in Executing \ {"begin"} =>
           options.valid /\ (options.approved \/ options.allow_draft)
    /\ pc \in {"resolve", "act"} /\ observation.site = "irreversible" =>
           /\ options.approved /\ options.allow_irreversible
           /\ capability[index].risk = "irreversible"
    /\ DispatchIsConsented
    /\ IrreversibleIsAuthorised

IInv == TypeOK /\ Progress /\ Order /\ Accepted /\ Authority

-----------------------------------------------------------------------------
(* Types                                                                   *)

\* A capability has steps, each of them a step.
LEMMA CapabilityFacts ==
    ASSUME TypeOK
    PROVE  /\ N \in Nat
           /\ \A s \in 1 .. N : capability[s] \in CapabilityStep
    BY DEF TypeOK, N

\* The actions that move neither the step at hand nor what was performed.
Quiet == \/ Begin \/ Decide \/ Resolve \/ Look \/ DismissNotice \/ TypeUsername
         \/ ClickSignIn \/ Recovered \/ Succeed \/ Escalate \/ HandBack \/ End
         \/ Raise

\* Quiet actions leave the step at hand and what was performed as they are.
LEMMA QuietFrame ==
    ASSUME Quiet
    PROVE  UNCHANGED <<capability, options, index, resumed, patched, dispatched,
                       risky, verified>>
    BY DEF Quiet, Begin, Decide, Resolve, Look, DismissNotice, TypeUsername,
       ClickSignIn, Recovered, Succeed, Escalate, HandBack, End, Raise, run,
       local, ghost

\* Quiet actions keep the types.
LEMMA QuietTypes ==
    ASSUME TypeOK, Progress, Quiet
    PROVE  TypeOK'
<1>1. UNCHANGED <<capability, options, index, resumed, patched, dispatched,
                  risky, verified>>
  BY QuietFrame
<1>2. pc' \in Places /\ result' \in Results
  BY DEF TypeOK, Quiet, Begin, Decide, Resolve, Look, DismissNotice,
     TypeUsername, ClickSignIn, Recovered, Succeed, Escalate, HandBack, End,
     Raise, Goto, Return, Places, Executing, Results, HardKinds
<1>3. observation' \in Observation
  BY DEF TypeOK, Quiet, Begin, Decide, Resolve, Look, DismissNotice,
     TypeUsername, ClickSignIn, Recovered, Succeed, Escalate, HandBack, End,
     Raise, local, ghost
<1>4. acts' \in Nat /\ handed' \in Nat
  <2>1. acts' \in {acts, acts + 1} /\ handed' \in {handed, Len(dispatched)}
    BY DEF Quiet, Begin, Decide, Resolve, Look, DismissNotice, TypeUsername,
       ClickSignIn, Recovered, Succeed, Escalate, HandBack, End, Raise, local, ghost
  <2>2. Len(dispatched) \in Nat
    BY DEF TypeOK
  <2>. QED
    BY <2>1, <2>2 DEF TypeOK
<1>5. outputs' \in SUBSET (1 .. Len(capability))
  <2>1. CASE Look
    <3>1. index \in 1 .. Len(capability)
      BY <2>1, CapabilityFacts DEF Look, TypeOK, Progress, Performed, N
    <3>. QED
      BY <2>1, <3>1 DEF Look, TypeOK
  <2>2. CASE ~Look
    BY <2>2 DEF TypeOK, Quiet, Begin, Decide, Resolve, DismissNotice,
       TypeUsername, ClickSignIn, Recovered, Succeed, Escalate, HandBack, End,
       Raise, local, ghost
  <2>. QED
    BY <2>1, <2>2
<1>. QED
  BY <1>1, <1>2, <1>3, <1>4, <1>5 DEF TypeOK

\* So does dispatching an action,
LEMMA ActTypes ==
    ASSUME TypeOK, Progress, Act
    PROVE  TypeOK'
<1>1. index \in 1 .. Len(capability)
  BY CapabilityFacts DEF Act, TypeOK, Progress, N
<1>2. dispatched' \in Seq(1 .. Len(capability))
  BY <1>1 DEF Act, TypeOK
<1>3. risky' \in SUBSET (1 .. Len(capability))
  <2>1. risky' = risky \/ risky' = risky \cup {index}
    BY DEF Act
  <2>. QED
    BY <1>1, <2>1 DEF TypeOK
<1>4. pc' \in Places /\ result' \in Results
  BY DEF Act, TypeOK, Goto, Return, Places, Executing, Results, HardKinds
<1>5. acts' \in Nat
  BY DEF Act, TypeOK
<1>6. UNCHANGED <<capability, options, index, resumed, patched, outputs,
                  observation, handed, verified>>
  BY DEF Act, run, local
<1>. QED
  BY <1>2, <1>3, <1>4, <1>5, <1>6 DEF TypeOK

\* accepting a step, and resuming past the failed one.
LEMMA MoveTypes ==
    ASSUME TypeOK, Progress, Checkpoint \/ Resume
    PROVE  TypeOK'
<1>0. Len(capability) \in Nat
  BY CapabilityFacts DEF N
<1>1. CASE Checkpoint
  <2>1. index \in 1 .. Len(capability)
    BY <1>1, <1>0 DEF Checkpoint, TypeOK, Progress, Performed, N
  <2>2. pc' \in Places /\ result' \in Results
    BY <1>1 DEF Checkpoint, TypeOK, Goto, Return, Places, Executing, Results,
       HardKinds
  <2>3. /\ index' \in 1 .. Len(capability) + 1
        /\ verified' \in SUBSET (1 .. Len(capability))
    <3>1. CASE Step.checked /\ ~observation.done
      BY <1>1, <3>1 DEF Checkpoint, TypeOK
    <3>2. CASE ~(Step.checked /\ ~observation.done)
      <4>1. /\ verified' = verified \/ verified' = verified \cup {index}
            /\ index' = index + 1
        BY <1>1, <3>2 DEF Checkpoint
      <4>2. verified \in SUBSET (1 .. Len(capability))
        BY DEF TypeOK
      <4>3. index' \in 1 .. Len(capability) + 1
        BY <1>0, <2>1, <4>1
      <4>4. verified' \in SUBSET (1 .. Len(capability))
        BY <2>1, <4>1, <4>2
      <4>. QED
        BY <4>3, <4>4
    <3>. QED
      BY <3>1, <3>2
  <2>. QED
    BY <1>1, <2>2, <2>3 DEF Checkpoint, TypeOK, local
<1>2. CASE Resume
  <2>1. FailedStep = index /\ index \in 1 .. Len(capability)
    BY <1>0, <1>2 DEF Resume, TypeOK, Progress, FailedStep, N, HardKinds
  <2>2. pc' \in Places /\ result' \in Results
    BY <1>2 DEF Resume, Goto, Places, Executing, Results
  <2>3. /\ index' \in 1 .. Len(capability) + 1
        /\ verified' \in SUBSET (1 .. Len(capability))
        /\ outputs' \in SUBSET (1 .. Len(capability))
    BY <1>0, <1>2, <2>1 DEF Resume, TypeOK
  <2>. QED
    BY <1>2, <2>2, <2>3 DEF Resume, TypeOK
<1>. QED
  BY <1>1, <1>2

-----------------------------------------------------------------------------
(* The inductive invariant                                                 *)

\* Every step keeps track of where the run is.
LEMMA ProgressStep ==
    ASSUME IInv, Next
    PROVE  Progress'
<1>0. N \in Nat /\ N' = N /\ index \in Int
  <2>1. capability' = capability
    BY QuietFrame DEF Next, Execute, Quiet, Act, Checkpoint, Resume, run
  <2>. QED
    BY <2>1, CapabilityFacts DEF IInv, TypeOK, N
<1>1. CASE Quiet
  <2>1. index' = index /\ resumed' = resumed
    BY <1>1, QuietFrame
  <2>2. CASE Begin \/ Decide \/ Resolve \/ Look
    BY <1>0, <2>1, <2>2 DEF IInv, Progress, Performed, Executing, HardKinds,
       Begin, Decide, Resolve, Look, Goto, Return, N
  <2>3. CASE DismissNotice \/ TypeUsername \/ ClickSignIn \/ Recovered \/ Succeed
    BY <1>0, <2>1, <2>3 DEF IInv, TypeOK, Progress, Performed, Executing, HardKinds,
       DismissNotice, TypeUsername, ClickSignIn, Recovered, Succeed, Goto, Return, N
  <2>4. CASE Escalate \/ HandBack \/ End \/ Raise
    BY <1>0, <2>1, <2>4 DEF IInv, Progress, Performed, Executing, HardKinds,
       Escalate, HandBack, End, Raise, Goto, N
  <2>. QED
    BY <1>1, <2>2, <2>3, <2>4 DEF Quiet
<1>2. CASE Act
  BY <1>0, <1>2 DEF IInv, Progress, Performed, Executing, HardKinds, Act, Goto,
     Return, run
<1>3. CASE Checkpoint
  BY <1>0, <1>3 DEF IInv, Progress, Performed, Executing, HardKinds, Checkpoint,
     Goto, Return
<1>4. CASE Resume
  BY <1>0, <1>4 DEF IInv, Progress, Performed, Executing, HardKinds, Resume, Goto
<1>. QED
  BY <1>1, <1>2, <1>3, <1>4 DEF Next, Execute, Quiet

\* Nothing is dispatched twice, and what is left behind stays behind.
LEMMA OrderStep ==
    ASSUME IInv, Next
    PROVE  Order' /\ Accepted'
<1>0. /\ N \in Nat /\ index \in Int
      /\ dispatched \in Seq(1 .. N)
  BY CapabilityFacts DEF IInv, TypeOK, N
<1>1. CASE Quiet
  <2>1. UNCHANGED <<capability, index, dispatched, verified>>
    BY <1>1, QuietFrame
  <2>2. pc' \in {"begin", "decide", "resolve", "act"} =>
            pc \in {"begin", "decide", "resolve", "act"}
    BY <1>1 DEF Quiet, Begin, Decide, Resolve, Look, DismissNotice,
       TypeUsername, ClickSignIn, Recovered, Succeed, Escalate, HandBack, End,
       Raise, Goto, Return
  <2>3. pc' \in Performed => pc \in Performed
    BY <1>1 DEF Quiet, Begin, Decide, Resolve, Look, DismissNotice,
       TypeUsername, ClickSignIn, Recovered, Succeed, Escalate, HandBack, End,
       Raise, Goto, Return, Performed
  <2>. QED
    BY <2>1, <2>2, <2>3 DEF IInv, Order, Accepted, Was, N
<1>2. CASE Act
  <2>. DEFINE k == Len(dispatched)
  <2>1. /\ k \in Nat
        /\ Len(dispatched') = k + 1
        /\ dispatched'[k + 1] = index
        /\ \A i \in 1 .. k : dispatched'[i] = dispatched[i]
        /\ \A i \in 1 .. k : dispatched[i] \in 1 .. N
    BY <1>0, <1>2 DEF Act, IInv, TypeOK, N
  <2>2. \A i \in 1 .. k : dispatched[i] < index
    BY <1>2 DEF Act, IInv, Order
  <2>3. UNCHANGED <<capability, index, verified>>
    BY <1>2 DEF Act, run
  <2>4. pc' \notin {"begin", "decide", "resolve", "act"}
    BY <1>2 DEF Act, Goto, Return
  <2>5. Order'
    <3>1. ASSUME NEW i \in 1 .. k + 1, NEW j \in 1 .. k + 1, i < j
          PROVE  dispatched'[i] < dispatched'[j]
      <4>1. CASE j = k + 1
        BY <2>1, <2>2, <3>1, <4>1
      <4>2. CASE j # k + 1
        BY <2>1, <3>1, <4>2 DEF IInv, Order
      <4>. QED
        BY <4>1, <4>2
    <3>2. \A i \in 1 .. k + 1 : dispatched'[i] <= index
      BY <1>0, <2>1, <2>2
    <3>3. Was(index)'
      BY <2>1, <2>3 DEF Was
    <3>. QED
      BY <2>1, <2>3, <2>4, <3>1, <3>2, <3>3 DEF Order
  <2>6. \A s : Was(s) => Was(s)'
    BY <2>1 DEF Was
  <2>. QED
    BY <2>3, <2>5, <2>6 DEF IInv, Accepted, N
<1>3. CASE Checkpoint
  <2>1. UNCHANGED <<capability, dispatched>>
    BY <1>3 DEF Checkpoint
  <2>2. Was(index) /\ \A i \in 1 .. Len(dispatched) : dispatched[i] <= index
    BY <1>3 DEF Checkpoint, IInv, Order, Performed
  <2>3. CASE Step.checked /\ ~observation.done
    BY <1>3, <2>1, <2>3 DEF Checkpoint, Return, Goto, IInv, Order, Accepted,
       Performed, Was, N
  <2>4. CASE ~(Step.checked /\ ~observation.done)
    <3>1. /\ index' = index + 1 /\ pc' = "decide"
          /\ verified \subseteq verified'
          /\ Step.checked => index \in verified'
      BY <1>3, <2>4 DEF Checkpoint, Goto
    <3>2. Order'
      BY <1>0, <2>1, <2>2, <3>1 DEF IInv, Order, Performed, TypeOK
    <3>3. Accepted'
      BY <1>0, <2>1, <2>2, <3>1 DEF IInv, Accepted, Was, N, Step
    <3>. QED
      BY <3>2, <3>3
  <2>. QED
    BY <2>3, <2>4
<1>4. CASE Resume
  <2>1. FailedStep = index
    BY <1>4 DEF Resume, IInv, Progress, FailedStep
  <2>2. /\ UNCHANGED <<capability, dispatched>>
        /\ index' = index + 1 /\ pc' = "begin"
        /\ verified' = verified \cup {index}
        /\ capability[index].checked
    BY <1>4, <2>1 DEF Resume, Goto
  <2>3. Order'
    <3>1. \A i \in 1 .. Len(dispatched) : dispatched[i] \in Int /\ dispatched[i] <= index
      BY <1>0 DEF IInv, Order
    <3>2. \A i \in 1 .. Len(dispatched) : dispatched[i] < index + 1 /\ dispatched[i] <= index + 1
      BY <1>0, <3>1
    <3>3. pc' \notin Performed
      BY <2>2 DEF Performed
    <3>. QED
      BY <2>2, <3>2, <3>3 DEF IInv, Order
  <2>4. Accepted'
    BY <1>0, <2>2 DEF IInv, Accepted, Was, N
  <2>. QED
    BY <2>3, <2>4
<1>. QED
  BY <1>1, <1>2, <1>3, <1>4 DEF Next, Execute, Quiet

\* What the policy allows on a page an irreversible rule covers.
LEMMA VerdictAuthorises ==
    ASSUME observation.site = "irreversible", Verdict(Policy, Request) = "allow"
    PROVE  /\ options.approved /\ options.allow_irreversible
           /\ Step.risk = "irreversible"
    BY DEF Verdict, Irreversible, Request

\* Consent and authority hold when they are needed.
LEMMA AuthorityStep ==
    ASSUME IInv, Next
    PROVE  Authority'
<1>0. acts \in Nat
  BY DEF IInv, TypeOK
<1>1. CASE Begin
  <2>1. UNCHANGED <<capability, options, acts, risky, index>>
    BY <1>1 DEF Begin, run, ghost
  <2>. QED
    BY <1>1, <2>1 DEF Begin, Return, Goto, IInv, Authority, Executing,
       DispatchIsConsented, IrreversibleIsAuthorised
<1>2. CASE Decide
  <2>1. UNCHANGED <<capability, options, acts, risky, index, observation>>
    BY <1>2 DEF Decide, run, local, ghost
  <2>2. pc' \in {"resolve", "act"} => Verdict(Policy, Request) = "allow"
    BY <1>2 DEF Decide, Return, Goto
  <2>. QED
    BY <1>2, <2>1, <2>2, VerdictAuthorises
    DEF Decide, IInv, Authority, Executing, Step,
        DispatchIsConsented, IrreversibleIsAuthorised
<1>3. CASE Resolve \/ Succeed \/ Escalate \/ End \/ Raise
  <2>1. UNCHANGED <<capability, options, acts, risky, index, observation>>
    BY <1>3 DEF Resolve, Succeed, Escalate, End, Raise, run, local, ghost
  <2>. QED
    BY <1>3, <2>1 DEF Resolve, Succeed, Escalate, End, Raise, Return, Goto,
       IInv, Authority, Executing, DispatchIsConsented, IrreversibleIsAuthorised
<1>4. CASE Look \/ Recovered \/ HandBack
  <2>1. UNCHANGED <<capability, options, acts, risky, index>>
    BY <1>4 DEF Look, Recovered, HandBack, run, ghost
  <2>. QED
    BY <1>4, <2>1 DEF Look, Recovered, HandBack, Return, Goto, IInv, Authority,
       Executing, DispatchIsConsented, IrreversibleIsAuthorised
<1>5. CASE DismissNotice \/ TypeUsername \/ ClickSignIn
  <2>1. UNCHANGED <<capability, options, risky, index>>
    BY <1>5 DEF DismissNotice, TypeUsername, ClickSignIn, run
  <2>. QED
    BY <1>5, <2>1 DEF DismissNotice, TypeUsername, ClickSignIn, Return, Goto,
       IInv, Authority, Executing, DispatchIsConsented, IrreversibleIsAuthorised
<1>6. CASE Act
  <2>1. UNCHANGED <<capability, options, index, observation>>
    BY <1>6 DEF Act, run, local
  <2>. QED
    BY <1>6, <2>1 DEF Act, Return, Goto, IInv, Authority, Executing,
       DispatchIsConsented, IrreversibleIsAuthorised
<1>7. CASE Checkpoint
  <2>1. UNCHANGED <<capability, options, acts, risky>>
    BY <1>7 DEF Checkpoint
  <2>. QED
    BY <1>7, <2>1 DEF Checkpoint, Return, Goto, IInv, Authority, Executing,
       DispatchIsConsented, IrreversibleIsAuthorised
<1>8. CASE Resume
  BY <1>8 DEF Resume, Goto, IInv, Authority, Executing, DispatchIsConsented,
     IrreversibleIsAuthorised
<1>. QED
  BY <1>1, <1>2, <1>3, <1>4, <1>5, <1>6, <1>7, <1>8 DEF Next, Execute

\* Every action of the replay preserves the invariant.
LEMMA InductiveStep == IInv /\ [Next]_vars => IInv'
<1>. SUFFICES ASSUME IInv, [Next]_vars PROVE IInv'
  OBVIOUS
<1>1. CASE UNCHANGED vars
  BY <1>1 DEF vars, local, ghost, IInv, TypeOK, Progress, Order, Accepted, Was,
     Authority, N, DispatchIsConsented, IrreversibleIsAuthorised
<1>2. CASE Next
  <2>1. TypeOK'
    BY <1>2, QuietTypes, ActTypes, MoveTypes DEF IInv, Next, Execute, Quiet
  <2>. QED
    BY <1>2, <2>1, ProgressStep, OrderStep, AuthorityStep DEF IInv
<1>. QED
  BY <1>1, <1>2

\* A call of execute() starts in it.
LEMMA InductiveInit == Init => IInv
<1>. SUFFICES ASSUME Init PROVE IInv
  OBVIOUS
<1>1. /\ capability \in Seq(CapabilityStep) /\ Len(capability) \in Nat
      /\ Len(capability) >= 1
  BY ReplayAssumption DEF Init
<1>2. dispatched = <<>> /\ Len(dispatched) = 0
  BY DEF Init
<1>3. TypeOK
  <2>1. dispatched \in Seq(1 .. Len(capability))
    BY <1>2
  <2>2. Unseen \in Observation
    BY DEF Unseen, Observation, Sites
  <2>3. options \in Options
    BY ReplayAssumption DEF Init
  <2>4. patched \in BOOLEAN
    BY <2>3 DEF Init, Options
  <2>5. pc \in Places /\ result \in Results /\ observation \in Observation
    BY <2>2 DEF Init, Places, Executing, Results
  <2>6. index \in 1 .. Len(capability) + 1
    BY <1>1 DEF Init
  <2>. QED
    BY <1>1, <2>1, <2>3, <2>4, <2>5, <2>6 DEF Init, TypeOK
<1>4. Progress /\ Order /\ Accepted /\ Authority
  BY <1>1, <1>2 DEF Init, Progress, Order, Accepted, Authority, Performed,
     Executing, HardKinds, N, DispatchIsConsented, IrreversibleIsAuthorised
<1>. QED
  BY <1>3, <1>4 DEF IInv

\* A replay never leaves the invariant.
THEOREM Invariant == Spec => []IInv
  BY InductiveInit, InductiveStep, PTL DEF Spec

-----------------------------------------------------------------------------
(* What follows from it                                                    *)

\* The variables of a run keep their types.
THEOREM TypeCorrect == Spec => []TypeOK
  BY Invariant, PTL DEF IInv

\* No recorded action is ever dispatched twice, nor out of order.
THEOREM NeverTwice == Spec => []DispatchedOnce
<1>1. IInv => DispatchedOnce
  BY DEF IInv, Order, DispatchedOnce
<1>. QED
  BY <1>1, Invariant, PTL

\* A run succeeds only when every step was verified or, without a checkpoint,
\* performed.
THEOREM VerifiedSuccess == Spec => []SuccessIsVerified
<1>1. IInv => SuccessIsVerified
  <2>. SUFFICES ASSUME IInv, result = "success", NEW s \in 1 .. N
                PROVE  IF capability[s].checked THEN s \in verified
                       ELSE \E i \in 1 .. Len(dispatched) : dispatched[i] = s
    BY DEF SuccessIsVerified, N
  <2>1. s < index
    BY CapabilityFacts DEF IInv, Progress
  <2>. QED
    BY <2>1 DEF IInv, Accepted, Was
<1>. QED
  BY <1>1, Invariant, PTL

\* Nothing is dispatched without valid inputs and consent; what an
\* irreversible rule covers only for an approved capability, as a step recorded
\* irreversible, when the caller allows it, before or after a handoff.
THEOREM AuthorisedDispatch == Spec => []DispatchIsAuthorised
<1>1. IInv => DispatchIsAuthorised
  BY DEF IInv, Authority, DispatchIsAuthorised
<1>. QED
  BY <1>1, Invariant, PTL

\* The action of s was performed after the last handback.
Since(s) == \E i \in handed + 1 .. Len(dispatched) : dispatched[i] = s

\* So was every one whose value this execution holds, and the one at hand.
Fresh == /\ handed <= Len(dispatched)
         /\ pc \in Performed => Since(index)
         /\ pc \in Executing \/ result = "success" => \A s \in outputs : Since(s)

\* Every step of an execution keeps its outputs fresh; a handback forgets them.
LEMMA FreshStep == IInv /\ Fresh /\ [Next]_vars => Fresh'
<1>. SUFFICES ASSUME IInv, Fresh, [Next]_vars PROVE Fresh'
  OBVIOUS
<1>0. /\ Len(dispatched) \in Nat /\ handed \in Nat
      /\ dispatched \in Seq(1 .. N)
  BY DEF IInv, TypeOK, N
<1>1. CASE Act
  <2>. DEFINE k == Len(dispatched)
  <2>1. /\ Len(dispatched') = k + 1 /\ dispatched'[k + 1] = index
        /\ \A i \in 1 .. k : dispatched'[i] = dispatched[i]
        /\ UNCHANGED <<handed, index, outputs>>
    <3>1. index \in 1 .. N
      BY <1>1, CapabilityFacts DEF Act, IInv, TypeOK, Progress, N
    <3>. QED
      BY <1>0, <1>1, <3>1 DEF Act, run, local
  <2>2. \A s : Since(s) => Since(s)'
    BY <1>0, <2>1 DEF Since
  <2>3. Since(index)'
    BY <1>0, <2>1 DEF Fresh, Since
  <2>4. pc \in Executing
    BY <1>1 DEF Act, Executing
  <2>. QED
    BY <1>0, <2>1, <2>2, <2>3, <2>4 DEF Fresh
<1>2. CASE HandBack
  <2>1. handed' = Len(dispatched) /\ dispatched' = dispatched /\ pc' = "recheck"
    BY <1>2 DEF HandBack, Goto
  <2>2. result' # "success"
    BY <1>2 DEF HandBack, IInv, Progress, HardKinds
  <2>. QED
    BY <1>0, <2>1, <2>2 DEF Fresh, Performed, Executing
<1>3. CASE Resume
  <2>1. outputs' = {} /\ UNCHANGED <<handed, dispatched>> /\ pc' = "begin"
    BY <1>3 DEF Resume, Goto
  <2>. QED
    BY <2>1 DEF Fresh, Performed
<1>4. CASE Look
  <2>1. UNCHANGED <<handed, dispatched, index>>
    BY <1>4 DEF Look, run, ghost
  <2>2. outputs' \subseteq outputs \cup {index}
    BY <1>4 DEF Look
  <2>3. Since(index) /\ pc \in Executing
    BY <1>4 DEF Look, Fresh, Performed, Executing
  <2>. QED
    BY <2>1, <2>2, <2>3 DEF Fresh, Since
<1>5. CASE Checkpoint
  <2>1. UNCHANGED <<handed, dispatched, outputs>> /\ pc \in Executing
    BY <1>5 DEF Checkpoint, local, Executing
  <2>2. pc' \notin Performed
    BY <1>5 DEF Checkpoint, Return, Goto, Performed
  <2>. QED
    BY <2>1, <2>2 DEF Fresh, Since
<1>6. CASE Quiet /\ ~HandBack /\ ~Look
  <2>1. UNCHANGED <<handed, dispatched, outputs, index>>
    BY <1>6 DEF Quiet, Begin, Decide, Resolve, DismissNotice, TypeUsername,
       ClickSignIn, Recovered, Succeed, Escalate, End, Raise, run, local, ghost
  <2>2. pc' \in Performed => pc \in Performed
    BY <1>6 DEF Quiet, Begin, Decide, Resolve, DismissNotice, TypeUsername,
       ClickSignIn, Recovered, Succeed, Escalate, End, Raise, Goto, Return, Performed
  <2>3. pc' \in Executing \/ result' = "success" => pc \in Executing \/ result = "success"
    BY <1>6 DEF Quiet, Begin, Decide, Resolve, DismissNotice, TypeUsername,
       ClickSignIn, Recovered, Succeed, Escalate, End, Raise, Goto, Return, Executing
  <2>. QED
    BY <2>1, <2>2, <2>3 DEF Fresh, Since
<1>7. CASE UNCHANGED vars
  BY <1>7 DEF vars, local, ghost, Fresh, Since
<1>. QED
  BY <1>1, <1>2, <1>3, <1>4, <1>5, <1>6, <1>7 DEF Next, Execute, Quiet

\* No value a success returns is older than what the operator did.
THEOREM FreshOutputs == Spec => []OutputsAreFresh
<1>1. Init => Fresh
  <2>1. ASSUME Init PROVE Fresh
    <3>1. Len(dispatched) = 0 /\ handed = 0 /\ outputs = {} /\ pc = "begin"
      BY <2>1 DEF Init
    <3>. QED
      BY <3>1 DEF Fresh, Performed
  <2>. QED
    BY <2>1
<1>2. Fresh => OutputsAreFresh
  BY DEF Fresh, Since, OutputsAreFresh
<1>. QED
  BY <1>1, <1>2, FreshStep, Invariant, PTL DEF Spec

\* After a success or a business answer the run only ends.
THEOREM FinalAnswers == Spec => AnswersAreFinal
<1>1. IInv /\ [Next]_vars
      => [(result \in {"success", "business"}) =>
             /\ pc' \in {"ended", "raised"}
             /\ result' = result /\ acts' = acts]_vars
  <2>. SUFFICES ASSUME IInv, Next, result \in {"success", "business"}
                PROVE  /\ pc' \in {"ended", "raised"}
                       /\ result' = result /\ acts' = acts
    OBVIOUS
  <2>1. pc \in {"returned", "ended", "raised"} /\ result \notin HardKinds
    BY DEF IInv, Progress, HardKinds
  <2>2. End \/ Raise
    BY <2>1 DEF Next, Execute, Begin, Decide, Resolve, Act, Look, DismissNotice,
       TypeUsername, ClickSignIn, Recovered, Checkpoint, Succeed, Escalate,
       Resume, HandBack
  <2>. QED
    BY <2>2 DEF End, Raise, Goto, ghost
<1>. QED
  BY <1>1, Invariant, PTL DEF Spec, AnswersAreFinal

-----------------------------------------------------------------------------
(* A replay implements StepwiseRun                                         *)

\* Every step of the run is a step of the contract or leaves it alone.
LEMMA ContractStep ==
    ASSUME IInv, [Next]_vars
    PROVE  [Contract!Next]_(Contract!vars)
<1>. USE DEF Contract!vars
<1>0. Len(capability) \in Nat /\ index \in Int
  BY CapabilityFacts DEF IInv, TypeOK, N
<1>1. CASE UNCHANGED vars
  BY <1>1 DEF vars
<1>2. ASSUME Quiet, ~Succeed, pc' # "raised", pc # "returned"
      PROVE  [Contract!Next]_(Contract!vars)
  <2>1. UNCHANGED <<capability, index, resumed>>
    BY <1>2, QuietFrame
  <2>2. CASE result' = result
    BY <2>1, <2>2
  <2>3. CASE result' # result
    <3>1. /\ result = "none"
          /\ result' \in HardKinds \/ (Look /\ result' = "business")
      BY <1>2, <2>3 DEF Quiet, Begin, Decide, Resolve, Look, DismissNotice,
         TypeUsername, ClickSignIn, Recovered, Escalate, HandBack, End, Raise,
         Return, Goto, HardKinds, IInv, Progress, Executing
    <3>2. CASE result' \in HardKinds
      BY <2>1, <3>1, <3>2 DEF Contract!Next, Contract!Fail, HardKinds
    <3>3. CASE Look /\ result' = "business"
      <4>1. index <= Len(capability)
        BY <3>3 DEF Look, IInv, Progress, Performed, N
      <4>. QED
        BY <1>0, <2>1, <3>1, <3>3, <4>1 DEF Contract!Next, Contract!Answer
    <3>. QED
      BY <3>1, <3>2, <3>3
  <2>. QED
    BY <2>2, <2>3
<1>3. CASE Escalate \/ End \/ Raise
  BY <1>3 DEF Escalate, End, Raise, run
<1>4. CASE Succeed
  <2>1. UNCHANGED <<capability, index, resumed>>
    BY <1>4 DEF Succeed, run
  <2>2. index = Len(capability) + 1 /\ result = "none" /\ result' = "success"
    BY <1>0, <1>4 DEF Succeed, Return, IInv, TypeOK, Progress, Executing
  <2>. QED
    BY <1>0, <2>1, <2>2 DEF Contract!Next, Contract!Succeed
<1>5. CASE Act
  <2>1. UNCHANGED <<capability, index, resumed>>
    BY <1>5 DEF Act, run
  <2>2. result = "none" /\ result' \in {"none", "timeout", "unknown"}
    BY <1>5 DEF Act, Return, IInv, Progress, Executing
  <2>. QED
    BY <2>1, <2>2 DEF Contract!Next, Contract!Fail
<1>6. CASE Checkpoint
  <2>1. /\ UNCHANGED <<capability, resumed>>
        /\ result = "none" /\ index <= Len(capability)
    BY <1>6 DEF Checkpoint, IInv, Progress, Executing, Performed, N
  <2>2. CASE Step.checked /\ ~observation.done
    <3>1. index' = index /\ result' = "checkpoint"
      BY <1>6, <2>2 DEF Checkpoint, Return
    <3>. QED
      BY <2>1, <3>1 DEF Contract!Next, Contract!Fail
  <2>3. CASE ~(Step.checked /\ ~observation.done)
    <3>1. index' = index + 1 /\ result' = result
      BY <1>6, <2>3 DEF Checkpoint
    <3>. QED
      BY <1>0, <2>1, <3>1 DEF Contract!Next, Contract!Accept
  <2>. QED
    BY <2>2, <2>3
<1>7. CASE Resume
  <2>1. /\ result \in HardKinds /\ ~resumed /\ index <= Len(capability)
        /\ FailedStep = index
    BY <1>7 DEF Resume, IInv, Progress, FailedStep, HardKinds, N
  <2>2. /\ capability' = capability /\ resumed' = TRUE /\ result' = "none"
        /\ index' = FailedStep + 1
    BY <1>7 DEF Resume
  <2>3. result \notin {"none", "success", "business"}
    BY <2>1 DEF HardKinds
  <2>4. (index - 1)' = (index - 1) + 1 /\ (index - 1)' <= Len(capability)
    BY <1>0, <2>1, <2>2
  <2>5. Contract!TakeUp
    BY <2>1, <2>2, <2>3, <2>4 DEF Contract!TakeUp
  <2>. QED
    BY <2>5 DEF Contract!Next
<1>. QED
  BY <1>1, <1>2, <1>3, <1>4, <1>5, <1>6, <1>7 DEF Next, Execute, Quiet, Escalate,
     End, Raise, Goto, Succeed, Begin, Decide, Resolve, Look, DismissNotice,
     TypeUsername, ClickSignIn, Recovered, HandBack, Return

\* A replay accepts its steps one by one, answers once, and is taken up at
\* most once after a failure.
THEOREM ReplayImplementsStepwiseRun == Spec => ImplementsStepwiseRun
<1>1. Init => Contract!Init
  <2>. SUFFICES ASSUME Init PROVE Contract!Init
    OBVIOUS
  <2>1. Len(capability) \in Nat /\ Len(capability) >= 1
    BY ReplayAssumption DEF Init
  <2>2. Len(capability) \in Nat \ {0} /\ index - 1 = 0
    BY <2>1 DEF Init
  <2>. QED
    BY <2>2 DEF Init, Contract!Init
<1>. QED
  BY <1>1, ContractStep, Invariant, PTL
  DEF Spec, ImplementsStepwiseRun, Contract!Spec
-----------------------------------------------------------------------------
(* The balance lookup at the bank: what is on its way, shown and meant     *)

Shell == {"login", "frame"}
AsksOf == {d.ask : d \in Documents}
Answers == served[Tab].stage = "answered"
ToTab(x) == [c \in {Tab} |-> x]

\* An answer shows a member exactly when it is about one who may be seen.
Personal == {"results", "detail", "open"}
Telling(answer) ==
    /\ answer \in Site!Answered
    /\ IF answer.screen \in Personal THEN answer.member \in Members \ Restricted
                                  ELSE answer.member = None

\* What a notice keeps of a request.
Kept(ask) == [action |-> ask.action, method |-> ask.method, form |-> ask.form]

\* What the bank serves is the document being fetched, and nothing else.
Serving ==
    /\ loads \subseteq Documents
    /\ loading # None =>
           \E d \in Documents : loading = d \/ loading = [d EXCEPT !.frame = "none"]
    /\ loading = None => served = ToTab(Site!Idle)
    /\ loading # None =>
           \/ served = ToTab([stage |-> "routed", request |-> loading.ask])
           \/ /\ served = ToTab([stage |-> "reading", request |-> loading.ask])
              /\ loading.ask.action \notin Shell
              /\ authenticated /\ tenant = "alpha"
           \/ /\ served = ToTab([stage |-> "answered", answer |-> served[Tab].answer])
              /\ Telling(served[Tab].answer)
              /\ loading.ask.action \in Shell => served[Tab].answer.member = None
    /\ pending # None =>
           /\ authenticated /\ tenant = "alpha"
           /\ \E d \in Documents :
                  /\ d.ask.action \notin Shell
                  /\ pending = Kept(d.ask)

\* Where the agent acts, or is about to, act() has settled, unless a person has
\* handed back while something was loading and nothing was inspected since.
Inspected == {"dismiss", "username", "signin", "checkpoint"}
AtRest == {"begin", "decide", "resolve", "act", "recheck"} \cup Inspected
Taken == operator = "human" /\ left # None
Rested == pc \in AtRest /\ (Taken => left.settled \/ pc \in Inspected) => Settled

\* The workspace is about a member it may show, the form has what was typed.
Displayed ==
    /\ page \in [Frames -> Site!Screens \cup {"blank"}]
    /\ IF page["workspace"] \in Personal THEN shown \in Members \ Restricted ELSE shown = None
    /\ typed # None => page["workspace"] = "search"
    /\ typed \in Persons

Fetching == loads \cup (IF loading = None THEN {} ELSE {loading})
Sent(frames) == \E d \in Fetching : d.frame \in frames

Covering == {"top", "content", "workspace"}

\* A request whose answer is lost was followed by another.  What a notice has
\* kept of one is behind the notice, or behind what is about to be shown in
\* its place: the bank answers with the notice again.
Noticed ==
    /\ loading # None /\ loading.frame = "none" => \E d \in loads : d.frame \in Covering
    /\ pending # None =>
           /\ page["workspace"] = "notice" \/ Sent(Covering)
           /\ Answers /\ loading.frame \in Covering =>
                  /\ loading.frame # "top"
                  /\ served[Tab].answer.screen =
                         IF loading.frame = "content" THEN "frame" ELSE "notice"

\* Who is asked about anywhere in the browser or at the bank.
About(who) ==
    /\ typed \in who /\ shown \in who
    /\ \A d \in Fetching : d.ask.form.member \in who
    /\ pending # None => pending.form.member \in who
    /\ Answers => served[Tab].answer.member \in who

\* The run has typed the member asked for since the operator left.
Typed == index > 3 \/ (index = 3 /\ pc \in Performed)

Trusted == {None, wanted}

\* How far the handoff to a person has got.
Handing ==
    /\ operator = "human" /\ left = None => ~resumed /\ pc # "recheck"
    /\ Taken =>
           /\ left.step \in Nat
           /\ pc = "recheck" => left.step = FailedStep
           /\ pc \notin {"recheck", "ended", "raised"} => resumed

\* Nobody but the member asked for, or those the browser was left about: of a
\* page that had settled the run goes through the search form once more.
Faithful ==
    /\ ~Taken => (operator = "human" /\ pc \in {"operator", "raised", "ended"})
                 \/ About(Trusted)
    /\ Taken => About(Trusted \cup left.others)
    /\ Taken /\ left.settled /\ left.step < 3 /\ resumed /\ Typed => About(Trusted)

\* Reading the balance is what the last step waits for.
ReadLast ==
    /\ value \in (Members \ Restricted) \cup {None}
    /\ value \in Trusted \/ (Taken /\ value \in left.others /\ (left.settled => left.step >= 3))
    /\ 6 \in outputs => value # None
    /\ pc = "checkpoint" /\ index = 6 /\ observation.done => value # None
    /\ pc = "recheck" /\ index = 6 => ~observation.done
    /\ index = 7 => value # None

BankInv ==
    /\ capability = LookUp /\ wanted \in Persons
    /\ Serving /\ Rested /\ Displayed /\ Noticed /\ Handing /\ Faithful /\ ReadLast

-----------------------------------------------------------------------------
(* Documents and answers                                                   *)

Lookups == {"search", "detail", "open", "dismiss"}

\* What a document asks for, and where it is to be shown.
IsDocument(d) ==
    /\ d.ask.action \in Shell \cup Lookups
    /\ d.frame \in Frames \cup {"none"}
    /\ d.frame = "workspace" => d.ask.action \notin Shell
    /\ d.frame \in {"top", "content", "navigation"} => d.ask.action \in Shell
    /\ d.frame = "top" <=> d.ask.action = "login" /\ d.frame # "none"
    /\ d.ask.action = "login" => d.ask.method = "POST"
    /\ d.ask.tenant = "alpha"
    /\ d.ask.form = [member |-> d.ask.form.member, source |-> 0, amount |-> 0, token |-> 0]
    /\ d.ask.form.member \in Persons
    /\ d # None

LEMMA DocumentFacts ==
    \A d \in Documents :
        /\ IsDocument(d) /\ d.frame # "none"
        /\ LET lost == [d EXCEPT !.frame = "none"]
           IN IsDocument(lost) /\ lost.frame = "none" /\ lost.ask = d.ask
<1> SUFFICES ASSUME NEW d \in Documents
             PROVE  /\ IsDocument(d) /\ d.frame # "none"
                    /\ LET lost == [d EXCEPT !.frame = "none"]
                       IN IsDocument(lost) /\ lost.frame = "none" /\ lost.ask = d.ask
  OBVIOUS
<1>1. /\ d = [frame |-> d.frame, ask |-> d.ask] /\ d.frame \in Frames
      /\ d.ask.action \in Shell \cup Lookups
      /\ d.frame = "workspace" => d.ask.action \notin Shell
      /\ d.frame \in {"top", "content", "navigation"} => d.ask.action \in Shell
      /\ d.frame = "top" <=> d.ask.action = "login"
      /\ d.ask.action = "login" => d.ask.method = "POST"
      /\ d.ask.tenant = "alpha"
      /\ d.ask.form = [member |-> d.ask.form.member, source |-> 0, amount |-> 0, token |-> 0]
      /\ d.ask.form.member \in Persons
  BY DEF Documents, SignInPage, Inner, SearchPage, Acknowledge, Find, Open, NewAccount, Ask,
         Persons, Shell, Lookups, Frames
<1> DEFINE lost == [d EXCEPT !.frame = "none"]
<1>2. lost = [frame |-> "none", ask |-> d.ask]
  BY <1>1
<1>3. d \in Fetched /\ lost \in Fetched
  BY <1>1, <1>2 DEF Fetched
<1>4. d # None /\ lost # None
  BY <1>3, BankAssumption
<1>5. lost.frame = "none" /\ lost.ask = d.ask
  BY <1>2
<1>6. d.frame # "none"
  BY <1>1 DEF Frames
<1> HIDE DEF lost
<1>7. IsDocument(d)
  BY <1>1, <1>4, <1>6 DEF IsDocument
<1>8. IsDocument(lost)
  BY <1>1, <1>4, <1>5, <1>6 DEF IsDocument
<1> QED
  BY <1>5, <1>6, <1>7, <1>8 DEF lost

LEMMA LoadingFacts ==
    ASSUME Serving, loading # None
    PROVE  IsDocument(loading)
BY DocumentFacts DEF Serving

\* What is told of nobody.
LEMMA NobodyTold ==
    ASSUME NEW screen \in Site!Screens \ Personal
    PROVE  Telling([screen |-> screen, member |-> None, token |-> 0])
BY DEF Telling, Personal, Site!Answered

\* The bank carries out a search, a look at a member, or nothing.
LEMMA Carried ==
    ASSUME NEW op, op.action \in Lookups,
           op.form.member \in Persons,
           served = ToTab(served[Tab]), Site!Carry(Tab, op)
    PROVE  \E answer : /\ served' = ToTab([stage |-> "answered", answer |-> answer])
                       /\ Telling(answer) /\ answer.member \in {None, op.form.member}
<1>1. Site!Browse(Tab, op)
  BY DEF Lookups, Site!Carry, Site!Workflow, Site!Review, Site!Confirm, Site!Commit, Site!Confirming
<1>2. ~Site!Confirming(op) /\ ~Site!Repeats(op)
  BY DEF Lookups, Site!Confirming, Site!Repeats
<1>3. Site!Subject(op) = op.form
  BY <1>2 DEF Site!Subject
<1> DEFINE Reply(screen, member) == [screen |-> screen, member |-> member, token |-> 0]
<1>4. \A screen, member :
          Site!Answer(Tab, screen, member, 0) =>
              served' = ToTab([stage |-> "answered", answer |-> Reply(screen, member)])
  BY DEF Site!Answer, ToTab
<1> HIDE DEF Reply
<1>5. \/ \E screen \in {"search", "not_found", "denied", "invalid"} :
            Site!Answer(Tab, screen, None, 0)
      \/ /\ op.form.member \in Members \ Restricted
         /\ \E screen \in Personal :
                Site!Answer(Tab, screen, op.form.member, 0)
  BY <1>1, <1>2, <1>3 DEF Lookups, Personal, Site!Browse, Site!Show, Site!Allowed, Site!Concerns
<1>6. CASE \E screen \in {"search", "not_found", "denied", "invalid"} :
               Site!Answer(Tab, screen, None, 0)
  <2>1. PICK screen \in {"search", "not_found", "denied", "invalid"} :
            Site!Answer(Tab, screen, None, 0)
    BY <1>6
  <2>2. screen \in Site!Screens \ Personal
    BY DEF Personal, Site!Screens
  <2>3. Telling(Reply(screen, None)) /\ Reply(screen, None).member = None
    BY <2>2, NobodyTold DEF Reply
  <2> QED
    BY <1>4, <2>1, <2>3
<1>7. CASE /\ op.form.member \in Members \ Restricted
           /\ \E screen \in Personal :
                  Site!Answer(Tab, screen, op.form.member, 0)
  <2>1. PICK screen \in Personal : Site!Answer(Tab, screen, op.form.member, 0)
    BY <1>7
  <2>2. /\ Telling(Reply(screen, op.form.member))
        /\ Reply(screen, op.form.member).member = op.form.member
    BY <1>7 DEF Telling, Personal, Reply, Site!Answered, Site!Screens
  <2> QED
    BY <1>4, <2>1, <2>2
<1> QED
  BY <1>5, <1>6, <1>7

-----------------------------------------------------------------------------
(* The bank answers                                                        *)

KeepsSession == UNCHANGED <<authenticated, tenant, pending>>

\* What an answer may be about, and what it leaves pending.
Replied(answer) ==
    /\ served' = ToTab([stage |-> "answered", answer |-> answer])
    /\ Telling(answer)
    /\ loading.ask.action \in Shell => answer.member = None
    /\ \/ answer.member \in {None, loading.ask.form.member}
       \/ pending # None /\ answer.member = pending.form.member
    /\ \/ pending' = None
       \/ /\ KeepsSession
          /\ pending # None /\ loading.frame \in Covering =>
                 /\ loading.frame # "top"
                 /\ answer.screen = IF loading.frame = "content" THEN "frame" ELSE "notice"
       \/ /\ loading.ask.action \notin Shell /\ answer.screen = "notice"
          /\ authenticated /\ tenant = "alpha" /\ UNCHANGED <<authenticated, tenant>>
          /\ pending' = Kept(loading.ask)

ReadsOn ==
    /\ served' = ToTab([stage |-> "reading", request |-> loading.ask])
    /\ loading.ask.action \notin Shell
    /\ authenticated /\ tenant = "alpha" /\ KeepsSession

LEMMA Shown ==
    ASSUME NEW screen \in Site!Screens \ Personal,
           served = ToTab(served[Tab]), Site!Show(Tab, screen)
    PROVE  LET answer == [screen |-> screen, member |-> None, token |-> 0]
           IN /\ served' = ToTab([stage |-> "answered", answer |-> answer])
              /\ Telling(answer) /\ answer.member = None /\ answer.screen = screen
BY NobodyTold DEF Site!Show, Site!Answer, ToTab

LEMMA BankAnswers ==
    ASSUME Serving, Answered
    PROVE  /\ loading # None /\ ~Answers /\ UNCHANGED browser
           /\ ReadsOn \/ \E answer : Replied(answer)
<1>1. served = ToTab(served[Tab]) /\ served[Tab].stage \in {"idle", "routed", "reading", "answered"}
  BY DEF Serving, ToTab, Site!Idle
<1>2. served[Tab].stage \in {"routed", "reading"}
  BY DEF Answered, Site!SignIn, Site!Refuse, Site!ReadBody, Site!Blocked, Site!Dismiss,
         Site!Interrupt, Site!Disturb, Site!Handle, Site!At
<1>3. loading # None /\ ~Answers /\ UNCHANGED browser
  BY <1>2 DEF Serving, ToTab, Site!Idle, Answers, Answered
<1>4. /\ IsDocument(loading) /\ served[Tab].request = loading.ask
      /\ served[Tab].stage = "reading" =>
             loading.ask.action \notin Shell /\ authenticated /\ tenant = "alpha"
  BY <1>2, <1>3, LoadingFacts DEF Serving, ToTab
<1>5. /\ loading.ask.action \in Shell \cup Lookups
      /\ loading.ask.form.member \in Persons /\ loading.ask.tenant = "alpha"
      /\ "alpha" # None
  BY <1>4, BankAssumption DEF IsDocument
<1> DEFINE ask == loading.ask
           reply(screen) == [screen |-> screen, member |-> None, token |-> 0]
<1>6. ASSUME NEW screen \in Site!Screens \ Personal, Site!Show(Tab, screen),
             \/ pending' = None
             \/ /\ KeepsSession
                /\ pending # None /\ loading.frame \in Covering =>
                       /\ loading.frame # "top"
                       /\ screen = IF loading.frame = "content" THEN "frame" ELSE "notice"
             \/ /\ ask.action \notin Shell /\ screen = "notice"
                /\ authenticated /\ tenant = "alpha" /\ UNCHANGED <<authenticated, tenant>>
                /\ pending' = Kept(ask)
      PROVE  \E answer : Replied(answer)
  <2>1. /\ served' = ToTab([stage |-> "answered", answer |-> reply(screen)])
        /\ Telling(reply(screen)) /\ reply(screen).member = None
        /\ reply(screen).screen = screen
    BY <1>1, <1>6, Shown
  <2> HIDE DEF reply
  <2>2. Replied(reply(screen))
    BY <1>6, <2>1 DEF Replied
  <2> QED
    BY <2>2
<1> HIDE DEF reply
<1>7. {"shell", "unknown", "login", "frame", "notice", "server_error", "denied", "not_found"}
          \subseteq Site!Screens \ Personal
  BY DEF Site!Screens, Personal
<1>8. CASE Site!SignIn(Tab)
  <2>1. Site!Show(Tab, "shell") /\ pending' = None
    BY <1>8 DEF Site!SignIn
  <2> QED
    BY <1>3, <1>6, <1>7, <2>1
<1>9. CASE Site!Refuse(Tab)
  <2>1. KeepsSession /\ served[Tab].stage = "routed"
    BY <1>9 DEF Site!Refuse, Site!session, KeepsSession, Site!At
  <2>2. \/ ask.action = "login" /\ ask.method = "GET"
        \/ ~Site!SignedIn(Tab) /\ ask.action # "login" /\ Site!Show(Tab, "login")
        \/ ask.action = "frame" /\ Site!SignedIn(Tab) /\ Site!Show(Tab, "frame")
    BY <1>4, <1>5, <1>9 DEF Site!Refuse, Site!Of
  <2>3. ~(ask.action = "login" /\ ask.method = "GET")
    BY <1>4 DEF IsDocument
  <2>4. CASE ~Site!SignedIn(Tab) /\ ask.action # "login" /\ Site!Show(Tab, "login")
    <3>1. pending = None
      BY <1>4, <1>5, <2>4 DEF Serving, Site!SignedIn, Site!Of
    <3> QED
      BY <1>3, <1>6, <1>7, <2>1, <2>4, <3>1
  <2>5. CASE ask.action = "frame" /\ Site!SignedIn(Tab) /\ Site!Show(Tab, "frame")
    <3>1. loading.frame \in Covering => loading.frame = "content"
      BY <1>4, <2>5 DEF IsDocument, Shell, Covering
    <3> QED
      BY <1>3, <1>6, <1>7, <2>1, <2>5, <3>1
  <2> QED
    BY <2>2, <2>3, <2>4, <2>5
<1>10. CASE Site!ReadBody(Tab)
  <2>1. /\ served[Tab].stage = "routed" /\ Site!SignedIn(Tab)
        /\ ask.action \notin Shell /\ KeepsSession
        /\ served' = [served EXCEPT ![Tab].stage = "reading"]
    BY <1>4, <1>10 DEF Site!ReadBody, Site!session, KeepsSession, Site!At, Site!Of, Site!Pass, Shell
  <2>2. served = ToTab([stage |-> "routed", request |-> ask])
    BY <1>3, <2>1 DEF Serving, ToTab
  <2>3. served' = ToTab([stage |-> "reading", request |-> ask])
    <3> DEFINE routed == [stage |-> "routed", request |-> ask]
    <3>1. [routed EXCEPT !.stage = "reading"] = [stage |-> "reading", request |-> ask]
      OBVIOUS
    <3> HIDE DEF routed
    <3>2. served[Tab] = routed /\ served' = [served EXCEPT ![Tab] = [routed EXCEPT !.stage = "reading"]]
      BY <2>1, <2>2 DEF ToTab, routed
    <3> QED
      BY <2>2, <3>1, <3>2 DEF ToTab, routed
  <2>4. authenticated /\ tenant = "alpha"
    BY <1>4, <1>5, <2>1 DEF Site!SignedIn, Site!Of
  <2> QED
    BY <1>3, <2>1, <2>3, <2>4 DEF ReadsOn
<1>11. CASE Site!Blocked(Tab)
  <2>1. Site!Show(Tab, "notice") /\ KeepsSession /\ served[Tab].stage = "reading"
    BY <1>11 DEF Site!Blocked, Site!session, KeepsSession, Site!At
  <2>2. loading.frame \notin {"top", "content"}
    BY <1>4, <2>1 DEF IsDocument
  <2> QED
    BY <1>3, <1>6, <1>7, <2>1, <2>2
<1>12. CASE Site!Dismiss(Tab)
  <2>1. /\ pending # None /\ pending' = None /\ Site!Carry(Tab, pending)
        /\ served[Tab].stage = "reading"
    BY <1>12 DEF Site!Dismiss, Site!At
  <2>2. /\ pending.action \in Lookups
        /\ pending.form.member \in Persons
    <3>1. PICK d \in Documents : d.ask.action \notin Shell /\ pending = Kept(d.ask)
      BY <2>1 DEF Serving
    <3>2. IsDocument(d)
      BY DocumentFacts
    <3>3. pending.action = d.ask.action /\ pending.form = d.ask.form
      BY <3>1 DEF Kept
    <3> QED
      BY <3>1, <3>2, <3>3 DEF IsDocument
  <2>3. PICK answer : /\ served' = ToTab([stage |-> "answered", answer |-> answer])
                      /\ Telling(answer) /\ answer.member \in {None, pending.form.member}
    BY <1>1, <2>1, <2>2, Carried
  <2>4. ask.action \notin Shell
    BY <1>4, <2>1
  <2>5. Replied(answer)
    BY <2>1, <2>3, <2>4 DEF Replied
  <2> QED
    BY <1>3, <2>5
<1>13. CASE Site!Interrupt(Tab)
  <2>1. /\ Site!Show(Tab, "notice") /\ served[Tab].stage = "reading"
        /\ pending' = Kept(ask) /\ UNCHANGED <<authenticated, tenant>>
    BY <1>4, <1>13 DEF Site!Interrupt, Site!Operation, Site!Of, Site!At, Kept
  <2> QED
    BY <1>3, <1>4, <1>6, <1>7, <2>1
<1>14. CASE Site!Disturb(Tab)
  <2>1. /\ \E screen \in {"server_error", "denied", "not_found"} : Site!Show(Tab, screen)
        /\ KeepsSession /\ pending = None
    BY <1>14 DEF Site!Disturb, KeepsSession
  <2> QED
    BY <1>3, <1>6, <1>7, <2>1
<1>15. CASE Site!Handle(Tab)
  <2>0. PICK op : op = Kept(ask)
    OBVIOUS
  <2>1. /\ Site!Carry(Tab, op) /\ KeepsSession /\ pending = None
        /\ served[Tab].stage = "reading"
    BY <1>4, <1>15, <2>0 DEF Site!Handle, Site!Operation, Site!Of, Site!At, Kept, KeepsSession
  <2>2. /\ op.action \in Lookups
        /\ op.form.member \in Persons /\ op.form.member = ask.form.member
        /\ ask.action \notin Shell
    BY <1>4, <1>5, <2>0, <2>1 DEF Kept
  <2>3. PICK answer : /\ served' = ToTab([stage |-> "answered", answer |-> answer])
                      /\ Telling(answer) /\ answer.member \in {None, op.form.member}
    <3>1. /\ op.action \in Lookups /\ op.form.member \in Persons
          /\ served = ToTab(served[Tab]) /\ Site!Carry(Tab, op)
      BY <1>1, <2>1, <2>2
    <3> QED
      BY <3>1, Carried
  <2>4. Replied(answer)
    BY <2>1, <2>2, <2>3 DEF Replied
  <2> QED
    BY <1>3, <2>4
<1> QED
  BY <1>8, <1>9, <1>10, <1>11, <1>12, <1>13, <1>14, <1>15 DEF Answered

\* What the browser keeps of a step, and of whom.
Visited ==
    /\ Serving' /\ Displayed' /\ Noticed'
    /\ \A who : None \in who /\ About(who) => About(who)'

LEMMA AnswerStep ==
    ASSUME Serving, Displayed, Noticed, Answered, UNCHANGED given
    PROVE  Visited
<1>1. loading # None /\ ~Answers /\ UNCHANGED browser
  BY BankAnswers
<1>2. /\ UNCHANGED <<page, shown, typed, loads, loading, operator>> /\ Fetching' = Fetching
      /\ loading \in Fetching
  BY <1>1 DEF browser, given, Fetching
<1>3. Displayed'
  BY <1>2 DEF Displayed
<1>4. \A frames : Sent(frames)' = Sent(frames)
  BY <1>2 DEF Sent
<1>5. CASE ReadsOn
  <2>1. ~Answers'
    BY <1>5 DEF ReadsOn, Answers, ToTab
  <2>2. Serving'
    BY <1>1, <1>2, <1>5 DEF Serving, ReadsOn, KeepsSession
  <2>3. Noticed'
    BY <1>1, <1>2, <1>4, <1>5, <2>1 DEF Noticed, ReadsOn, KeepsSession
  <2>4. ASSUME NEW who, None \in who, About(who) PROVE About(who)'
    BY <1>2, <1>5, <2>1, <2>4 DEF About, ReadsOn, KeepsSession
  <2> QED
    BY <1>3, <2>2, <2>3, <2>4 DEF Visited
<1>6. CASE \E answer : Replied(answer)
  <2>1. PICK answer : Replied(answer)
    BY <1>6
  <2>2. /\ served' = ToTab([stage |-> "answered", answer |-> answer])
        /\ served'[Tab].answer = answer /\ Answers'
    BY <2>1 DEF Replied, Answers, ToTab
  <2>3. IsDocument(loading)
    BY <1>1, LoadingFacts
  <2>4. Serving'
    <3>1. pending' # None =>
              /\ authenticated' /\ tenant' = "alpha"
              /\ \E d \in Documents : d.ask.action \notin Shell /\ pending' = Kept(d.ask)
      <4>1. CASE pending' = None
        BY <4>1
      <4>2. CASE KeepsSession
        BY <4>2 DEF Serving, KeepsSession
      <4>3. CASE /\ loading.ask.action \notin Shell
                 /\ authenticated /\ tenant = "alpha" /\ UNCHANGED <<authenticated, tenant>>
                 /\ pending' = Kept(loading.ask)
        <5>1. PICK d \in Documents : loading = d \/ loading = [d EXCEPT !.frame = "none"]
          BY <1>1 DEF Serving
        <5>2. loading.ask = d.ask
          BY <5>1, DocumentFacts
        <5> QED
          BY <4>3, <5>2
      <4> QED
        BY <2>1, <4>1, <4>2, <4>3 DEF Replied
    <3>2. Telling(answer)' /\ (loading'.ask.action \in Shell => answer.member = None)
      BY <1>2, <2>1 DEF Replied, Telling
    <3> QED
      BY <1>1, <1>2, <2>2, <3>1, <3>2 DEF Serving
  <2>5. Noticed'
    <3> SUFFICES ASSUME pending' # None
                 PROVE  /\ page["workspace"] = "notice" \/ Sent(Covering)
                        /\ loading.frame \in Covering =>
                               /\ loading.frame # "top"
                               /\ answer.screen =
                                      IF loading.frame = "content" THEN "frame" ELSE "notice"
      BY <1>2, <1>4, <2>2 DEF Noticed
    <3>1. CASE /\ KeepsSession
               /\ pending # None /\ loading.frame \in Covering =>
                      /\ loading.frame # "top"
                      /\ answer.screen = IF loading.frame = "content" THEN "frame" ELSE "notice"
      BY <3>1 DEF Noticed, KeepsSession
    <3>2. CASE loading.ask.action \notin Shell /\ answer.screen = "notice"
      <4>1. loading.frame \in {"workspace", "none"}
        BY <2>3, <3>2 DEF IsDocument, Frames
      <4>2. Sent(Covering)
        <5>1. CASE loading.frame = "workspace"
          BY <1>2, <5>1 DEF Sent, Covering
        <5>2. CASE loading.frame = "none"
          BY <1>1, <5>2 DEF Noticed, Sent, Fetching
        <5> QED
          BY <4>1, <5>1, <5>2
      <4> QED
        BY <3>2, <4>1, <4>2 DEF Covering
    <3> QED
      BY <2>1, <3>1, <3>2 DEF Replied
  <2>6. ASSUME NEW who, None \in who, About(who) PROVE About(who)'
    <3>1. answer.member \in who
      BY <1>2, <2>1, <2>6 DEF About, Replied
    <3>2. pending' # None => pending'.form.member \in who
      <4>1. CASE pending' = None \/ KeepsSession
        BY <2>6, <4>1 DEF About, KeepsSession
      <4>2. CASE pending' = Kept(loading.ask)
        BY <1>2, <2>6, <4>2 DEF About, Kept
      <4> QED
        BY <2>1, <4>1, <4>2 DEF Replied
    <3> QED
      BY <1>2, <2>2, <2>6, <3>1, <3>2 DEF About
  <2> QED
    BY <1>3, <2>4, <2>5, <2>6 DEF Visited
<1> QED
  BY <1>5, <1>6, BankAnswers

LEMMA FetchStep ==
    ASSUME Serving, Displayed, Noticed, Fetch, UNCHANGED given
    PROVE  Visited
<1>1. PICK document \in loads :
          /\ loading = None /\ loads' = loads \ {document} /\ loading' = document
          /\ \/ Site!RouteTo(Tab) /\ served'[Tab].request = document.ask
             \/ Site!Expire(Tab)
  BY DEF Fetch
<1>2. /\ document \in Documents /\ IsDocument(document) /\ document.frame # "none"
      /\ document # None
  BY <1>1, DocumentFacts DEF Serving, IsDocument
<1>3. UNCHANGED <<page, shown, typed, operator>> /\ Fetching' = Fetching
  BY <1>1, <1>2 DEF Fetch, given, Fetching
<1>4. Displayed'
  BY <1>3 DEF Displayed
<1>5. \A frames : Sent(frames)' = Sent(frames)
  BY <1>3 DEF Sent
<1>6. /\ served = ToTab(Site!Idle) /\ ~Answers
  BY <1>1 DEF Serving, ToTab, Site!Idle, Answers
<1>7. loads' \subseteq Documents
  BY <1>1 DEF Serving
<1>8. CASE Site!RouteTo(Tab) /\ served'[Tab].request = document.ask
  <2>1. PICK request : served' = [served EXCEPT ![Tab] = [stage |-> "routed", request |-> request]]
    BY <1>8 DEF Site!RouteTo
  <2>2. served' = ToTab([stage |-> "routed", request |-> request])
    BY <1>6, <2>1 DEF ToTab
  <2>3. request = document.ask
    BY <1>8, <2>2 DEF ToTab
  <2>4. KeepsSession /\ ~Answers'
    BY <1>8, <2>2 DEF Site!RouteTo, Site!session, KeepsSession, Answers, ToTab
  <2>5. Serving'
    BY <1>1, <1>2, <1>7, <2>2, <2>3, <2>4 DEF Serving, KeepsSession
  <2>6. Noticed'
    BY <1>1, <1>2, <1>3, <1>5, <1>6, <2>4 DEF Noticed, KeepsSession
  <2>7. ASSUME NEW who, None \in who, About(who) PROVE About(who)'
    BY <1>3, <2>4, <2>7 DEF About, KeepsSession
  <2> QED
    BY <1>4, <2>5, <2>6, <2>7 DEF Visited
<1>9. CASE Site!Expire(Tab)
  <2>1. pending' = None /\ Site!Show(Tab, "expired")
    <3>1. PICK ask \in AsksOf : IF ask.tenant = None THEN UNCHANGED served
                                                 ELSE Site!Show(Tab, "expired")
      BY <1>9 DEF Site!Expire, AsksOf
    <3>2. ask.tenant # None
      <4>1. PICK d \in Documents : ask = d.ask
        BY DEF AsksOf
      <4>2. ask.tenant = "alpha"
        BY <4>1, DocumentFacts DEF IsDocument
      <4> QED
        BY <4>2, BankAssumption
    <3> QED
      BY <1>9, <3>1, <3>2 DEF Site!Expire
  <2> DEFINE answer == [screen |-> "expired", member |-> None, token |-> 0]
  <2>2. "expired" \in Site!Screens \ Personal /\ served = ToTab(served[Tab])
    BY <1>6 DEF Site!Screens, Personal, ToTab
  <2>3. /\ served' = ToTab([stage |-> "answered", answer |-> answer])
        /\ Telling(answer) /\ answer.member = None
    BY <2>1, <2>2, Shown
  <2> HIDE DEF answer
  <2>4. served'[Tab].answer = answer /\ Telling(answer)'
    BY <2>3 DEF ToTab, Telling
  <2>5. Serving'
    BY <1>1, <1>2, <1>7, <2>1, <2>3, <2>4 DEF Serving
  <2>6. Noticed'
    BY <1>1, <1>2, <1>3, <1>5, <2>1 DEF Noticed
  <2>7. ASSUME NEW who, None \in who, About(who) PROVE About(who)'
    BY <1>3, <2>1, <2>3, <2>4, <2>7 DEF About
  <2> QED
    BY <1>4, <2>5, <2>6, <2>7 DEF Visited
<1> QED
  BY <1>1, <1>8, <1>9

LEMMA RenderStep ==
    ASSUME Serving, Displayed, Noticed, Render, UNCHANGED given
    PROVE  Visited
<1> DEFINE answer == served[Tab].answer
           gone == Inside(loading.frame)
           kept == {d \in loads : d.frame \notin gone}
           new == (IF loading.frame = "top" /\ answer.screen = "shell"
                   THEN {Inner("navigation"), Inner("content")} ELSE {})
                  \cup (IF loading.frame = "content" /\ answer.screen = "frame"
                        THEN {SearchPage} ELSE {})
<1>1. /\ Answers /\ loading' = None /\ served' = [served EXCEPT ![Tab] = Site!Idle]
      /\ KeepsSession /\ UNCHANGED <<operator, value>>
      /\ page' = [f \in Frames |-> IF f = loading.frame THEN answer.screen
                                   ELSE IF f \in gone THEN "blank" ELSE page[f]]
      /\ IF "workspace" \in gone THEN shown' = answer.member /\ typed' = None
                                 ELSE UNCHANGED <<shown, typed>>
      /\ loads' = kept \cup new
  BY DEF Render, Site!Leave, Site!At, Answers, KeepsSession, given
<1> HIDE DEF answer, gone, kept, new
<1>2. /\ loading # None /\ IsDocument(loading) /\ loading \in Fetching
      /\ served = ToTab([stage |-> "answered", answer |-> answer])
      /\ Telling(answer)
      /\ loading.ask.action \in Shell => answer.member = None
  <2>1. loading # None
    BY <1>1 DEF Serving, Answers, ToTab, Site!Idle
  <2>2. served[Tab].stage = "answered"
    BY <1>1 DEF Answers
  <2> QED
    BY <2>1, <2>2, LoadingFacts DEF Serving, ToTab, Fetching, answer
<1>3. /\ served' = ToTab(Site!Idle) /\ ~Answers'
  BY <1>1, <1>2 DEF ToTab, Answers, Site!Idle
<1>4. /\ Fetching' = loads' /\ kept \subseteq loads /\ loads \subseteq Fetching
  BY <1>1 DEF Fetching, kept
<1>5. /\ new \subseteq {Inner("navigation"), Inner("content"), SearchPage}
      /\ new \subseteq Documents
      /\ loading.frame # "top" => \A d \in new : d.frame = "workspace"
      /\ loading.frame \notin {"top", "content"} => new = {}
      /\ \A d \in new : /\ d.frame \in {"navigation", "content", "workspace"}
                        /\ d.ask.form.member = None
                        /\ d.frame = "content" => loading.frame = "top"
                        /\ d.frame = "workspace" => loading.frame = "content"
  BY DEF new, Documents, Inner, SearchPage, Ask
<1>6. Serving'
  BY <1>1, <1>3, <1>4, <1>5 DEF Serving, KeepsSession
<1>7. /\ "workspace" \in gone <=> loading.frame \in {"top", "content", "workspace"}
      /\ loading.frame = "top" => gone = Frames
      /\ loading.frame = "content" => gone = {"content", "workspace"}
      /\ loading.frame # "none" => loading.frame \in gone
  BY <1>2 DEF gone, Inside, Frames, IsDocument
<1>8. Displayed'
  <2>1. answer.screen \in Site!Screens
    BY <1>2 DEF Telling, Site!Answered
  <2>2. page' \in [Frames -> Site!Screens \cup {"blank"}]
    BY <1>1, <2>1 DEF Displayed
  <2>3. /\ typed' \in Persons /\ None \in Persons
    BY <1>1 DEF Displayed, Persons
  <2>4. CASE loading.frame \in {"top", "content"}
    <3>1. page'["workspace"] = "blank" /\ shown' = answer.member /\ typed' = None
      BY <1>1, <1>7, <2>4 DEF Frames
    <3>2. answer.member = None
      BY <1>2, <2>4 DEF IsDocument
    <3> QED
      BY <2>2, <2>3, <3>1, <3>2 DEF Displayed, Personal
  <2>5. CASE loading.frame = "workspace"
    <3>1. page'["workspace"] = answer.screen /\ shown' = answer.member /\ typed' = None
      BY <1>1, <1>7, <2>5 DEF Frames
    <3> QED
      BY <1>2, <2>2, <2>3, <3>1 DEF Displayed, Telling
  <2>6. CASE loading.frame \notin {"top", "content", "workspace"}
    <3>1. page'["workspace"] = page["workspace"] /\ UNCHANGED <<shown, typed>>
      BY <1>1, <1>7, <2>6 DEF Frames
    <3> QED
      BY <2>2, <2>3, <3>1 DEF Displayed
  <2> QED
    BY <2>4, <2>5, <2>6
<1>9. Noticed'
  <2> SUFFICES ASSUME pending # None
               PROVE  page'["workspace"] = "notice" \/ \E d \in kept \cup new : d.frame \in Covering
    BY <1>1, <1>3, <1>4 DEF Noticed, KeepsSession, Sent
  <2>1. /\ page["workspace"] = "notice" \/ Sent(Covering)
        /\ loading.frame \in Covering =>
               /\ loading.frame # "top"
               /\ answer.screen = IF loading.frame = "content" THEN "frame" ELSE "notice"
    BY <1>1 DEF Noticed, answer
  <2>2. CASE loading.frame = "workspace"
    <3>1. page'["workspace"] = answer.screen
      BY <1>1, <2>2 DEF Frames
    <3> QED
      BY <2>1, <2>2, <3>1 DEF Covering
  <2>3. CASE loading.frame = "content"
    <3>1. SearchPage \in new /\ SearchPage.frame \in Covering
      BY <2>1, <2>3 DEF new, SearchPage, Covering
    <3> QED
      BY <3>1
  <2>4. CASE loading.frame \notin Covering
    <3>1. page'["workspace"] = page["workspace"]
      BY <1>1, <1>7, <2>4 DEF Covering, Frames
    <3>2. ASSUME NEW d \in Fetching, d.frame \in Covering PROVE d \in kept
      <4>1. d \in loads /\ d.frame \notin gone
        <5>1. d # loading
          BY <2>4, <3>2
        <5>2. gone \cap Covering = {}
          BY <2>4 DEF gone, Inside, Covering, Frames
        <5> QED
          BY <3>2, <5>1, <5>2 DEF Fetching
      <4> QED
        BY <4>1 DEF kept
    <3> QED
      BY <2>1, <3>1, <3>2 DEF Sent
  <2> QED
    BY <2>1, <2>2, <2>3, <2>4 DEF Covering
<1>10. ASSUME NEW who, None \in who, About(who) PROVE About(who)'
  <2>1. shown' \in who /\ typed' \in who
    BY <1>1, <1>2, <1>10 DEF About, answer
  <2>2. \A d \in Fetching' : d.ask.form.member \in who
    BY <1>1, <1>4, <1>5, <1>10 DEF About
  <2> QED
    BY <1>1, <1>3, <1>10, <2>1, <2>2 DEF About, KeepsSession
<1> QED
  BY <1>6, <1>8, <1>9, <1>10 DEF Visited

\* Nothing of this happens while the browser is at rest.
LEMMA RestStops ==
    ASSUME Serving, Settled
    PROVE  ~(Fetch \/ Answered \/ Render)
<1>1. loading = None /\ loads = {}
  BY DEF Settled
<1>2. ~Answered
  BY <1>1, BankAnswers
<1>3. ~Render
  BY <1>1 DEF Serving, ToTab, Site!Idle, Render, Site!Leave, Site!At
<1> QED
  BY <1>1, <1>2, <1>3 DEF Fetch

-----------------------------------------------------------------------------
(* The agent and the operator                                              *)

\* The page or the workspace is sent elsewhere, whatever was on its way to it.
LEMMA Going ==
    ASSUME Serving, Displayed, Noticed, NEW d \in Documents, Go(d),
           d.frame \in {"top", "workspace"},
           UNCHANGED <<bank, page, shown, typed>>
    PROVE  /\ Serving' /\ Displayed' /\ Noticed'
           /\ \A who : About(who) /\ d.ask.form.member \in who => About(who)'
<1>1. UNCHANGED <<served, pending, authenticated, tenant>> /\ Answers' = Answers
  BY DEF bank, Answers
<1>2. /\ loads' \subseteq loads \cup {d} /\ d \in loads'
      /\ \/ UNCHANGED loading
         \/ loading # None /\ loading.frame \in Inside(d.frame)
            /\ loading' = [loading EXCEPT !.frame = "none"]
  BY DEF Go
<1>3. /\ loading' = None <=> loading = None
      /\ loading # None =>
             /\ loading'.ask = loading.ask /\ loading'.frame \in {loading.frame, "none"}
             /\ \E e \in Documents : loading' = e \/ loading' = [e EXCEPT !.frame = "none"]
  <2>1. CASE UNCHANGED loading
    BY <2>1 DEF Serving
  <2>2. CASE /\ loading # None /\ loading.frame \in Inside(d.frame)
             /\ loading' = [loading EXCEPT !.frame = "none"]
    <3>1. PICK e \in Documents : loading = e \/ loading = [e EXCEPT !.frame = "none"]
      BY <2>2 DEF Serving
    <3>2. loading.frame # "none"
      BY <2>2 DEF Inside, Frames
    <3>3. loading = e
      BY <3>1, <3>2, DocumentFacts
    <3>4. IsDocument(loading') /\ loading'.ask = loading.ask /\ loading'.frame = "none"
      BY <2>2, <3>3, DocumentFacts
    <3> QED
      BY <2>2, <3>3, <3>4 DEF IsDocument
  <2> QED
    BY <1>2, <2>1, <2>2
<1>4. Serving'
  BY <1>1, <1>2, <1>3 DEF Serving
<1>5. Displayed'
  BY DEF Displayed
<1>6. Noticed'
  <2>1. \E e \in loads' : e.frame \in Covering
    BY <1>2 DEF Covering
  <2>2. Sent(Covering)'
    BY <2>1 DEF Sent, Fetching
  <2>3. Answers => loading # None
    BY DEF Serving, Answers, ToTab, Site!Idle
  <2>4. "none" \notin Covering
    BY DEF Covering
  <2> QED
    BY <1>1, <1>3, <2>1, <2>2, <2>3, <2>4 DEF Noticed
<1>7. ASSUME NEW who, About(who), d.ask.form.member \in who PROVE About(who)'
  <2>1. \A e \in Fetching' : e.ask.form.member \in who
    BY <1>2, <1>3, <1>7 DEF Fetching, About
  <2> QED
    BY <1>1, <1>7, <2>1 DEF About
<1> QED
  BY <1>4, <1>5, <1>6, <1>7

\* What no document is on its way to is left as it is.
LEMMA Staying ==
    ASSUME Serving, Displayed, Noticed,
           UNCHANGED <<bank, page, shown, typed, loads, loading, operator>>
    PROVE  /\ Serving' /\ Displayed' /\ Noticed' /\ Settled' = Settled
           /\ \A who : About(who)' = About(who)
<1>1. UNCHANGED <<served, pending, authenticated, tenant>>
  BY DEF bank
<1>2. Fetching' = Fetching /\ Answers' = Answers
  BY <1>1 DEF Fetching, Answers
<1>3. \A frames : Sent(frames)' = Sent(frames)
  BY <1>2 DEF Sent
<1>4. Serving' /\ Displayed'
  BY <1>1 DEF Serving, Displayed
<1>5. Noticed'
  BY <1>1, <1>2, <1>3 DEF Noticed
<1>6. \A who : About(who)' = About(who)
  BY <1>1, <1>2 DEF About
<1> QED
  BY <1>4, <1>5, <1>6 DEF Settled

\* The capability has six steps, all with a checkpoint.
LEMMA LookUpFacts ==
    /\ Len(LookUp) = 6 /\ DOMAIN LookUp = 1 .. 6
    /\ \A n \in 1 .. 6 : LookUp[n].checked
BY DEF LookUp

LEMMA VisitStep ==
    ASSUME BankInv, Visit
    PROVE  BankInv'
<1>1. UNCHANGED <<vars, given, left, value>>
  BY DEF Visit, Fetch, Answered, Render, browser
<1>2. /\ UNCHANGED <<capability, pc, index, resumed, observation, result, outputs>>
      /\ UNCHANGED <<wanted, operator, left, value>>
  BY <1>1 DEF vars, local, given
<1>3. ~Settled
  BY RestStops DEF Visit, BankInv
<1>4. Visited
  BY <1>1, AnswerStep, FetchStep, RenderStep DEF Visit, BankInv
<1>5. Rested'
  BY <1>2, <1>3 DEF BankInv, Rested, Taken
<1>6. Taken' = Taken /\ Typed' = Typed /\ Trusted' = Trusted /\ FailedStep' = FailedStep
  BY <1>2 DEF Taken, Typed, Trusted, FailedStep
<1>7. Handing'
  BY <1>2, <1>6 DEF BankInv, Handing
<1>8. Faithful'
  BY <1>2, <1>4, <1>6 DEF BankInv, Faithful, Visited, Trusted
<1>9. ReadLast'
  BY <1>2, <1>6 DEF BankInv, ReadLast
<1> QED
  BY <1>2, <1>4, <1>5, <1>7, <1>8, <1>9 DEF BankInv, Visited

\* Where the run is after a step that leaves the page alone.
GoesOn ==
    /\ UNCHANGED <<index, resumed, outputs>>
    /\ pc' \notin Performed \cup {"recheck"}
    /\ pc' \in AtRest => pc \in AtRest /\ pc # "recheck"
    /\ pc \in {"operator", "raised", "ended", "recheck"} => pc' \in {"raised", "ended"}

StepsOn ==
    /\ pc = "checkpoint" /\ pc' = "decide" /\ observation.done
    /\ index' = index + 1 /\ index <= 6 /\ UNCHANGED <<resumed, outputs>>

TakesUp ==
    /\ pc = "recheck" /\ pc' = "begin" /\ observation.done
    /\ index' = FailedStep + 1 /\ FailedStep <= 6 /\ (FailedStep = 6 => index = 6)
    /\ resumed' = TRUE /\ outputs' = {}

LEMMA QuietCases ==
    ASSUME IInv, BankInv, Quietly
    PROVE  UNCHANGED <<capability, world>> /\ (GoesOn \/ StepsOn \/ TakesUp)
<1>1. /\ capability = LookUp /\ N = 6 /\ index \in 1 .. 7 /\ pc \in Places
      /\ \A n \in 1 .. 6 : capability[n].checked
  BY LookUpFacts DEF IInv, TypeOK, BankInv, N
<1>2. UNCHANGED <<capability, world>>
  BY DEF Quietly, Begin, Decide, Checkpoint, Succeed, Escalate, Resume, End, Raise, run
<1> SUFFICES GoesOn \/ StepsOn \/ TakesUp
  BY <1>2
<1>3. CASE Begin
  BY <1>3 DEF Begin, run, GoesOn, Return, Goto, Performed, AtRest, Inspected
<1>4. CASE Decide
  BY <1>4 DEF Decide, run, local, GoesOn, Return, Goto, Performed, AtRest, Inspected
<1>5. CASE Checkpoint
  <2>1. index \in 1 .. 6
    BY <1>1, <1>5 DEF IInv, Progress, Checkpoint, Performed
  <2>2. Step.checked
    BY <1>1, <2>1 DEF Step
  <2> QED
    BY <1>5, <2>1, <2>2
       DEF Checkpoint, local, GoesOn, StepsOn, Return, Goto, Performed, AtRest, Inspected
<1>6. CASE Succeed
  BY <1>6 DEF Succeed, run, local, GoesOn, Return, Goto, Performed, AtRest, Inspected
<1>7. CASE Escalate
  BY <1>7 DEF Escalate, run, local, GoesOn, Goto, Performed, AtRest, Inspected
<1>8. CASE Resume
  <2>1. pc = "recheck" /\ ~resumed /\ result \in HardKinds
    BY <1>8 DEF Resume, IInv, Progress
  <2>2. index <= 6 /\ (result = "invalid_input" => index = 1)
    BY <1>1, <2>1 DEF IInv, Progress, HardKinds
  <2>3. FailedStep <= 6 /\ (FailedStep = 6 => index = 6)
    BY <1>1, <2>2 DEF FailedStep
  <2> QED
    BY <1>8, <2>3 DEF Resume, TakesUp, Goto
<1>9. CASE End
  BY <1>9 DEF End, run, local, GoesOn, Goto, Performed, AtRest, Inspected
<1>10. CASE Raise
  BY <1>10 DEF Raise, run, local, GoesOn, Goto, Performed, AtRest, Inspected
<1> QED
  BY <1>3, <1>4, <1>5, <1>6, <1>7, <1>8, <1>9, <1>10 DEF Quietly

LEMMA QuietStep ==
    ASSUME IInv, BankInv, Quietly
    PROVE  BankInv'
<1>1. /\ UNCHANGED <<capability, bank, page, shown, typed, loads, loading, operator, wanted, left>>
      /\ UNCHANGED value
      /\ GoesOn \/ StepsOn \/ TakesUp
  BY QuietCases DEF world, browser, given
<1>2. Serving' /\ Displayed' /\ Noticed' /\ Settled' = Settled /\ \A who : About(who)' = About(who)
  BY <1>1, Staying DEF BankInv
<1>3. Taken' = Taken /\ Trusted' = Trusted
  BY <1>1 DEF Taken, Trusted
<1>4. Rested'
  BY <1>1, <1>2, <1>3 DEF BankInv, Rested, GoesOn, StepsOn, TakesUp, AtRest, Inspected, Performed
<1>5. /\ pc' # "recheck" /\ index \in Nat
      /\ pc' \notin {"ended", "raised"} => pc \notin {"operator", "raised", "ended"} \/ TakesUp
  BY <1>1 DEF IInv, TypeOK, GoesOn, StepsOn, TakesUp, Performed
<1>6. Handing'
  BY <1>1, <1>3, <1>5 DEF BankInv, Handing, GoesOn, StepsOn, TakesUp
<1>7. Faithful'
  <2>1. ASSUME ~Taken, ~(operator = "human" /\ pc' \in {"operator", "raised", "ended"})
        PROVE  About(Trusted)
    <3>1. TakesUp => operator # "human"
      BY <2>1 DEF BankInv, Handing, Taken, TakesUp
    <3>2. ~(operator = "human" /\ pc \in {"operator", "raised", "ended"})
      BY <1>5, <2>1, <3>1
    <3> QED
      BY <2>1, <3>2 DEF BankInv, Faithful
  <2>2. ASSUME Taken, left.settled, left.step < 3, resumed', Typed'
        PROVE  About(Trusted)
    <3>1. CASE GoesOn
      BY <2>2, <3>1 DEF BankInv, Faithful, GoesOn, Typed
    <3>2. CASE StepsOn
      <4>1. Typed /\ resumed
        BY <1>5, <2>2, <3>2 DEF StepsOn, Typed, Performed
      <4> QED
        BY <2>2, <4>1 DEF BankInv, Faithful
    <3>3. CASE TakesUp
      <4>1. left.step = FailedStep /\ left.step \in Nat
        BY <2>2, <3>3 DEF BankInv, Handing, TakesUp
      <4> QED
        BY <2>2, <3>3, <4>1 DEF TakesUp, Typed, Performed
    <3> QED
      BY <1>1, <3>1, <3>2, <3>3
  <2> QED
    BY <1>1, <1>2, <1>3, <2>1, <2>2 DEF BankInv, Faithful
<1>8. ReadLast'
  <2>1. index' = 7 => value # None
    <3>1. CASE GoesOn
      BY <3>1 DEF BankInv, ReadLast, GoesOn
    <3>2. CASE StepsOn
      BY <1>5, <3>2 DEF BankInv, ReadLast, StepsOn
    <3>3. CASE TakesUp
      <4>1. FailedStep \in Nat
        BY <1>5 DEF FailedStep
      <4> QED
        BY <3>3, <4>1 DEF BankInv, ReadLast, TakesUp
    <3> QED
      BY <1>1, <3>1, <3>2, <3>3
  <2>2. pc' # "checkpoint"
    BY <1>1 DEF GoesOn, StepsOn, TakesUp, Performed
  <2>3. 6 \in outputs' => 6 \in outputs
    BY <1>1 DEF GoesOn, StepsOn, TakesUp
  <2> QED
    BY <1>1, <1>3, <1>5, <2>1, <2>2, <2>3 DEF BankInv, ReadLast
<1> QED
  BY <1>1, <1>2, <1>4, <1>6, <1>7, <1>8 DEF BankInv

\* Whom a step of the agent is about was settled before it.
LEMMA Moving ==
    ASSUME BankInv, pc \in {"resolve", "act", "look", "dismiss", "username", "signin",
                            "recovered"},
           UNCHANGED <<index, resumed, operator, left, wanted>>,
           pc' \in Performed \cup {"act", "returned"},
           \A who : wanted \in who /\ None \in who /\ About(who) => About(who)',
           Taken /\ left.settled /\ Typed' => Typed \/ About(Trusted)'
    PROVE  Handing' /\ Faithful'
<1>1. Taken' = Taken /\ Trusted' = Trusted /\ pc' \notin {"recheck", "operator", "ended", "raised"}
  BY DEF Taken, Trusted, Performed
<1>2. Handing'
  BY <1>1 DEF BankInv, Handing
<1>3. wanted \in Trusted /\ None \in Trusted
  BY DEF Trusted
<1>4. About(Trusted) => About(Trusted)'
  BY <1>3 DEF About, Trusted
<1>5. About(Trusted \cup left.others) => About(Trusted \cup left.others)'
  BY <1>3 DEF About, Trusted
<1>6. /\ ~Taken => About(Trusted)'
      /\ Taken => About(Trusted \cup left.others)'
      /\ Taken /\ left.settled /\ left.step < 3 /\ resumed /\ Typed' => About(Trusted)'
  BY <1>4, <1>5 DEF BankInv, Faithful
<1>7. Faithful'
  BY <1>1, <1>6 DEF Faithful
<1> QED
  BY <1>2, <1>7

LEMMA LocateStep ==
    ASSUME IInv, BankInv, Locate
    PROVE  BankInv'
<1>1. /\ pc = "resolve" /\ pc' \in {"act", "returned"}
      /\ UNCHANGED <<capability, index, resumed, outputs, operator, left, wanted, value>>
      /\ UNCHANGED <<bank, page, shown, typed, loads, loading, operator>>
  BY DEF Locate, Resolve, run, local, world, browser, given, Goto, Return
<1>2. Serving' /\ Displayed' /\ Noticed' /\ Settled' = Settled /\ \A who : About(who)' = About(who)
  BY <1>1, Staying DEF BankInv
<1>3. Rested'
  BY <1>1, <1>2 DEF BankInv, Rested, AtRest, Inspected, Taken
<1>4. Typed' => Typed
  BY <1>1 DEF Typed, Performed
<1>5. Handing' /\ Faithful'
  BY <1>1, <1>2, <1>4, Moving
<1>6. ReadLast'
  BY <1>1 DEF BankInv, ReadLast, Taken, Trusted
<1> QED
  BY <1>1, <1>2, <1>3, <1>5, <1>6 DEF BankInv

LEMMA PerformStep ==
    ASSUME IInv, BankInv, Perform
    PROVE  BankInv'
<1>1. /\ pc = "act" /\ pc' \in {"look", "returned"}
      /\ UNCHANGED <<capability, index, resumed, outputs, operator, left, wanted, bank>>
      /\ \/ Present(index) /\ Use(index)
         \/ /\ Present(index) \/ index \in {1, 3} => pc' # "look"
            /\ UNCHANGED browser
  BY DEF Perform, Act, run, local, given, Goto, Return
<1>2. index \in 1 .. 6
  <2>1. N = 6
    BY LookUpFacts DEF BankInv, N
  <2> QED
    BY <1>1, <2>1 DEF IInv, TypeOK, Progress, Performed, N
<1>3. Taken' = Taken /\ Trusted' = Trusted
  BY <1>1 DEF Taken, Trusted
<1>4. Rested'
  BY <1>1 DEF Rested, AtRest, Inspected
<1>5. pc' # "checkpoint" /\ pc' # "recheck"
  BY <1>1
<1>6. CASE UNCHANGED browser /\ ~(index = 3 /\ pc' = "look")
  <2>1. UNCHANGED <<page, shown, typed, loads, loading, value>>
    BY <1>6 DEF browser
  <2>2. Serving' /\ Displayed' /\ Noticed' /\ \A who : About(who)' = About(who)
    BY <1>1, <2>1, Staying DEF BankInv
  <2>3. Typed' => Typed
    BY <1>1, <1>6 DEF Typed, Performed
  <2>4. Handing' /\ Faithful'
    BY <1>1, <2>2, <2>3, Moving DEF Performed
  <2>5. ReadLast'
    BY <1>1, <1>3, <1>5, <2>1 DEF BankInv, ReadLast
  <2> QED
    BY <1>1, <1>4, <2>2, <2>4, <2>5 DEF BankInv
<1>7. CASE Present(index) /\ Use(index) /\ index \in {2, 4, 5}
  <2> DEFINE d == IF index = 2 THEN SignInPage ELSE IF index = 4 THEN Find(typed) ELSE Open(shown)
  <2>1. Go(d) /\ UNCHANGED <<page, shown, typed, value>>
    BY <1>7 DEF Use
  <2>2. shown \in Persons /\ typed \in Persons
    BY DEF BankInv, Displayed, Persons
  <2>3. /\ d \in Documents /\ d.frame \in {"top", "workspace"}
        /\ d.ask.form.member \in {None, typed, shown}
    BY <1>7, <2>2 DEF Documents, SignInPage, Find, Open, Ask
  <2> HIDE DEF d
  <2>4. /\ Serving' /\ Displayed' /\ Noticed'
        /\ \A who : About(who) /\ d.ask.form.member \in who => About(who)'
    BY <1>1, <2>1, <2>3, Going DEF BankInv
  <2>5. ASSUME NEW who, None \in who, About(who) PROVE About(who)'
    <3>1. typed \in who /\ shown \in who
      BY <2>5 DEF About
    <3> QED
      BY <2>3, <2>4, <2>5, <3>1
  <2>6. Typed' => Typed
    BY <1>1, <1>7 DEF Typed
  <2>7. Handing' /\ Faithful'
    BY <1>1, <2>5, <2>6, Moving DEF Performed
  <2>8. ReadLast'
    BY <1>1, <1>3, <1>5, <2>1 DEF BankInv, ReadLast
  <2> QED
    BY <1>1, <1>4, <2>4, <2>7, <2>8 DEF BankInv
<1>8. CASE Present(index) /\ Use(index) /\ index = 3
  <2>1. /\ typed' = wanted /\ UNCHANGED <<page, shown, loads, loading, value>>
        /\ page["workspace"] = "search"
    BY <1>8 DEF Use, Present
  <2>2. UNCHANGED <<served, pending, authenticated, tenant>>
    BY <1>1 DEF bank
  <2>3. Fetching' = Fetching /\ Answers' = Answers
    BY <2>1, <2>2 DEF Fetching, Answers
  <2>4. Serving'
    BY <2>1, <2>2 DEF BankInv, Serving
  <2>5. shown = None /\ Displayed'
    BY <2>1 DEF BankInv, Displayed, Personal
  <2>6. \A frames : Sent(frames)' = Sent(frames)
    BY <2>3 DEF Sent
  <2>7. Noticed'
    BY <2>1, <2>2, <2>3, <2>6 DEF BankInv, Noticed
  <2>8. ASSUME NEW who, wanted \in who, None \in who, About(who) PROVE About(who)'
    BY <2>1, <2>2, <2>3, <2>8 DEF About
  <2>9. ASSUME Taken, left.settled PROVE About(Trusted)'
    <3>1. loading = None /\ Fetching = {} /\ ~Answers
      BY <1>1, <2>9 DEF BankInv, Rested, AtRest, Inspected, Settled, Fetching, Serving, Answers, ToTab,
                        Site!Idle
    <3>2. pending = None
      BY <2>1, <3>1 DEF BankInv, Noticed, Sent
    <3> QED
      BY <1>1, <2>1, <2>2, <2>3, <2>5, <3>1, <3>2 DEF About, Trusted
  <2>10. Handing' /\ Faithful'
    BY <1>1, <2>8, <2>9, Moving DEF Performed
  <2>11. ReadLast'
    BY <1>1, <1>3, <1>5, <2>1 DEF BankInv, ReadLast
  <2> QED
    BY <1>1, <1>4, <2>4, <2>5, <2>7, <2>10, <2>11 DEF BankInv
<1>9. CASE Present(index) /\ Use(index) /\ index = 6
  <2>1. /\ value' = shown /\ UNCHANGED <<page, shown, typed, loads, loading>>
        /\ page["workspace"] = "detail"
    BY <1>9 DEF Use, Present
  <2>2. Serving' /\ Displayed' /\ Noticed' /\ \A who : About(who)' = About(who)
    BY <1>1, <2>1, Staying DEF BankInv
  <2>3. Typed' => Typed
    BY <1>9 DEF Typed
  <2>4. Handing' /\ Faithful'
    BY <1>1, <2>2, <2>3, Moving DEF Performed
  <2>5. shown \in Members \ Restricted /\ shown # None
    BY <2>1, BankAssumption DEF BankInv, Displayed, Personal
  <2>6. shown \in Trusted \/ (Taken /\ shown \in left.others /\ (left.settled => left.step >= 3))
    <3>1. CASE ~Taken
      BY <1>1, <3>1 DEF BankInv, Faithful, About
    <3>2. CASE Taken /\ (left.settled => left.step >= 3)
      BY <3>2 DEF BankInv, Faithful, About
    <3>3. CASE Taken /\ left.settled /\ ~(left.step >= 3)
      <4>1. resumed /\ Typed /\ left.step < 3
        BY <1>1, <1>9, <3>3 DEF BankInv, Handing, Typed
      <4> QED
        BY <3>3, <4>1 DEF BankInv, Faithful, About
    <3> QED
      BY <3>1, <3>2, <3>3
  <2>7. ReadLast'
    BY <1>1, <1>3, <1>5, <2>1, <2>5, <2>6 DEF BankInv, ReadLast
  <2> QED
    BY <1>1, <1>4, <2>2, <2>4, <2>7 DEF BankInv
<1>10. CASE Present(index) /\ Use(index) /\ index = 1
  <2>1. UNCHANGED browser
    BY <1>10 DEF Use
  <2> QED
    BY <1>6, <1>10, <2>1
<1> QED
  BY <1>1, <1>2, <1>6, <1>7, <1>8, <1>9, <1>10

\* The last checkpoint waits for the value, and for nothing on the page.
LEMMA LastReached ==
    ASSUME NEW read, NEW step, step = 6, Reached(step, read)
    PROVE  6 \in read
BY DEF Reached

LEMMA InspectStep ==
    ASSUME IInv, BankInv, Inspect
    PROVE  BankInv'
<1> DEFINE read == outputs \cup (IF index = 6 /\ value # None THEN {6} ELSE {})
<1>1. /\ pc = "look" /\ pc' \in {"checkpoint", "returned", "dismiss", "username"} /\ Settled
      /\ UNCHANGED <<capability, index, resumed, operator, left, wanted, value>>
      /\ UNCHANGED <<bank, page, shown, typed, loads, loading, operator>>
      /\ outputs' = read /\ observation'.done = Reached(index, read)
  BY DEF Inspect, Look, run, world, browser, given, See, Goto, Return
<1>2. Serving' /\ Displayed' /\ Noticed' /\ Settled' = Settled /\ \A who : About(who)' = About(who)
  BY <1>1, Staying DEF BankInv
<1>3. Rested'
  BY <1>1, <1>2 DEF Rested
<1>4. Typed' => Typed
  BY <1>1 DEF Typed, Performed
<1>5. Handing' /\ Faithful'
  BY <1>1, <1>2, <1>4, Moving DEF Performed
<1>6. 6 \in read => value # None
  BY DEF BankInv, ReadLast
<1>7. index = 6 /\ observation'.done => 6 \in read
  BY <1>1, LastReached
<1>8. ReadLast'
  BY <1>1, <1>6, <1>7 DEF BankInv, ReadLast, Taken, Trusted
<1> QED
  BY <1>1, <1>2, <1>3, <1>5, <1>8 DEF BankInv

LEMMA RecoverStep ==
    ASSUME IInv, BankInv, Recover
    PROVE  BankInv'
<1>1. /\ UNCHANGED <<capability, index, resumed, outputs, operator, left, wanted, value>>
      /\ UNCHANGED <<bank, page, shown, typed>>
      /\ pc \in {"dismiss", "username", "signin", "recovered"}
      /\ pc' \in {"recovered", "returned", "signin", "checkpoint"}
  BY DEF Recover, DismissNotice, TypeUsername, ClickSignIn, Recovered, run, local, given,
         Goto, Return
<1>2. Typed' => Typed
  BY <1>1 DEF Typed, Performed
<1>3. CASE UNCHANGED <<loads, loading>> /\ (pc' \in AtRest => Settled)
           /\ (pc' = "checkpoint" => observation'.done = Reached(index, outputs))
  <2>1. Serving' /\ Displayed' /\ Noticed' /\ Settled' = Settled /\ \A who : About(who)' = About(who)
    BY <1>1, <1>3, Staying DEF BankInv
  <2>2. Rested'
    BY <1>1, <1>3, <2>1 DEF Rested, Taken
  <2>3. Handing' /\ Faithful'
    BY <1>1, <1>2, <2>1, Moving DEF Performed
  <2>4. index = 6 /\ pc' = "checkpoint" /\ observation'.done => 6 \in outputs
    BY <1>3, LastReached
  <2>5. ReadLast'
    BY <1>1, <2>4 DEF BankInv, ReadLast, Taken, Trusted
  <2> QED
    BY <1>1, <2>1, <2>2, <2>3, <2>5 DEF BankInv
<1>4. CASE /\ pc \in AtRest /\ pc' = "recovered"
           /\ \E d \in {Acknowledge, SignInPage} : Go(d)
  <2>1. PICK d \in {Acknowledge, SignInPage} : Go(d)
    BY <1>4
  <2>2. d \in Documents /\ d.frame \in {"top", "workspace"} /\ d.ask.form.member = None
    BY DEF Documents, Acknowledge, SignInPage, Ask
  <2>4. /\ Serving' /\ Displayed' /\ Noticed'
        /\ \A who : None \in who /\ About(who) => About(who)'
    BY <1>1, <2>1, <2>2, Going DEF BankInv
  <2>5. Rested'
    BY <1>4 DEF Rested, AtRest, Inspected
  <2>6. Handing' /\ Faithful'
    BY <1>1, <1>2, <2>4, Moving DEF Performed
  <2>7. ReadLast'
    BY <1>1, <1>4 DEF BankInv, ReadLast, Taken, Trusted
  <2> QED
    BY <1>1, <2>4, <2>5, <2>6, <2>7 DEF BankInv
<1>5. CASE /\ DismissNotice
           /\ IF Shows("notice") THEN pc' = "recovered" /\ Go(Acknowledge)
                                 ELSE pc' = "returned" /\ UNCHANGED <<loads, loading>>
  <2>1. pc = "dismiss"
    BY <1>5 DEF DismissNotice
  <2> QED
    BY <1>3, <1>4, <1>5, <2>1 DEF AtRest, Inspected
<1>6. CASE TypeUsername /\ pc' = "signin" /\ UNCHANGED <<loads, loading>>
  <2>1. Settled
    BY <1>6 DEF TypeUsername, BankInv, Rested, AtRest, Inspected
  <2> QED
    BY <1>3, <1>6, <2>1
<1>7. CASE ClickSignIn /\ pc' = "recovered" /\ Go(SignInPage)
  <2>1. pc = "signin"
    BY <1>7 DEF ClickSignIn
  <2> QED
    BY <1>4, <1>7, <2>1 DEF AtRest, Inspected
<1>8. CASE Settled /\ See(index, outputs) /\ Recovered /\ UNCHANGED <<loads, loading>>
  <2>1. observation'.done = Reached(index, outputs)
    BY <1>8 DEF See
  <2> QED
    BY <1>3, <1>8, <2>1
<1> QED
  BY <1>5, <1>6, <1>7, <1>8 DEF Recover

LEMMA RestoreStep ==
    ASSUME IInv, BankInv, ScriptedRestore
    PROVE  BankInv'
<1>1. /\ pc = "operator" /\ operator = "scripted" /\ Go(SearchPage)
      /\ UNCHANGED <<capability, pc, index, resumed, observation, result, outputs>>
      /\ UNCHANGED <<operator, wanted, bank, page, shown, typed, value>>
  BY DEF ScriptedRestore, vars, local, given
<1>2. /\ SearchPage \in Documents /\ SearchPage.ask.form.member = None
      /\ SearchPage.frame = "workspace"
  BY DEF Documents, SearchPage, Ask
<1>3. /\ Serving' /\ Displayed' /\ Noticed'
      /\ \A who : None \in who /\ About(who) => About(who)'
  BY <1>1, <1>2, Going DEF BankInv
<1>4. ~Taken /\ ~Taken' /\ Trusted' = Trusted /\ None \in Trusted
  BY <1>1 DEF Taken, Trusted
<1>5. Rested' /\ Handing'
  BY <1>1, <1>4 DEF Rested, AtRest, Inspected, Handing
<1>6. About(Trusted)
  BY <1>1, <1>4 DEF BankInv, Faithful
<1> DEFINE who == {None, wanted}
<1>7. who = Trusted /\ who' = Trusted' /\ None \in who
  BY <1>1 DEF Trusted
<1>8. who' = who /\ About(who)
  BY <1>1, <1>6, <1>7
<1> HIDE DEF who
<1>9. ASSUME NEW w, w = who, w = Trusted' PROVE About(w)'
  BY <1>3, <1>7, <1>8, <1>9
<1>10. About(Trusted)'
  BY <1>4, <1>7, <1>9
<1>11. Faithful' /\ ReadLast'
  BY <1>1, <1>4, <1>10 DEF BankInv, Faithful, ReadLast
<1> QED
  BY <1>1, <1>3, <1>5, <1>11 DEF BankInv

LEMMA HumanStep ==
    ASSUME IInv, BankInv, HumanActs
    PROVE  BankInv'
<1>1. /\ pc = "operator" /\ operator = "human"
      /\ UNCHANGED <<capability, pc, index, resumed, observation, result, outputs>>
      /\ UNCHANGED <<operator, wanted, left, bank, page, shown, value>>
  BY DEF HumanActs, vars, local, given
<1>2. UNCHANGED <<served, pending, authenticated, tenant>>
  BY <1>1 DEF bank
<1>3. ~resumed
  BY <1>1 DEF IInv, Progress
<1>4. ~Taken /\ ~Taken' /\ Trusted' = Trusted
  BY <1>1, <1>3 DEF BankInv, Handing, Taken, Trusted
<1>5. Rested' /\ Handing' /\ Faithful' /\ ReadLast'
  BY <1>1, <1>3, <1>4 DEF BankInv, Rested, AtRest, Inspected, Handing, Faithful, ReadLast
<1>6. Serving' /\ Displayed' /\ Noticed'
  <2>1. CASE /\ page["workspace"] = "search" /\ typed' \in Enquiries
             /\ UNCHANGED <<loads, loading>>
    <3>1. Fetching' = Fetching /\ Answers' = Answers
      BY <1>2, <2>1 DEF Fetching, Answers
    <3>2. \A frames : Sent(frames)' = Sent(frames)
      BY <3>1 DEF Sent
    <3> QED
      BY <1>1, <1>2, <2>1, <3>1, <3>2, BankAssumption
      DEF BankInv, Serving, Displayed, Noticed
  <2>2. CASE /\ \/ Go(SearchPage) \/ Go(Find(typed)) \/ Go(Open(shown))
                \/ Go(NewAccount(shown)) \/ Go(Acknowledge) \/ Go(SignInPage)
             /\ UNCHANGED typed
    <3>1. shown \in Persons /\ typed \in Persons
      BY DEF BankInv, Displayed, Persons
    <3> DEFINE clicked == {SearchPage, Find(typed), Open(shown), NewAccount(shown), Acknowledge,
                           SignInPage}
    <3>2. \A d \in clicked : d \in Documents /\ d.frame \in {"top", "workspace"}
      BY <3>1 DEF Documents, SearchPage, Find, Open, NewAccount, Acknowledge, SignInPage, Ask
    <3>3. PICK d \in clicked : Go(d)
      BY <2>2
    <3>4. d \in Documents /\ d.frame \in {"top", "workspace"}
      BY <3>2
    <3>5. UNCHANGED <<bank, page, shown, typed>>
      BY <1>1, <2>2
    <3> QED
      BY <3>3, <3>4, <3>5, Going DEF BankInv
  <2> QED
    BY <2>1, <2>2 DEF HumanActs
<1> QED
  BY <1>1, <1>5, <1>6 DEF BankInv

\* The browser and the bank are about persons, and those are what Meant says.
LEMMA MeantFacts ==
    ASSUME Serving, Displayed
    PROVE  Meant \subseteq Persons /\ \A who : Meant \subseteq who => About(who)
<1>1. typed \in Persons /\ shown \in Persons
  BY DEF Displayed, Persons
<1>2. \A d \in Fetching : d.ask.form.member \in Persons
  <2>1. \A d \in loads : d.ask.form.member \in Persons
    BY DocumentFacts DEF Serving, IsDocument
  <2>2. loading # None => loading.ask.form.member \in Persons
    BY LoadingFacts DEF IsDocument
  <2> QED
    BY <2>1, <2>2 DEF Fetching
<1>3. ASSUME pending # None PROVE pending.form.member \in Persons
  <2>1. PICK d \in Documents : pending = Kept(d.ask)
    BY <1>3 DEF Serving
  <2>2. d.ask.form.member \in Persons
    BY DocumentFacts DEF IsDocument
  <2> QED
    BY <2>1, <2>2 DEF Kept
<1>4. Answers => served[Tab].answer.member \in Persons
  BY DEF Serving, Answers, Telling, Persons, ToTab, Site!Idle
<1>5. /\ Meant = {typed, shown}
                 \cup {d.ask.form.member : d \in loads}
                 \cup (IF loading = None THEN {} ELSE {loading.ask.form.member})
                 \cup (IF pending = None THEN {} ELSE {pending.form.member})
                 \cup (IF Answers THEN {served[Tab].answer.member} ELSE {})
      /\ Fetching = loads \cup (IF loading = None THEN {} ELSE {loading})
  BY DEF Meant, Fetching, Answers, Site!At
<1>6. Meant \subseteq Persons
  BY <1>1, <1>2, <1>3, <1>4, <1>5
<1>7. ASSUME NEW who, Meant \subseteq who PROVE About(who)
  BY <1>5, <1>7 DEF About
<1> QED
  BY <1>6, <1>7

LEMMA HandedFacts ==
    ASSUME Serving, Displayed, FailedStep \in Nat
    PROVE  /\ Handed.step = FailedStep /\ Handed.settled = Settled
           /\ Handed.others = Meant \ {None, wanted}
           /\ Handed.server = (result = "server") /\ Handed # None
<1>1. Meant \ {None, wanted} \in SUBSET Members
  BY MeantFacts DEF Persons
<1>2. Settled \in BOOLEAN /\ (result = "server") \in BOOLEAN
  BY DEF Settled
<1>3. Handed \in Handover
  BY <1>1, <1>2 DEF Handed, Handover
<1> QED
  BY <1>3, BankAssumption DEF Handed

LEMMA BackStep ==
    ASSUME IInv, BankInv, GetBack
    PROVE  BankInv'
<1>1. /\ pc = "operator" /\ pc' = "recheck" /\ (operator = "human" \/ Settled)
      /\ UNCHANGED <<capability, index, resumed, result, outputs>>
      /\ UNCHANGED <<bank, page, shown, typed, loads, loading, operator, wanted, value>>
      /\ observation'.done = Reached(FailedStep, {})
      /\ left' = Handed
  BY DEF GetBack, HandBack, run, browser, given, See, Goto
<1>2. Serving' /\ Displayed' /\ Noticed' /\ Settled' = Settled /\ \A who : About(who)' = About(who)
  BY <1>1, Staying DEF BankInv
<1>3. FailedStep' = FailedStep /\ Trusted' = Trusted
  BY <1>1 DEF FailedStep, Trusted
<1>4. /\ ~resumed /\ ~Taken /\ result \in Results /\ FailedStep \in Nat
      /\ index = 6 => FailedStep = 6
  <2>1. ~resumed /\ result \in HardKinds /\ index \in 1 .. N + 1 /\ result \in Results
    BY <1>1 DEF IInv, Progress, TypeOK, N
  <2>2. result = "invalid_input" => index = 1
    BY <1>1, <2>1 DEF IInv, Progress
  <2>3. N = 6
    BY LookUpFacts DEF BankInv, N
  <2> QED
    BY <1>1, <2>1, <2>2, <2>3 DEF BankInv, Handing, Taken, FailedStep
<1>5. Meant \subseteq Persons /\ \A who : Meant \subseteq who => About(who)
  BY MeantFacts DEF BankInv
<1>6. /\ left'.step = FailedStep /\ left'.settled = Settled
      /\ left'.others = Meant \ {None, wanted} /\ left' # None
  BY <1>1, <1>4, HandedFacts DEF BankInv
<1>7. Rested'
  <2>1. (Taken' => left'.settled) => Settled
    BY <1>1, <1>6 DEF Taken
  <2> QED
    BY <1>1, <1>2, <2>1 DEF Rested, Inspected
<1>8. Handing'
  BY <1>1, <1>3, <1>4, <1>6 DEF Handing, Taken
<1>9. Faithful'
  <2>1. CASE operator # "human"
    <3>1. About(Trusted)'
      BY <1>1, <1>2, <1>3, <1>4, <2>1 DEF BankInv, Faithful
    <3> QED
      BY <1>1, <2>1, <3>1 DEF Faithful, Taken
  <2>2. CASE operator = "human"
    <3>1. About(Trusted \cup (Meant \ {None, wanted}))
      BY <1>5 DEF Trusted
    <3>2. About(Trusted \cup left.others)'
      BY <1>2, <1>3, <1>6, <3>1
    <3>3. Taken' /\ ~resumed'
      BY <1>1, <1>4, <1>6, <2>2 DEF Taken
    <3> QED
      BY <3>2, <3>3 DEF Faithful
  <2> QED
    BY <2>1, <2>2
<1>10. ReadLast'
  <2>1. value \in Trusted
    BY <1>4 DEF BankInv, ReadLast
  <2>2. index = 6 => ~observation'.done
    BY <1>1, <1>4, LastReached
  <2> QED
    BY <1>1, <1>3, <2>1, <2>2 DEF BankInv, ReadLast
<1> QED
  BY <1>1, <1>2, <1>7, <1>8, <1>9, <1>10 DEF BankInv

\* Nothing moves.
LEMMA BankStutter ==
    ASSUME BankInv, UNCHANGED <<vars, world>>
    PROVE  BankInv'
<1>1. /\ UNCHANGED <<capability, pc, index, resumed, observation, result, outputs>>
      /\ UNCHANGED <<bank, page, shown, typed, loads, loading, operator, wanted, left, value>>
  BY DEF vars, local, world, browser, given
<1>2. Serving' /\ Displayed' /\ Noticed' /\ Settled' = Settled /\ \A who : About(who)' = About(who)
  BY <1>1, Staying DEF BankInv
<1>3. Rested' /\ Taken' = Taken /\ Typed' = Typed /\ FailedStep' = FailedStep /\ Trusted' = Trusted
  BY <1>1, <1>2 DEF BankInv, Rested, Taken, Typed, FailedStep, Trusted
<1>4. Handing'
  BY <1>1, <1>3 DEF BankInv, Handing
<1>5. About(Trusted)' = About(Trusted)
      /\ About(Trusted \cup left.others)' = About(Trusted \cup left.others)
  BY <1>1, <1>2, <1>3
<1>6. Faithful'
  BY <1>1, <1>3, <1>5 DEF BankInv, Faithful
<1>7. ReadLast'
  BY <1>1, <1>3 DEF BankInv, ReadLast
<1> QED
  BY <1>1, <1>2, <1>3, <1>4, <1>6, <1>7 DEF BankInv

\* launch() has opened the login page; nothing has been asked of the bank.
LEMMA BankStart ==
    ASSUME BankInit
    PROVE  BankInv
<1>1. /\ capability = LookUp /\ pc = "begin" /\ index = 1 /\ ~resumed
      /\ outputs = {} /\ ~observation.done
  BY BankAssumption DEF BankInit, Init, Unseen
<1>2. /\ wanted \in Persons /\ pending = None /\ served = ToTab(Site!Idle)
      /\ page = [Blank EXCEPT !["top"] = "login"]
      /\ shown = None /\ typed = None /\ loads = {} /\ loading = None
      /\ value = None /\ left = None
  BY DEF BankInit, ToTab
<1>3. Fetching = {} /\ ~Answers
  BY <1>2 DEF Fetching, Answers, ToTab, Site!Idle
<1>4. Serving
  BY <1>2 DEF Serving
<1>5. page["workspace"] = "blank" /\ page \in [Frames -> Site!Screens \cup {"blank"}]
  BY <1>2 DEF Blank, Frames, Site!Screens
<1>6. Displayed
  BY <1>2, <1>5 DEF Displayed, Persons, Personal
<1>7. Noticed /\ About(Trusted)
  BY <1>2, <1>3 DEF Noticed, Sent, About, Trusted
<1>8. Rested /\ Handing /\ Faithful /\ ReadLast
  BY <1>1, <1>2, <1>7 DEF Rested, Settled, Handing, Faithful, Taken, ReadLast, Trusted
<1> QED
  BY <1>1, <1>2, <1>4, <1>6, <1>7, <1>8 DEF BankInv

\* What a run at the bank does is what a run may do, or is not done by it.
LEMMA BankMoves == BankNext => [Next]_vars
<1> SUFFICES ASSUME BankNext PROVE [Next]_vars
  OBVIOUS
<1>1. CASE Visit \/ ScriptedRestore \/ HumanActs
  BY <1>1 DEF Visit, ScriptedRestore, HumanActs, vars
<1>2. CASE Quietly \/ Locate \/ Perform
  BY <1>2 DEF Quietly, Locate, Perform, Next, Execute
<1>3. CASE Inspect \/ Recover \/ GetBack
  BY <1>3 DEF Inspect, Recover, GetBack, Next, Execute
<1> QED
  BY <1>1, <1>2, <1>3 DEF BankNext

LEMMA BankInductive == IInv /\ BankInv /\ [BankNext]_<<vars, world>> => BankInv'
<1>1. IInv /\ BankInv /\ BankNext => BankInv'
  BY VisitStep, QuietStep, LocateStep, PerformStep, InspectStep, RecoverStep, RestoreStep,
     HumanStep, BackStep DEF BankNext
<1>2. BankInv /\ UNCHANGED <<vars, world>> => BankInv'
  BY BankStutter
<1> QED
  BY <1>1, <1>2

\* A run at the bank, whatever the bank, its faults and the operator do, is
\* one of the runs of the executor: what is proved of those holds of it.
THEOREM BankRunsAreRuns == BankSpec => Spec
<1>1. BankInit => Init
  BY DEF BankInit
<1>2. [BankNext]_<<vars, world>> => [Next]_vars
  BY BankMoves
<1> QED
  BY <1>1, <1>2, PTL DEF BankSpec, Spec

\* Whoever the form, the requests of the browser, the bank and the page are
\* about is the member asked for, or one that a person's handback left there.
THEOREM BankInvariant == BankSpec => [](IInv /\ BankInv)
<1>1. BankInit => BankInv
  BY BankStart
<1>2. BankSpec => []IInv
  BY BankRunsAreRuns, Invariant, PTL
<1> QED
  BY <1>1, <1>2, BankInductive, PTL DEF BankSpec

\* The balance that a success gives is that of the member asked for, unless
\* the person of the handoff left the browser about the other one: on its
\* page, or on the way to it.
THEOREM RequestedBalance == BankSpec => []SuccessIsTheRequestedBalance
<1>1. IInv /\ BankInv => SuccessIsTheRequestedBalance
  <2> SUFFICES ASSUME IInv, BankInv, result = "success"
               PROVE  /\ value \in Members \ Restricted
                      /\ value # wanted =>
                             /\ operator = "human" /\ left # None
                             /\ value \in left.others
                             /\ left.settled => left.step >= 3
    BY DEF SuccessIsTheRequestedBalance
  <2>1. index = 7
    BY LookUpFacts DEF IInv, Progress, BankInv, N
  <2>2. value # None /\ value \in (Members \ Restricted) \cup {None}
    BY <2>1 DEF BankInv, ReadLast
  <2>3. value = wanted \/ (Taken /\ value \in left.others /\ (left.settled => left.step >= 3))
    BY <2>2 DEF BankInv, ReadLast, Trusted
  <2> QED
    BY <2>2, <2>3 DEF Taken
<1> QED
  BY <1>1, BankInvariant, PTL

-----------------------------------------------------------------------------
(* The demos: which fault meets which document of which step               *)

Troubles == {"session_expired", "unexpected_interstitial", "server_error_500",
             "permission_denied", "record_not_found"}

\* No document to come meets a fault; none that asks for an operation has.
Calm  == \A k \in Troubles : faults[k] = 0
Ahead == \A k \in Troubles \ {"session_expired"} : faults[k] = launched[k]

\* Only d is on its way.
OnItsWay(d) == \/ loads = {d} /\ loading = None
               \/ loads = {} /\ loading = d
Told(screen, member) ==
    served[Tab].answer.screen = screen /\ served[Tab].answer.member = member

Entered == authenticated /\ tenant = "alpha" /\ faults["session_expired"] = 0
           /\ page["top"] = "shell"
Framed == Entered /\ page["navigation"] = "frame" /\ page["content"] = "frame"

\* The page of a run that no fault waits for any more.
Steady(screen, member) ==
    Framed /\ Calm /\ pending = None /\ page["workspace"] = screen /\ shown = member

\* The operation d was asked for on that page.
Asked(d, screen, member, answer) ==
    /\ Steady(screen, member) /\ OnItsWay(d)
    /\ Answers => Told(answer.screen, answer.member)

SearchAnswer == [screen |-> "search", member |-> None]
FindAnswer == IF wanted = None THEN [screen |-> "not_found", member |-> None]
              ELSE IF wanted \in Restricted THEN [screen |-> "denied", member |-> None]
              ELSE [screen |-> "results", member |-> wanted]
OpenAnswer == [screen |-> "detail", member |-> wanted]

-----------------------------------------------------------------------------
(* Up to the sign-in                                                       *)

TopOnly(screen) == page = [Blank EXCEPT !["top"] = screen]

Opened == Settled /\ TopOnly("login") /\ pending = None /\ shown = None
          /\ Ahead /\ faults["session_expired"] = launched["session_expired"]

\* The session expired as the form was sent, again if it had before.
Expired(again) ==
    /\ launched["session_expired"] > 0 /\ Ahead
    /\ faults["session_expired"] < launched["session_expired"]
    /\ again => launched["session_expired"] > 1

Refused(again) == Settled /\ TopOnly("expired") /\ pending = None /\ shown = None /\ Expired(again)

\* The form is on its way.
SigningIn(again) ==
    /\ TopOnly(IF again THEN "expired" ELSE "login") /\ OnItsWay(SignInPage)
    /\ pending = None /\ shown = None /\ Ahead
    /\ again => launched["session_expired"] > 0
    /\ IF Answers
       THEN \/ Told("shell", None) /\ authenticated /\ tenant = "alpha"
               /\ faults["session_expired"] = 0
            \/ Told("expired", None) /\ Expired(again)
       ELSE /\ IF again THEN Expired(FALSE)
                        ELSE faults["session_expired"] = launched["session_expired"]
            /\ served[Tab].stage = "routed" => faults["session_expired"] = 0

\* No operation is answered by a fault in its place.
Mild == /\ launched["server_error_500"] = 0 /\ launched["permission_denied"] = 0
        /\ launched["record_not_found"] = 0

\* How the search page may come back.
Outcome(screen) ==
    \/ /\ screen = "notice" /\ pending = Kept(SearchPage.ask)
       /\ launched["unexpected_interstitial"] > 0
       /\ faults["unexpected_interstitial"] = launched["unexpected_interstitial"] - 1
    \/ /\ pending = None
       /\ \/ screen = "server_error" /\ launched["server_error_500"] > 0 /\ Calm
          \/ screen = "denied" /\ launched["permission_denied"] > 0
          \/ screen = "not_found" /\ launched["record_not_found"] > 0
          \/ screen = "search" /\ Calm /\ Mild

Coming == {Inner("navigation"), Inner("content"), SearchPage}

\* The answer to the search page is still to come; or this is what came.
Awaited == \/ Inner("content") \in Fetching
           \/ SearchPage \in Fetching /\ ~(Answers /\ loading = SearchPage)
Came(screen) == screen = IF SearchPage \in Fetching THEN served[Tab].answer.screen
                                                    ELSE page["workspace"]
Answer == {"notice", "server_error", "denied", "not_found", "search"}

\* The frames of the shell are filled.
Filling ==
    /\ Entered /\ shown = None
    /\ loads \subseteq Coming /\ loading \in (Coming \cup {None}) \ loads
    /\ page["navigation"] = IF Inner("navigation") \in Fetching THEN "blank" ELSE "frame"
    /\ page["content"] = IF Inner("content") \in Fetching THEN "blank" ELSE "frame"
    /\ Inner("content") \in Fetching \/ SearchPage \in Fetching => page["workspace"] = "blank"
    /\ Inner("content") \in Fetching => SearchPage \notin Fetching
    /\ Answers /\ loading # SearchPage => Told("frame", None)
    /\ IF Awaited THEN pending = None /\ Ahead
                  ELSE \E screen \in Answer : Came(screen) /\ Outcome(screen)

\* The notice is acknowledged.
Acknowledging ==
    /\ Framed /\ shown = None /\ OnItsWay(Acknowledge) /\ page["workspace"] = "notice"
    /\ launched["unexpected_interstitial"] > 0
    /\ faults["unexpected_interstitial"] = launched["unexpected_interstitial"] - 1
    /\ IF Answers THEN pending = None /\ Told("search", None)
                  ELSE pending = Kept(SearchPage.ask)
Acknowledged ==
    /\ Framed /\ shown = None /\ Settled /\ page["workspace"] = "search" /\ pending = None
    /\ launched["unexpected_interstitial"] > 0
    /\ faults["unexpected_interstitial"] = launched["unexpected_interstitial"] - 1

Filled(screen) == Filling /\ Settled /\ page["workspace"] = screen

\* No step's action has met more than one trouble.
Documented == launched["session_expired"] <= 1 /\ launched["unexpected_interstitial"] <= 1

AtSearch  == Settled /\ Steady("search", None)
AtResults == Settled /\ Steady("results", wanted)
AtDetail  == Settled /\ Steady("detail", wanted)

ToUse == {"decide", "resolve", "act"}
InRecovery == {"dismiss", "username", "signin", "recovered"}
Over == {"returned", "ended"}

FirstStep ==
    /\ pc \in ToUse \cup {"begin", "look", "checkpoint"} => Opened
    /\ pc \notin InRecovery
    /\ pc \in Over => result \in Uncertain

SecondStep ==
    /\ pc \in ToUse => Opened
    /\ pc = "look" => SigningIn(FALSE) \/ Refused(FALSE) \/ Filling
    /\ pc = "dismiss" => Filled("notice")
    /\ pc \in {"username", "signin"} => Refused(FALSE)
    /\ pc = "recovered" => \/ SigningIn(TRUE) \/ Refused(TRUE)
                           \/ Filling /\ launched["session_expired"] > 0
                           \/ Acknowledging \/ Acknowledged
    /\ pc = "checkpoint" /\ Documented => AtSearch /\ Mild
    /\ pc \in Over =>
           \/ result \in Uncertain
           \/ result = "server" /\ launched["server_error_500"] > 0 /\ Filled("server_error")
           \/ result = "business" /\ (launched["permission_denied"] > 0
                                      \/ launched["record_not_found"] > 0)
           \/ result = "checkpoint" /\ ~Documented
    /\ pc = "operator" /\ result = "server" /\ operator = "scripted" =>
           launched["server_error_500"] > 0 /\ Filled("server_error")

-----------------------------------------------------------------------------
(* From the search page on                                                 *)

Found == wanted \in Members \ Restricted

Searching == Asked(Find(wanted), "search", None, FindAnswer)
Searched  == Settled /\ Steady(FindAnswer.screen, FindAnswer.member)
Opening   == Asked(Open(wanted), "results", wanted, OpenAnswer)

ThirdStep  == /\ pc \in ToUse \cup {"begin", "look", "checkpoint"} => AtSearch
              /\ pc \in {"look", "checkpoint"} => typed = wanted
FourthStep == /\ pc \in ToUse => AtSearch /\ typed = wanted
              /\ pc = "look" => Searching \/ Searched
              /\ pc = "checkpoint" => Found /\ AtResults
FifthStep  == /\ Found
              /\ pc \in ToUse => AtResults
              /\ pc = "look" => Opening \/ AtDetail
              /\ pc = "checkpoint" => AtDetail
SixthStep  == /\ Found
              /\ pc \in ToUse \cup {"look", "checkpoint"} => AtDetail
              /\ pc \in {"look", "checkpoint"} => value = wanted
LastStep   == Found /\ pc \in Over \cup {"decide", "operator", "raised"}

Later ==
    /\ index = 3 => ThirdStep
    /\ index = 4 => FourthStep
    /\ index = 5 => FifthStep
    /\ index = 6 => SixthStep
    /\ index = 7 => LastStep
    /\ pc \notin InRecovery /\ (pc = "begin" => index = 3)
    /\ pc \in Over => result \in Uncertain \cup {Expected}

-----------------------------------------------------------------------------
(* The handoff of a server error                                           *)

FromServer == operator = "scripted" /\ left # None /\ left.server /\ left.step = 2

ReSearching == Asked(SearchPage, "server_error", None, SearchAnswer)

Restoring ==
    /\ pc = "recheck" => left # None
    /\ left # None /\ ~resumed =>
           /\ pc \in {"operator", "recheck", "ended", "raised"}
           /\ left.step = FailedStep /\ (left.server <=> result = "server")
           /\ FromServer =>
                  /\ pc = "operator" => ReSearching \/ AtSearch
                  /\ pc = "recheck" => AtSearch

-----------------------------------------------------------------------------
Posted == /\ launched \in FaultPlans /\ faults \in [Site!Kinds -> Nat]
          /\ \A k \in Troubles : faults[k] <= launched[k]

\* What the policy and the checkpoint were told.
Observed == /\ pc \in ToUse \cup {"checkpoint"} =>
                   observation.ready /\ observation.site = "safe"
            /\ pc = "checkpoint" => observation.done = Reached(index, outputs)
            /\ pc \in InRecovery \cup {"checkpoint"} /\ index = 6 /\ value # None => 6 \in outputs

Unhanded == left = None /\ ~resumed

\* The runs whose end the demos tell, from the search page on.
Demonstrated == /\ wanted \notin Alarming /\ index >= 3
                /\ \/ Unhanded /\ Documented
                   \/ resumed /\ FromServer

DemoInv ==
    /\ options \in Calls /\ Posted /\ Observed
    /\ Unhanded /\ index = 1 => FirstStep
    /\ Unhanded /\ index = 2 => SecondStep
    /\ Demonstrated => Later
    /\ left = None /\ Documented /\ index >= 3 => Mild
    /\ left = None => ~resumed
    /\ resumed /\ FromServer => index >= 3
    /\ Restoring

-----------------------------------------------------------------------------
(* What the bank does with each document                                   *)

LEMMA OneTrouble ==
    ASSUME Posted
    PROVE  /\ \A k \in Troubles : /\ launched[k] \in Nat /\ faults[k] \in Nat
                                 /\ faults[k] <= launched[k]
           /\ \A k, l \in Troubles : launched[k] > 0 /\ launched[l] > 0 => k = l
           /\ launched["server_error_500"] <= 1
<1>1. Troubles \subseteq Site!Kinds
  BY DEF Troubles, Site!Kinds
<1> QED
  BY <1>1, DemoAssumption DEF Posted

SameSession == UNCHANGED <<authenticated, tenant, pending, faults>>
Replies(screen, member) == Answers' /\ Told(screen, member)'

\* What an operation answers when nothing comes in its way.
Reply(ask) ==
    IF ask.action = "search" /\ ask.method = "GET" THEN SearchAnswer
    ELSE IF ask.form.member = None THEN [screen |-> "not_found", member |-> None]
    ELSE IF ask.form.member \in Restricted THEN [screen |-> "denied", member |-> None]
    ELSE [screen |-> IF ask.action = "search" THEN "results" ELSE "detail",
          member |-> ask.form.member]

LEMMA AnswerTold ==
    ASSUME NEW screen, NEW member, Serving, Site!Answer(Tab, screen, member, 0)
    PROVE  Replies(screen, member)
<1>1. served = ToTab(served[Tab])
  BY DEF Serving, ToTab
<1> QED
  BY <1>1 DEF Site!Answer, ToTab, Replies, Answers, Told

\* The one document that is being served.
LEMMA BeingServed ==
    ASSUME Serving, Answered
    PROVE  /\ loading # None /\ ~Answers /\ UNCHANGED browser
           /\ IsDocument(loading) /\ served[Tab].request = loading.ask
           /\ served[Tab].stage \in {"routed", "reading"}
           /\ served[Tab].stage = "reading" => loading.ask.action \notin Shell
           /\ "alpha" # None
<1>1. loading # None /\ ~Answers /\ UNCHANGED browser
  BY BankAnswers
<1>2. served[Tab].stage \in {"routed", "reading"} /\ served[Tab].request = loading.ask
      /\ (served[Tab].stage = "reading" => loading.ask.action \notin Shell)
  BY <1>1 DEF Serving, ToTab, Answers
<1> QED
  BY <1>1, <1>2, LoadingFacts, BankAssumption

\* The form signs in, whatever was typed; a frame of the shell is a frame.
LEMMA ShellAnswered ==
    ASSUME Serving, Answered, loading.ask.action \in Shell,
           loading.ask.action = "frame" => authenticated /\ tenant = "alpha"
    PROVE  /\ served[Tab].stage = "routed" /\ UNCHANGED faults
           /\ IF loading.ask.action = "login"
              THEN /\ Replies("shell", None) /\ pending' = None
                   /\ authenticated' /\ tenant' = "alpha"
              ELSE Replies("frame", None) /\ SameSession
<1>1. /\ served[Tab].stage = "routed" /\ served[Tab].request = loading.ask
      /\ loading.ask.tenant = "alpha" /\ "alpha" # None
      /\ loading.ask.action = "login" => loading.ask.method = "POST"
  BY BeingServed DEF IsDocument
<1>2. CASE loading.ask.action = "login"
  <2>1. Site!SignIn(Tab)
    BY <1>1, <1>2 DEF Answered, Site!Refuse, Site!ReadBody, Site!Blocked, Site!Dismiss,
         Site!Interrupt, Site!Disturb, Site!Handle, Site!At, Site!Of
  <2> QED
    BY <1>1, <1>2, <2>1, AnswerTold DEF Site!SignIn, Site!Show, Site!Of
<1>3. CASE loading.ask.action = "frame"
  <2>1. Site!SignedIn(Tab)
    BY <1>1, <1>3 DEF Site!SignedIn, Site!Of
  <2>2. Site!Refuse(Tab)
    BY <1>1, <1>3 DEF Answered, Site!SignIn, Site!ReadBody, Site!Blocked, Site!Dismiss,
         Site!Interrupt, Site!Disturb, Site!Handle, Site!At, Site!Of
  <2>3. Site!Show(Tab, "frame") /\ UNCHANGED faults /\ SameSession
    BY <1>1, <1>3, <2>1, <2>2 DEF Site!Refuse, Site!Of, Site!session, SameSession
  <2> QED
    BY <1>1, <1>3, <2>3, AnswerTold DEF Site!Show
<1> QED
  BY <1>2, <1>3 DEF Shell

\* An operation of a signed-in session is read first.
LEMMA FirstRead ==
    ASSUME Serving, Answered, loading.ask.action \notin Shell,
           authenticated, tenant = "alpha"
    PROVE  IF served[Tab].stage = "routed"
           THEN /\ SameSession /\ ~Answers' /\ served'[Tab].stage = "reading"
           ELSE \/ Site!Blocked(Tab) \/ Site!Dismiss(Tab) \/ Site!Interrupt(Tab)
                \/ Site!Disturb(Tab) \/ Site!Handle(Tab)
<1>1. /\ served[Tab].stage \in {"routed", "reading"} /\ served[Tab].request = loading.ask
      /\ loading.ask.tenant = "alpha" /\ "alpha" # None
  BY BeingServed DEF IsDocument
<1>2. Site!SignedIn(Tab)
  BY <1>1 DEF Site!SignedIn, Site!Of
<1>3. CASE served[Tab].stage = "routed"
  <2>1. Site!ReadBody(Tab)
    BY <1>1, <1>2, <1>3 DEF Answered, Shell, Site!SignIn, Site!Refuse, Site!Blocked, Site!Dismiss,
         Site!Interrupt, Site!Disturb, Site!Handle, Site!At, Site!Of
  <2>2. served' = [served EXCEPT ![Tab].stage = "reading"] /\ SameSession
    BY <2>1 DEF Site!ReadBody, Site!Pass, Site!session, SameSession
  <2>3. served = ToTab([stage |-> "routed", request |-> loading.ask])
    BY <1>3, BeingServed DEF Serving, ToTab
  <2>4. served'[Tab].stage = "reading"
    BY <2>2, <2>3 DEF ToTab
  <2> QED
    BY <1>3, <2>2, <2>4 DEF Answers
<1>4. CASE served[Tab].stage = "reading"
  BY <1>4 DEF Answered, Site!SignIn, Site!Refuse, Site!ReadBody, Site!At
<1> QED
  BY <1>1, <1>3, <1>4

\* An operation that is carried out.
LEMMA CarriedOut ==
    ASSUME NEW op, op.action \in {"search", "detail"}, op.form.member \in Persons,
           Serving, Site!Carry(Tab, op)
    PROVE  UNCHANGED faults /\ Replies(Reply(op).screen, Reply(op).member)
<1>1. Site!Browse(Tab, op) /\ UNCHANGED faults
  BY DEF Site!Carry, Site!Workflow, Site!Review, Site!Confirm, Site!Commit, Site!Confirming
<1>2. ~Site!Confirming(op) /\ ~Site!Repeats(op)
  BY DEF Site!Confirming, Site!Repeats
<1>3. Site!Subject(op) = op.form
  BY <1>2 DEF Site!Subject
<1>4. None \notin Members /\ Restricted \subseteq Members
  BY BankAssumption
<1>5. Site!Answer(Tab, Reply(op).screen, Reply(op).member, 0)
  BY <1>1, <1>2, <1>3, <1>4 DEF Site!Browse, Site!Show, Site!Allowed, Site!Concerns, Reply,
     SearchAnswer
<1> QED
  BY <1>1, <1>5, AnswerTold

\* An operation that nothing has been kept from: carried out, or answered by
\* the fault that is next.
Meets(kind, screen) ==
    /\ faults[kind] > 0 /\ faults' = [faults EXCEPT ![kind] = @ - 1]
    /\ Replies(screen, None) /\ pending' = None

LEMMA OperationAnswered ==
    ASSUME Serving, Answered, loading.ask.action \in {"search", "detail"},
           authenticated, tenant = "alpha", pending = None
    PROVE  /\ authenticated' /\ tenant' = "alpha"
           /\ \/ SameSession /\ ~Answers'
              \/ /\ pending' = Kept(loading.ask) /\ Replies("notice", None)
                 /\ faults["unexpected_interstitial"] > 0
                 /\ faults' = [faults EXCEPT !["unexpected_interstitial"] = @ - 1]
              \/ Meets("server_error_500", "server_error")
              \/ Meets("permission_denied", "denied")
              \/ Meets("record_not_found", "not_found")
              \/ /\ \A k \in Troubles \ {"session_expired"} : ~(faults[k] > 0)
                 /\ SameSession
                 /\ Replies(Reply(loading.ask).screen, Reply(loading.ask).member)
<1>1. /\ served[Tab].stage \in {"routed", "reading"} /\ served[Tab].request = loading.ask
      /\ loading.ask.form.member \in Persons
  BY BeingServed DEF IsDocument
<1>2. CASE served[Tab].stage = "routed"
  BY <1>2, FirstRead DEF Shell, SameSession
<1>3. CASE served[Tab].stage = "reading"
  <2>1. Site!Interrupt(Tab) \/ Site!Disturb(Tab) \/ Site!Handle(Tab)
    BY <1>3, FirstRead DEF Shell, Site!Blocked, Site!Dismiss
  <2>2. CASE Site!Interrupt(Tab)
    <3>1. Replies("notice", None)
      BY <2>2, AnswerTold DEF Site!Interrupt, Site!Show
    <3>2. pending' = Kept(loading.ask)
      BY <1>1, <2>2 DEF Site!Interrupt, Site!Operation, Site!Of, Kept
    <3> QED
      BY <2>2, <3>1, <3>2 DEF Site!Interrupt, Site!Active, Site!Consume
  <2>3. CASE Site!Disturb(Tab)
    <3>1. UNCHANGED <<authenticated, tenant, pending>>
      BY <2>3 DEF Site!Disturb
    <3>2. \A screen : Site!Show(Tab, screen) => Replies(screen, None)
      BY AnswerTold DEF Site!Show
    <3> QED
      BY <2>3, <3>1, <3>2 DEF Site!Disturb, Site!Active, Site!Consume, Meets
  <2>4. CASE Site!Handle(Tab)
    <3>0. PICK op : op = Kept(loading.ask)
      OBVIOUS
    <3>1. Site!Carry(Tab, op) /\ UNCHANGED <<tenant, authenticated, pending>>
      BY <1>1, <2>4, <3>0 DEF Site!Handle, Site!Operation, Site!Of, Kept
    <3>2. /\ op.action \in {"search", "detail"} /\ op.form.member \in Persons
          /\ Reply(op) = Reply(loading.ask)
      BY <1>1, <3>0 DEF Kept, Reply
    <3>3. UNCHANGED faults /\ Replies(Reply(loading.ask).screen, Reply(loading.ask).member)
      <4>1. UNCHANGED faults /\ Replies(Reply(op).screen, Reply(op).member)
        BY <3>1, <3>2, CarriedOut
      <4> QED
        BY <3>2, <4>1
    <3>4. \A k \in Troubles \ {"session_expired"} : ~(faults[k] > 0)
      BY <2>4 DEF Site!Handle, Site!Undisturbed, Site!Active, Troubles
    <3> QED
      BY <3>1, <3>3, <3>4 DEF SameSession
  <2> QED
    BY <2>1, <2>2, <2>3, <2>4
<1> QED
  BY <1>1, <1>2, <1>3

\* What a notice kept is carried out when it is acknowledged.
LEMMA AcknowledgeAnswered ==
    ASSUME Serving, Answered, loading = Acknowledge, authenticated, tenant = "alpha",
           pending = Kept(SearchPage.ask)
    PROVE  /\ UNCHANGED <<authenticated, tenant, faults>>
           /\ \/ SameSession /\ ~Answers'
              \/ pending' = None /\ Replies("search", None)
<1>1. /\ served[Tab].stage \in {"routed", "reading"} /\ served[Tab].request = loading.ask
      /\ loading.ask.action = "dismiss" /\ loading.ask.method = "POST"
  BY BeingServed DEF Acknowledge, Ask
<1>2. pending # None
  <2>1. Kept(SearchPage.ask) \in Site!Kept
    BY DEF Kept, SearchPage, Ask, Site!Kept, Site!Actions, Site!Form
  <2> QED
    BY <2>1, BankAssumption
<1>3. CASE served[Tab].stage = "routed"
  BY <1>1, <1>3, FirstRead DEF Shell, SameSession
<1>4. CASE served[Tab].stage = "reading"
  <2>1. Site!Dismiss(Tab)
    BY <1>1, <1>2, <1>4, FirstRead DEF Shell, Site!Blocked, Site!Interrupt, Site!Disturb,
       Site!Handle, Site!Dismisses, Site!Of
  <2>2. PICK op : op = pending
    OBVIOUS
  <2>3. /\ op.action \in {"search", "detail"} /\ op.form.member \in Persons
        /\ Reply(op) = SearchAnswer
    BY <2>2 DEF Kept, SearchPage, Ask, Reply, Persons
  <2>4. Site!Carry(Tab, op) /\ pending' = None /\ UNCHANGED <<tenant, authenticated>>
    BY <2>1, <2>2 DEF Site!Dismiss
  <2>5. UNCHANGED faults /\ Replies(Reply(op).screen, Reply(op).member)
    BY <2>3, <2>4, CarriedOut
  <2>6. Replies("search", None)
    BY <2>3, <2>5 DEF SearchAnswer
  <2> QED
    BY <2>4, <2>5, <2>6
<1> QED
  BY <1>1, <1>3, <1>4

\* A document is let in, or met by an expired session.
LEMMA FetchedOne ==
    ASSUME Serving, Fetch
    PROVE  \E d \in loads :
               /\ loading = None /\ loads' = loads \ {d} /\ loading' = d /\ d # None
               /\ UNCHANGED <<page, shown, typed, value, tenant>>
               /\ ~Answers
               /\ \/ /\ ~(faults["session_expired"] > 0) /\ SameSession /\ ~Answers'
                  \/ /\ faults["session_expired"] > 0
                     /\ faults' = [faults EXCEPT !["session_expired"] = @ - 1]
                     /\ ~authenticated' /\ pending' = None /\ Replies("expired", None)
<1>1. PICK d \in loads :
          /\ loading = None /\ loads' = loads \ {d} /\ loading' = d
          /\ Site!RouteTo(Tab) \/ Site!Expire(Tab)
          /\ UNCHANGED <<page, shown, typed, value>>
  BY DEF Fetch
<1>2. d \in Documents /\ d # None
  BY DocumentFacts DEF Serving, IsDocument
<1>3. ~Answers /\ served = ToTab(served[Tab])
  BY <1>1 DEF Serving, Answers, ToTab, Site!Idle
<1>4. CASE Site!RouteTo(Tab)
  <2>1. /\ ~(faults["session_expired"] > 0) /\ SameSession
        /\ \E request : served' = [served EXCEPT ![Tab] = [stage |-> "routed", request |-> request]]
    BY <1>4 DEF Site!RouteTo, Site!Active, Site!session, SameSession
  <2>2. ~Answers'
    BY <1>3, <2>1 DEF Answers, ToTab
  <2> QED
    BY <1>1, <1>2, <1>3, <1>4, <2>1, <2>2 DEF Site!RouteTo, Site!session
<1>5. CASE Site!Expire(Tab)
  <2>1. Site!Show(Tab, "expired")
    <3>1. \A ask \in {e.ask : e \in Documents} : ask.tenant # None
      <4> SUFFICES ASSUME NEW e \in Documents PROVE e.ask.tenant # None
        OBVIOUS
      <4>1. e.ask.tenant = "alpha"
        BY DocumentFacts DEF IsDocument
      <4> QED
        BY <4>1, BankAssumption
    <3> QED
      BY <1>5, <3>1 DEF Site!Expire
  <2> QED
    BY <1>1, <1>2, <1>3, <1>5, <2>1, AnswerTold DEF Site!Expire, Site!Active, Site!Consume, Site!Show
<1> QED
  BY <1>1, <1>4, <1>5

\* The page shows the answer.
LEMMA RenderedOne ==
    ASSUME Serving, Posted, Render
    PROVE  LET answer == served[Tab].answer
               gone == Inside(loading.frame)
           IN  /\ Answers /\ ~Answers' /\ loading # None /\ loading' = None
               /\ UNCHANGED <<authenticated, tenant, pending, value>>
               /\ \A k \in Troubles : faults'[k] = faults[k]
               /\ page' = [f \in Frames |-> IF f = loading.frame THEN answer.screen
                                            ELSE IF f \in gone THEN "blank" ELSE page[f]]
               /\ IF "workspace" \in gone THEN shown' = answer.member /\ typed' = None
                                          ELSE UNCHANGED <<shown, typed>>
               /\ loads' = {d \in loads : d.frame \notin gone}
                       \cup (IF loading.frame = "top" /\ answer.screen = "shell"
                             THEN {Inner("navigation"), Inner("content")} ELSE {})
                       \cup (IF loading.frame = "content" /\ answer.screen = "frame"
                             THEN {SearchPage} ELSE {})
               /\ Telling(answer)
<1>1. /\ Answers /\ loading' = None /\ served' = [served EXCEPT ![Tab] = Site!Idle]
      /\ UNCHANGED <<authenticated, tenant, pending, value>>
      /\ faults' = faults \/ faults' = [faults EXCEPT !["slow_load"] = @ - 1]
  BY DEF Render, Site!Leave, Site!At, Answers, Site!Consume
<1>2. loading # None
  BY <1>1 DEF Serving, Answers, ToTab, Site!Idle
<1>3. Telling(served[Tab].answer)
  BY <1>1, <1>2 DEF Serving, Answers, ToTab
<1>4. ~Answers'
  <2>1. served = ToTab(served[Tab])
    BY DEF Serving, ToTab
  <2> QED
    BY <1>1, <2>1 DEF ToTab, Answers, Site!Idle
<1>5. \A k \in Troubles : faults'[k] = faults[k]
  <2>1. "slow_load" \notin Troubles /\ DOMAIN faults = Site!Kinds /\ Troubles \subseteq Site!Kinds
    BY DEF Troubles, Site!Kinds, Posted
  <2> QED
    BY <1>1, <2>1
<1> QED
  BY <1>1, <1>2, <1>3, <1>4, <1>5 DEF Render

-----------------------------------------------------------------------------
(* What a visit of the browser does to a page on its way                   *)

VisitOf == Fetch \/ Answered \/ Render

\* Faults are used up one at a time.
LEMMA FaultsFall ==
    ASSUME Posted, VisitOf, UNCHANGED given
    PROVE  Posted'
<1>1. \/ UNCHANGED faults
      \/ \E k \in Site!Kinds : faults[k] > 0 /\ faults' = [faults EXCEPT ![k] = @ - 1]
  <2>1. CASE Fetch
    BY <2>1 DEF Fetch, Site!RouteTo, Site!Expire, Site!Consume, Site!Active, Site!session, Site!Kinds
  <2>2. CASE Render
    BY <2>2 DEF Render, Site!Leave, Site!Consume, Site!Active, Site!Kinds
  <2>3. ASSUME NEW op, Site!Carry(Tab, op)
        PROVE  \/ UNCHANGED faults
               \/ \E k \in Site!Kinds : faults[k] > 0 /\ faults' = [faults EXCEPT ![k] = @ - 1]
    BY <2>3 DEF Site!Carry, Site!Consume, Site!Active, Site!Kinds
  <2>4. CASE Site!Dismiss(Tab) \/ Site!Handle(Tab)
    BY <2>3, <2>4 DEF Site!Dismiss, Site!Handle
  <2>5. CASE \/ Site!SignIn(Tab) \/ Site!Refuse(Tab) \/ Site!ReadBody(Tab) \/ Site!Blocked(Tab)
    BY <2>5 DEF Site!SignIn, Site!Refuse, Site!ReadBody, Site!Blocked, Site!session
  <2>6. CASE Site!Interrupt(Tab) \/ Site!Disturb(Tab)
    BY <2>6 DEF Site!Interrupt, Site!Disturb, Site!Consume, Site!Active, Site!Kinds
  <2> QED
    BY <2>1, <2>2, <2>4, <2>5, <2>6 DEF VisitOf, Answered
<1>2. UNCHANGED launched
  BY DEF given
<1>3. launched \in [Site!Kinds -> Nat] /\ Troubles \subseteq Site!Kinds
  BY DemoAssumption DEF Posted, Troubles, Site!Kinds
<1>4. CASE UNCHANGED faults
  BY <1>2, <1>4 DEF Posted
<1>5. CASE \E k \in Site!Kinds : faults[k] > 0 /\ faults' = [faults EXCEPT ![k] = @ - 1]
  <2>1. PICK k \in Site!Kinds : faults[k] > 0 /\ faults' = [faults EXCEPT ![k] = @ - 1]
    BY <1>5
  <2>2. faults' \in [Site!Kinds -> Nat] /\ \A l \in Site!Kinds : faults'[l] <= faults[l]
    BY <2>1 DEF Posted
  <2>3. \A l \in Troubles : faults'[l] <= launched[l]
    BY <1>3, <2>2 DEF Posted
  <2> QED
    BY <1>2, <2>2, <2>3 DEF Posted
<1> QED
  BY <1>1, <1>4, <1>5

\* Which documents there are, and what they replace.
LEMMA FrameFacts ==
    /\ Inside("top") = Frames /\ Inside("content") = {"content", "workspace"}
    /\ Inside("workspace") = {"workspace"} /\ Inside("navigation") = {"navigation"}
    /\ Frames = {"top", "navigation", "content", "workspace"}
    /\ SignInPage.frame = "top" /\ Inner("navigation").frame = "navigation"
    /\ Inner("content").frame = "content"
    /\ \A d \in {SearchPage, Acknowledge} \cup {Find(m) : m \in Persons}
                \cup {Open(m) : m \in Persons} : d.frame = "workspace"
BY DEF Inside, Frames, SignInPage, Inner, SearchPage, Acknowledge, Find, Open

LEMMA AskFacts ==
    /\ SignInPage.ask.action = "login"
    /\ Inner("navigation").ask.action = "frame" /\ Inner("content").ask.action = "frame"
    /\ SearchPage.ask.action = "search" /\ Acknowledge.ask.action = "dismiss"
    /\ \A m : Find(m).ask.action = "search" /\ Open(m).ask.action = "detail"
    /\ Reply(SearchPage.ask) = SearchAnswer
BY DEF SignInPage, Inner, SearchPage, Acknowledge, Find, Open, Ask, Reply, SearchAnswer

\* The only document on its way is fetched, answered or shown.
LEMMA OneOnItsWay ==
    ASSUME Serving, VisitOf, NEW d \in Documents, OnItsWay(d)
    PROVE  \/ Fetch /\ loads = {d} /\ loads' = {} /\ loading' = d /\ ~Answers
           \/ Answered /\ loads = {} /\ loading = d /\ ~Answers /\ UNCHANGED browser
           \/ Render /\ loads = {} /\ loading = d /\ Answers
<1>1. d # None
  BY DocumentFacts DEF IsDocument
<1>2. CASE Fetch
  BY <1>1, <1>2, FetchedOne DEF OnItsWay
<1>3. CASE Answered
  BY <1>1, <1>3, BeingServed DEF OnItsWay
<1>4. CASE Render
  <2>1. Answers
    BY <1>4 DEF Render, Site!Leave, Site!At, Answers
  <2>2. loading # None
    BY <2>1 DEF Serving, Answers, ToTab, Site!Idle
  <2> QED
    BY <1>1, <1>4, <2>1, <2>2 DEF OnItsWay
<1> QED
  BY <1>2, <1>3, <1>4 DEF VisitOf

Workspace == {SearchPage, Acknowledge} \cup {Find(m) : m \in Persons}
             \cup {Open(m) : m \in Persons}

\* A page of the workspace leaves the other frames alone.
LEMMA WorkspaceShown ==
    ASSUME Serving, Displayed, Posted, Render, loads = {}, loading \in Workspace
    PROVE  /\ Settled'
           /\ UNCHANGED <<authenticated, tenant, pending, value>>
           /\ \A k \in Troubles : faults'[k] = faults[k]
           /\ page'["workspace"] = served[Tab].answer.screen
           /\ \A f \in Frames \ {"workspace"} : page'[f] = page[f]
           /\ shown' = served[Tab].answer.member
<1>1. loading.frame = "workspace"
  BY FrameFacts DEF Workspace
<1> QED
  BY <1>1, RenderedOne, FrameFacts DEF Settled

\* A page asked for, on a page that no fault waits for, comes as it should.
LEMMA AskedStep ==
    ASSUME Serving, Displayed, Posted, VisitOf, NEW d \in Workspace \ {Acknowledge},
           NEW screen, NEW member, Asked(d, screen, member, Reply(d.ask))
    PROVE  LET answer == Reply(d.ask)
           IN  \/ Asked(d, screen, member, answer)'
               \/ Settled' /\ Steady(answer.screen, answer.member)'
<1> DEFINE answer == Reply(d.ask)
<1>1. d \in Documents /\ d.ask.action \in {"search", "detail"} /\ d # None
  <2>1. d \in Documents
    BY DEF Workspace, Documents
  <2> QED
    <3>1. d.ask.action \in {"search", "detail"}
      <4>1. d = SearchPage \/ (\E m \in Persons : d = Find(m)) \/ \E m \in Persons : d = Open(m)
        BY DEF Workspace
      <4> QED
        BY <4>1, AskFacts
    <3>2. IsDocument(d)
      BY <2>1, DocumentFacts
    <3> QED
      BY <2>1, <3>1, <3>2 DEF IsDocument
<1>2. /\ authenticated /\ tenant = "alpha" /\ pending = None /\ Calm
      /\ OnItsWay(d) /\ faults["session_expired"] = 0
  BY DEF Asked, Steady, Framed, Entered
<1>3. answer = Reply(d.ask)
  OBVIOUS
<1> HIDE DEF answer
<1>4. CASE Fetch /\ loads = {d} /\ loads' = {} /\ loading' = d
  <2>1. SameSession /\ ~Answers' /\ UNCHANGED <<page, shown>>
    BY <1>2, <1>4, FetchedOne
  <2> QED
    BY <1>3, <1>4, <2>1 DEF Asked, Steady, Framed, Entered, Calm, OnItsWay, SameSession
<1>5. CASE Answered /\ loads = {} /\ loading = d /\ UNCHANGED browser
  <2>1. authenticated' /\ tenant' = "alpha"
    BY <1>1, <1>2, <1>5, OperationAnswered
  <2>2. SameSession /\ (~Answers' \/ Replies(answer.screen, answer.member))
    BY <1>1, <1>2, <1>3, <1>5, OperationAnswered DEF Meets, Calm, Troubles
  <2>3. UNCHANGED <<page, shown, loads, loading>>
    BY <1>5 DEF browser
  <2>4. Steady(screen, member)' /\ OnItsWay(d)'
    BY <2>2, <2>3, <1>5 DEF Asked, Steady, Framed, Entered, Calm, OnItsWay, SameSession
  <2>5. Answers' => Told(answer.screen, answer.member)'
    BY <2>2 DEF Replies
  <2> QED
    BY <1>3, <2>4, <2>5 DEF Asked
<1>6. CASE Render /\ loads = {} /\ loading = d /\ Answers
  <2>1. served[Tab].answer.screen = answer.screen /\ served[Tab].answer.member = answer.member
    BY <1>3, <1>6 DEF Asked, Told
  <2>2. \A f \in {"top", "navigation", "content"} : f \in Frames \ {"workspace"}
    BY FrameFacts
  <2>3. /\ Settled' /\ UNCHANGED <<authenticated, tenant, pending>>
        /\ \A k \in Troubles : faults'[k] = faults[k]
        /\ page'["workspace"] = answer.screen /\ shown' = answer.member
        /\ \A f \in {"top", "navigation", "content"} : page'[f] = page[f]
    BY <1>6, <2>1, <2>2, WorkspaceShown
  <2>4. faults'["session_expired"] = 0 /\ Calm'
    BY <1>2, <2>3 DEF Calm, Troubles
  <2>5. Steady(answer.screen, answer.member)'
    BY <2>3, <2>4 DEF Asked, Steady, Framed, Entered
  <2> QED
    BY <1>3, <2>3, <2>5
<1> QED
  BY <1>1, <1>2, <1>4, <1>5, <1>6, OneOnItsWay

LEMMA DocumentsApart ==
    /\ {SignInPage, Inner("navigation"), Inner("content"), SearchPage, Acknowledge} \subseteq Documents
    /\ None \notin {SignInPage, Inner("navigation"), Inner("content"), SearchPage, Acknowledge}
    /\ Inner("navigation") # Inner("content")
    /\ SearchPage # Inner("navigation") /\ SearchPage # Inner("content")
<1>1. {SignInPage, Inner("navigation"), Inner("content"), SearchPage, Acknowledge} \subseteq Documents
  BY DEF Documents
<1>2. \A d \in Documents : d # None
  BY DocumentFacts DEF IsDocument
<1>3. SearchPage.frame = "workspace"
  BY DEF SearchPage
<1> QED
  BY <1>1, <1>2, <1>3, FrameFacts

\* The form that signs in reaches the shell, or is refused by an expired session.
LEMMA SigningInStep ==
    ASSUME Serving, Posted, VisitOf, UNCHANGED given, NEW again \in BOOLEAN, SigningIn(again)
    PROVE  SigningIn(again)' \/ Refused(again)' \/ Filling'
<1>1. SignInPage \in Documents /\ SignInPage # None /\ SignInPage.ask.action = "login"
      /\ SignInPage.frame = "top"
  BY DocumentsApart, AskFacts, FrameFacts
<1>2. PICK d : d = SignInPage
  OBVIOUS
<1>3. /\ OnItsWay(d) /\ pending = None /\ shown = None /\ Ahead
      /\ again => launched["session_expired"] > 0
      /\ TopOnly(IF again THEN "expired" ELSE "login")
  BY <1>2 DEF SigningIn
<1>4. /\ \A k \in Troubles : launched[k] \in Nat /\ faults[k] \in Nat
      /\ UNCHANGED launched /\ "session_expired" \in Troubles
      /\ faults \in [Site!Kinds -> Nat] /\ Troubles \subseteq Site!Kinds
  BY OneTrouble DEF given, Troubles, Posted, Site!Kinds
<1>5. CASE Fetch /\ loads = {d} /\ loads' = {} /\ loading' = d /\ ~Answers
  <2>1. OnItsWay(d)' /\ UNCHANGED <<page, shown>> /\ pending' = None
    BY <1>3, <1>5, FetchedOne DEF OnItsWay, SameSession
  <2>2. IF again THEN Expired(FALSE) ELSE faults["session_expired"] = launched["session_expired"]
    BY <1>5 DEF SigningIn
  <2>3. CASE ~(faults["session_expired"] > 0) /\ SameSession /\ ~Answers'
    BY <1>2, <1>3, <1>4, <2>1, <2>2, <2>3
       DEF SigningIn, SameSession, TopOnly, Blank, Ahead, Expired, OnItsWay
  <2>4. CASE /\ faults["session_expired"] > 0
             /\ faults' = [faults EXCEPT !["session_expired"] = @ - 1]
             /\ ~authenticated' /\ pending' = None /\ Replies("expired", None)
    <3>1. Ahead' /\ faults'["session_expired"] = faults["session_expired"] - 1
      BY <1>3, <1>4, <2>4 DEF Ahead
    <3>2. faults["session_expired"] \in Nat /\ launched["session_expired"] \in Nat
      BY <1>4
    <3>3. Expired(again)'
      BY <1>3, <1>4, <2>2, <2>4, <3>1, <3>2 DEF Expired
    <3>4. Answers' /\ Told("expired", None)'
      BY <2>4 DEF Replies
    <3>5. TopOnly(IF again THEN "expired" ELSE "login")'
      BY <1>3, <2>1 DEF TopOnly
    <3> QED
      BY <1>2, <1>3, <1>4, <2>1, <3>1, <3>3, <3>4, <3>5 DEF SigningIn
  <2> QED
    BY <1>5, <2>3, <2>4, FetchedOne
<1>6. CASE Answered /\ loads = {} /\ loading = d /\ ~Answers /\ UNCHANGED browser
  <2>1. /\ served[Tab].stage = "routed" /\ UNCHANGED faults
        /\ Replies("shell", None) /\ pending' = None /\ authenticated' /\ tenant' = "alpha"
    <3>1. loading.ask.action = "login" /\ loading.ask.action \in Shell
      BY <1>1, <1>2, <1>6 DEF Shell
    <3> QED
      BY <1>6, <3>1, ShellAnswered
  <2>2. faults["session_expired"] = 0
    BY <1>6, <2>1 DEF SigningIn
  <2>3. UNCHANGED <<page, shown, loads, loading>>
    BY <1>6 DEF browser
  <2> QED
    BY <1>2, <1>3, <1>4, <2>1, <2>2, <2>3 DEF SigningIn, Replies, TopOnly, Ahead, OnItsWay
<1>7. CASE Render /\ loads = {} /\ loading = d /\ Answers
  <2>1. /\ loading' = None /\ UNCHANGED <<authenticated, tenant, pending>> /\ ~Answers'
        /\ \A k \in Troubles : faults'[k] = faults[k]
        /\ page' = [f \in Frames |-> IF f = "top" THEN served[Tab].answer.screen ELSE "blank"]
        /\ shown' = served[Tab].answer.member
        /\ loads' = IF served[Tab].answer.screen = "shell"
                    THEN {Inner("navigation"), Inner("content")} ELSE {}
    <3>1. loading.frame = "top" /\ Inside(loading.frame) = Frames /\ "workspace" \in Frames
      BY <1>1, <1>2, <1>7, FrameFacts
    <3> QED
      BY <1>7, <3>1, RenderedOne
  <2>2. CASE /\ Told("shell", None) /\ authenticated /\ tenant = "alpha"
             /\ faults["session_expired"] = 0
    <3>1. Entered' /\ shown' = None /\ pending' = None /\ Ahead'
      BY <1>3, <1>4, <2>1, <2>2, FrameFacts DEF Entered, Told, Ahead
    <3>2. loads' = {Inner("navigation"), Inner("content")} /\ loading' = None
          /\ Fetching' = {Inner("navigation"), Inner("content")}
      BY <2>1, <2>2 DEF Told, Fetching
    <3>3. page'["navigation"] = "blank" /\ page'["content"] = "blank" /\ page'["workspace"] = "blank"
      BY <2>1, FrameFacts
    <3> QED
      BY <2>1, <3>1, <3>2, <3>3, DocumentsApart DEF Filling, Coming, Awaited
  <2>3. CASE Told("expired", None) /\ Expired(again)
    <3>1. Settled' /\ shown' = None /\ pending' = None
      BY <1>3, <2>1, <2>3 DEF Settled, Told
    <3>2. TopOnly("expired")'
      BY <2>1, <2>3, FrameFacts DEF TopOnly, Told, Blank
    <3>3. Expired(again)'
      BY <1>4, <2>1, <2>3 DEF Expired, Ahead
    <3> QED
      BY <3>1, <3>2, <3>3 DEF Refused
  <2> QED
    BY <1>7, <2>2, <2>3 DEF SigningIn
<1> QED
  BY <1>1, <1>2, <1>3, <1>5, <1>6, <1>7, OneOnItsWay

\* The notice leads to the page it was shown for.
LEMMA AcknowledgingStep ==
    ASSUME Serving, Displayed, Posted, VisitOf, UNCHANGED given, Acknowledging
    PROVE  Acknowledging' \/ Acknowledged'
<1>1. Acknowledge \in Documents /\ Acknowledge \in Workspace
  BY DocumentsApart DEF Workspace
<1>2. PICK d : d = Acknowledge
  OBVIOUS
<1>3. /\ OnItsWay(d) /\ authenticated /\ tenant = "alpha" /\ faults["session_expired"] = 0
      /\ shown = None /\ page["workspace"] = "notice"
      /\ launched["unexpected_interstitial"] > 0
      /\ faults["unexpected_interstitial"] = launched["unexpected_interstitial"] - 1
      /\ UNCHANGED launched
  BY <1>2 DEF Acknowledging, Framed, Entered, given
<1>4. CASE Fetch /\ loads = {d} /\ loads' = {} /\ loading' = d /\ ~Answers
  <2>1. SameSession /\ ~Answers' /\ UNCHANGED <<page, shown>>
    BY <1>3, <1>4, FetchedOne
  <2>2. pending = Kept(SearchPage.ask)
    BY <1>4 DEF Acknowledging
  <2>3. pending' = Kept(SearchPage.ask)
    BY <2>1, <2>2 DEF SameSession
  <2>4. Framed' /\ OnItsWay(d)'
    BY <1>4, <2>1 DEF Acknowledging, Framed, Entered, OnItsWay, SameSession
  <2> QED
    BY <1>2, <1>3, <2>1, <2>3, <2>4 DEF Acknowledging, SameSession
<1>5. CASE Answered /\ loads = {} /\ loading = d /\ ~Answers /\ UNCHANGED browser
  <2>1. pending = Kept(SearchPage.ask)
    BY <1>5 DEF Acknowledging
  <2>2. /\ UNCHANGED <<authenticated, tenant, faults>>
        /\ \/ SameSession /\ ~Answers'
           \/ pending' = None /\ Replies("search", None)
    BY <1>2, <1>3, <1>5, <2>1, AcknowledgeAnswered
  <2>3. UNCHANGED <<page, shown, loads, loading>>
    BY <1>5 DEF browser
  <2>4. Framed' /\ OnItsWay(d)'
    BY <1>3, <2>2, <2>3 DEF Acknowledging, Framed, Entered, OnItsWay
  <2>5. IF Answers' THEN pending' = None /\ Told("search", None)' ELSE pending' = Kept(SearchPage.ask)
    BY <2>1, <2>2 DEF SameSession, Replies
  <2> QED
    BY <1>2, <1>3, <2>2, <2>3, <2>4, <2>5 DEF Acknowledging
<1>6. CASE Render /\ loads = {} /\ loading = d /\ Answers
  <2>1. served[Tab].answer.screen = "search" /\ served[Tab].answer.member = None /\ pending = None
    BY <1>6 DEF Acknowledging, Told
  <2>2. \A f \in {"top", "navigation", "content"} : f \in Frames \ {"workspace"}
    BY FrameFacts
  <2>3. /\ Settled' /\ UNCHANGED <<authenticated, tenant, pending>>
        /\ \A k \in Troubles : faults'[k] = faults[k]
        /\ page'["workspace"] = "search" /\ shown' = None
        /\ \A f \in {"top", "navigation", "content"} : page'[f] = page[f]
    BY <1>1, <1>2, <1>6, <2>1, <2>2, WorkspaceShown
  <2>4. faults'["session_expired"] = 0
        /\ faults'["unexpected_interstitial"] = faults["unexpected_interstitial"]
    BY <1>3, <2>3 DEF Troubles
  <2> QED
    BY <1>3, <2>1, <2>3, <2>4 DEF Acknowledging, Acknowledged, Framed, Entered
<1> QED
  BY <1>1, <1>2, <1>3, <1>4, <1>5, <1>6, OneOnItsWay

LEMMA OutcomeKept ==
    ASSUME NEW screen, Outcome(screen), UNCHANGED <<launched, pending>>,
           \A k \in Troubles : faults'[k] = faults[k]
    PROVE  Outcome(screen)'
BY DEF Outcome, Calm, Mild, Troubles

\* The frames of the shell, and the workspace in one of them, fill in any order.
LEMMA FillingStep ==
    ASSUME Serving, Posted, VisitOf, UNCHANGED given, Filling
    PROVE  Filling'
<1> USE DEF Coming
<1>1. /\ authenticated /\ tenant = "alpha" /\ faults["session_expired"] = 0
      /\ page["top"] = "shell" /\ shown = None /\ UNCHANGED launched
      /\ loads \subseteq Coming /\ loading \in (Coming \cup {None}) \ loads
      /\ page["navigation"] = IF Inner("navigation") \in Fetching THEN "blank" ELSE "frame"
      /\ page["content"] = IF Inner("content") \in Fetching THEN "blank" ELSE "frame"
      /\ Inner("content") \in Fetching \/ SearchPage \in Fetching => page["workspace"] = "blank"
      /\ Inner("content") \in Fetching => SearchPage \notin Fetching
      /\ Awaited => pending = None /\ Ahead
      /\ ~Awaited => \E screen \in Answer : Came(screen) /\ Outcome(screen)
      /\ Answers /\ loading # SearchPage => Told("frame", None)
  BY DEF Filling, Entered, given
<1>2. /\ Coming \subseteq Documents /\ None \notin Coming
      /\ \A d \in Coming : d.frame # "top" /\ d.frame # "none"
      /\ Inner("navigation").frame = "navigation" /\ Inner("content").frame = "content"
      /\ SearchPage.frame = "workspace"
      /\ "session_expired" \in Troubles /\ "unexpected_interstitial" \in Troubles
  BY DocumentsApart, FrameFacts DEF Troubles
<1>4. CASE Fetch
  <2>1. PICK d \in loads :
            /\ loading = None /\ loads' = loads \ {d} /\ loading' = d /\ d # None
            /\ UNCHANGED <<page, shown>> /\ ~Answers /\ SameSession /\ ~Answers'
    BY <1>1, <1>4, FetchedOne
  <2>2. Fetching' = Fetching
    BY <1>1, <1>2, <2>1 DEF Fetching
  <2>3. Awaited' <=> Awaited
    BY <2>1, <2>2 DEF Awaited
  <2>4. ~Awaited => SearchPage \notin Fetching
    BY <2>1 DEF Awaited
  <2>5. Ahead => Ahead'
    BY <1>1, <2>1 DEF Ahead, SameSession
  <2>6. ~Awaited => \E screen \in Answer : Came(screen)' /\ Outcome(screen)'
    <3> SUFFICES ASSUME ~Awaited PROVE \E screen \in Answer : Came(screen)' /\ Outcome(screen)'
      OBVIOUS
    <3>1. PICK screen \in Answer : Came(screen) /\ Outcome(screen)
      BY <1>1
    <3>2. Outcome(screen)'
      BY <1>1, <2>1, <3>1, OutcomeKept DEF SameSession
    <3>3. Came(screen)'
      BY <2>1, <2>2, <2>4, <3>1 DEF Came
    <3> QED
      BY <3>2, <3>3
  <2> QED
    BY <1>1, <2>1, <2>2, <2>3, <2>5, <2>6 DEF SameSession, Filling, Entered
<1>5. CASE Answered
  <2>1. loading # None /\ ~Answers /\ UNCHANGED <<page, shown, loads, loading>> /\ Fetching' = Fetching
    BY <1>5, BeingServed DEF browser, Fetching
  <2>2. ~Awaited => SearchPage \notin Fetching
    BY <2>1 DEF Awaited
  <2>3. CASE SameSession /\ (Answers' => loading # SearchPage /\ Told("frame", None)')
    <3>1. Awaited' <=> Awaited
      BY <2>1, <2>3 DEF Awaited
    <3>2. Ahead => Ahead'
      BY <1>1, <2>3 DEF Ahead, SameSession
    <3>3. ~Awaited => \E screen \in Answer : Came(screen)' /\ Outcome(screen)'
      <4> SUFFICES ASSUME ~Awaited PROVE \E screen \in Answer : Came(screen)' /\ Outcome(screen)'
        OBVIOUS
      <4>1. PICK screen \in Answer : Came(screen) /\ Outcome(screen)
        BY <1>1
      <4>2. Outcome(screen)'
        BY <1>1, <2>3, <4>1, OutcomeKept DEF SameSession
      <4>3. Came(screen)'
        BY <2>1, <2>2, <4>1 DEF Came
      <4> QED
        BY <4>2, <4>3
    <3> QED
      BY <1>1, <2>1, <2>3, <3>1, <3>2, <3>3 DEF SameSession, Filling, Entered
  <2>4. CASE loading \in {Inner("navigation"), Inner("content")}
    <3>1. loading.ask.action = "frame" /\ loading.ask.action \in Shell /\ loading # SearchPage
      BY <2>4, AskFacts, DocumentsApart DEF Shell
    <3>2. Replies("frame", None) /\ SameSession
      BY <1>1, <1>5, <3>1, ShellAnswered
    <3> QED
      BY <2>3, <3>1, <3>2 DEF Replies
  <2>5. CASE loading = SearchPage
    <3>1. /\ loading.ask.action \in {"search", "detail"}
          /\ Reply(loading.ask).screen = "search" /\ Reply(loading.ask).member = None
          /\ Kept(loading.ask) = Kept(SearchPage.ask)
      BY <2>5, AskFacts DEF SearchAnswer
    <3>2. SearchPage \in Fetching /\ Awaited /\ Inner("content") \notin Fetching
      BY <1>1, <2>1, <2>5 DEF Fetching, Awaited
    <3>3. pending = None /\ Ahead
      BY <1>1, <3>2
    <3>4. /\ authenticated' /\ tenant' = "alpha"
          /\ \/ SameSession /\ ~Answers'
             \/ /\ pending' = Kept(SearchPage.ask) /\ Replies("notice", None)
                /\ faults["unexpected_interstitial"] > 0
                /\ faults' = [faults EXCEPT !["unexpected_interstitial"] = @ - 1]
             \/ Meets("server_error_500", "server_error")
             \/ Meets("permission_denied", "denied")
             \/ Meets("record_not_found", "not_found")
             \/ /\ \A k \in Troubles \ {"session_expired"} : ~(faults[k] > 0)
                /\ SameSession
                /\ Replies("search", None)
      BY <1>1, <1>5, <3>1, <3>3, OperationAnswered
    <3>5. /\ \A k \in Troubles : launched[k] \in Nat /\ faults[k] \in Nat
          /\ \A k, l \in Troubles : launched[k] > 0 /\ launched[l] > 0 => k = l
          /\ \A k \in Troubles : faults[k] <= launched[k]
          /\ launched["server_error_500"] <= 1
          /\ faults \in [Site!Kinds -> Nat] /\ Troubles \subseteq Site!Kinds
      BY OneTrouble DEF Posted, Troubles, Site!Kinds
    <3>6. ASSUME NEW screen \in Answer, Replies(screen, None), authenticated', tenant' = "alpha",
                 faults'["session_expired"] = 0, Outcome(screen)'
          PROVE  Filling'
      <4>1. Answers' /\ served'[Tab].answer.screen = screen /\ ~Awaited'
        BY <2>1, <2>5, <3>2, <3>6 DEF Replies, Told, Awaited
      <4>2. Came(screen)'
        BY <2>1, <3>2, <4>1 DEF Came
      <4> QED
        BY <1>1, <2>1, <2>5, <3>2, <3>6, <4>1, <4>2 DEF Filling, Entered
    <3>7. CASE SameSession /\ ~Answers'
      BY <2>3, <3>7
    <3>8. CASE /\ pending' = Kept(SearchPage.ask) /\ Replies("notice", None)
               /\ faults["unexpected_interstitial"] > 0
               /\ faults' = [faults EXCEPT !["unexpected_interstitial"] = @ - 1]
      <4>1. /\ faults["unexpected_interstitial"] = launched["unexpected_interstitial"]
            /\ faults'["unexpected_interstitial"] = faults["unexpected_interstitial"] - 1
            /\ faults'["session_expired"] = 0
        BY <1>1, <1>2, <3>3, <3>5, <3>8 DEF Ahead
      <4>2. Outcome("notice")'
        BY <1>1, <3>8, <4>1 DEF Outcome
      <4> QED
        BY <3>4, <3>6, <3>8, <4>1, <4>2 DEF Answer
    <3>9. CASE Meets("server_error_500", "server_error")
      <4>1. "server_error_500" \in Troubles
        BY DEF Troubles
      <4>2. launched["server_error_500"] = 1 /\ faults["server_error_500"] = 1
            /\ faults'["server_error_500"] = 0
        BY <3>5, <3>9, <4>1 DEF Meets
      <4>3. ASSUME NEW k \in Troubles PROVE faults'[k] = 0
        <5>1. CASE k = "server_error_500"
          BY <4>2, <5>1
        <5>2. CASE k # "server_error_500"
          <6>1. faults'[k] = faults[k]
            BY <3>5, <3>9, <5>2 DEF Meets
          <6>2. ~(launched[k] > 0) /\ launched[k] \in Nat /\ faults[k] \in Nat /\ faults[k] <= launched[k]
            BY <3>5, <4>1, <4>2, <5>2
          <6> QED
            BY <6>1, <6>2
        <5> QED
          BY <5>1, <5>2
      <4>4. Outcome("server_error")' /\ Replies("server_error", None)
        BY <1>1, <3>9, <4>2, <4>3 DEF Outcome, Calm, Meets
      <4> QED
        BY <1>2, <3>4, <3>6, <4>3, <4>4 DEF Answer
    <3>10. CASE Meets("permission_denied", "denied")
      <4>1. launched["permission_denied"] > 0 /\ faults'["session_expired"] = 0
        BY <1>1, <1>2, <3>5, <3>10 DEF Meets, Troubles
      <4>2. Outcome("denied")' /\ Replies("denied", None)
        BY <1>1, <3>10, <4>1 DEF Outcome, Meets
      <4> QED
        BY <3>4, <3>6, <4>1, <4>2 DEF Answer
    <3>11. CASE Meets("record_not_found", "not_found")
      <4>1. launched["record_not_found"] > 0 /\ faults'["session_expired"] = 0
        BY <1>1, <1>2, <3>5, <3>11 DEF Meets, Troubles
      <4>2. Outcome("not_found")' /\ Replies("not_found", None)
        BY <1>1, <3>11, <4>1 DEF Outcome, Meets
      <4> QED
        BY <3>4, <3>6, <4>1, <4>2 DEF Answer
    <3>12. CASE /\ \A k \in Troubles \ {"session_expired"} : ~(faults[k] > 0)
                /\ SameSession
                /\ Replies("search", None)
      <4>1. \A k \in Troubles : faults[k] = 0
        BY <1>1, <3>5, <3>12
      <4>2. Calm' /\ Mild' /\ pending' = None
        BY <1>1, <3>3, <3>12, <4>1 DEF Calm, Ahead, SameSession, Mild, Troubles
      <4>3. Outcome("search")' /\ faults'["session_expired"] = 0
        BY <1>1, <3>12, <4>2 DEF Outcome, SameSession
      <4> QED
        BY <3>4, <3>6, <3>12, <4>3 DEF Answer
    <3> QED
      BY <3>4, <3>7, <3>8, <3>9, <3>10, <3>11, <3>12
  <2> QED
    BY <1>1, <2>1, <2>4, <2>5
<1>6. CASE Render
  <2> DEFINE answer == served[Tab].answer
             gone == Inside(loading.frame)
  <2>1. /\ Answers /\ ~Answers' /\ loading # None /\ loading' = None
        /\ UNCHANGED <<authenticated, tenant, pending, value>>
        /\ \A k \in Troubles : faults'[k] = faults[k]
        /\ page' = [f \in Frames |-> IF f = loading.frame THEN answer.screen
                                     ELSE IF f \in gone THEN "blank" ELSE page[f]]
        /\ IF "workspace" \in gone THEN shown' = answer.member /\ typed' = None
                                   ELSE UNCHANGED <<shown, typed>>
        /\ loads' = {d \in loads : d.frame \notin gone}
                \cup (IF loading.frame = "top" /\ answer.screen = "shell"
                      THEN {Inner("navigation"), Inner("content")} ELSE {})
                \cup (IF loading.frame = "content" /\ answer.screen = "frame"
                      THEN {SearchPage} ELSE {})
        /\ Telling(answer)
    BY <1>6, RenderedOne
  <2>2. Fetching = loads \cup {loading} /\ Fetching' = loads' /\ loading \notin loads
        /\ "top" \in Frames /\ "content" \in Frames /\ "navigation" \in Frames /\ "workspace" \in Frames
    BY <1>1, <2>1, FrameFacts DEF Fetching
  <2>3. faults'["session_expired"] = 0 /\ (Ahead => Ahead')
    BY <1>1, <1>2, <2>1 DEF Ahead
  <2>4. CASE loading = Inner("navigation")
    <3>1. loading.frame = "navigation" /\ gone = {"navigation"}
      BY <2>4, FrameFacts
    <3>2. loads' = loads
      BY <1>1, <1>2, <2>1, <2>2, <2>4, <3>1
    <3>3. answer.screen = "frame"
      BY <1>1, <2>1, <2>4, DocumentsApart DEF Told
    <3>4. /\ page'["navigation"] = "frame" /\ page'["top"] = page["top"]
          /\ page'["content"] = page["content"] /\ page'["workspace"] = page["workspace"]
          /\ shown' = shown
      BY <2>1, <2>2, <3>1, <3>3
    <3>5. /\ Awaited' <=> Awaited
          /\ ~Awaited => SearchPage \notin Fetching
          /\ Inner("content") \in Fetching' <=> Inner("content") \in Fetching
          /\ SearchPage \in Fetching' <=> SearchPage \in Fetching
          /\ Inner("navigation") \notin Fetching'
      BY <2>1, <2>2, <2>4, <3>2, DocumentsApart DEF Awaited
    <3>6. ~Awaited => \E screen \in Answer : Came(screen)' /\ Outcome(screen)'
      <4> SUFFICES ASSUME ~Awaited PROVE \E screen \in Answer : Came(screen)' /\ Outcome(screen)'
        OBVIOUS
      <4>1. PICK screen \in Answer : Came(screen) /\ Outcome(screen)
        BY <1>1
      <4>2. Outcome(screen)'
        BY <1>1, <2>1, <4>1, OutcomeKept
      <4>3. Came(screen)'
        BY <3>4, <3>5, <4>1 DEF Came
      <4> QED
        BY <4>2, <4>3
    <3> HIDE DEF answer, gone
    <3> QED
      BY <1>1, <1>2, <2>1, <2>2, <2>3, <2>4, <3>2, <3>4, <3>5, <3>6 DEF Filling, Entered
  <2>5. CASE loading = Inner("content")
    <3>1. loading.frame = "content" /\ gone = {"content", "workspace"}
      BY <2>5, FrameFacts
    <3>2. answer.screen = "frame" /\ answer.member = None
      BY <1>1, <2>1, <2>5, DocumentsApart DEF Told
    <3>3. Inner("content") \in Fetching /\ loads \subseteq {Inner("navigation")} /\ Awaited
      BY <1>1, <2>2, <2>5 DEF Awaited
    <3>4. loads' = loads \cup {SearchPage}
      BY <1>2, <2>1, <3>1, <3>2, <3>3
    <3>5. /\ page'["content"] = "frame" /\ page'["workspace"] = "blank"
          /\ page'["top"] = page["top"] /\ page'["navigation"] = page["navigation"]
          /\ shown' = None
      BY <2>1, <2>2, <3>1, <3>2
    <3>6. Awaited' /\ Inner("content") \notin Fetching'
          /\ (Inner("navigation") \in Fetching' <=> Inner("navigation") \in Fetching)
      BY <2>1, <2>2, <2>5, <3>3, <3>4, DocumentsApart DEF Awaited
    <3> HIDE DEF answer, gone
    <3> QED
      BY <1>1, <2>1, <2>2, <2>3, <3>3, <3>4, <3>5, <3>6, DocumentsApart DEF Filling, Entered
  <2>6. CASE loading = SearchPage
    <3>1. loading.frame = "workspace" /\ gone = {"workspace"}
      BY <2>6, FrameFacts
    <3>2. SearchPage \in Fetching /\ Inner("content") \notin Fetching /\ ~Awaited
      BY <1>1, <2>1, <2>2, <2>6 DEF Awaited
    <3>3. answer.screen \in Answer /\ Outcome(answer.screen)
      <4>1. PICK screen \in Answer : Came(screen) /\ Outcome(screen)
        BY <1>1, <3>2
      <4>2. screen = answer.screen
        BY <3>2, <4>1 DEF Came
      <4> QED
        BY <4>1, <4>2
    <3>4. loads' = loads /\ SearchPage \notin Fetching' /\ Inner("content") \notin Fetching'
          /\ (Inner("navigation") \in Fetching' <=> Inner("navigation") \in Fetching)
      BY <1>1, <1>2, <2>1, <2>2, <2>6, <3>1, <3>2
    <3>5. answer.member = None
      BY <2>1, <3>3 DEF Answer, Telling, Personal
    <3>6. /\ page'["workspace"] = answer.screen /\ page'["top"] = page["top"]
          /\ page'["navigation"] = page["navigation"] /\ page'["content"] = page["content"]
          /\ shown' = None
      BY <2>1, <2>2, <3>1, <3>5
    <3>7. \E screen \in Answer : Came(screen)' /\ Outcome(screen)'
      <4>1. PICK screen : screen = answer.screen
        OBVIOUS
      <4>2. Outcome(screen)'
        BY <1>1, <2>1, <3>3, <4>1, OutcomeKept
      <4>3. Came(screen)'
        BY <3>4, <3>6, <4>1 DEF Came
      <4> QED
        BY <3>3, <4>1, <4>2, <4>3
    <3>8. ~Awaited'
      BY <3>4 DEF Awaited
    <3> HIDE DEF answer, gone
    <3> QED
      BY <1>1, <1>2, <2>1, <2>2, <2>3, <3>2, <3>4, <3>6, <3>7, <3>8 DEF Filling, Entered
  <2> QED
    BY <1>1, <2>1, <2>4, <2>5, <2>6
<1> QED
  BY <1>4, <1>5, <1>6 DEF VisitOf

-----------------------------------------------------------------------------
(* A visit of the browser                                                  *)

LEMMA Replying ==
    ASSUME wanted \in Persons
    PROVE  /\ Reply(Find(wanted).ask) = FindAnswer
           /\ Found => Reply(Open(wanted).ask) = OpenAnswer
           /\ Find(wanted) \in Workspace \ {Acknowledge} /\ Open(wanted) \in Workspace \ {Acknowledge}
           /\ SearchPage \in Workspace \ {Acknowledge}
<1>1. None \notin Members /\ Restricted \subseteq Members
  BY BankAssumption
<1>2. Find(wanted) # Acknowledge /\ Open(wanted) # Acknowledge /\ SearchPage # Acknowledge
  BY DEF Find, Open, SearchPage, Acknowledge, Ask
<1>3. Reply(Find(wanted).ask) = FindAnswer
  BY DEF Reply, Find, Ask, FindAnswer
<1>4. Found => Reply(Open(wanted).ask) = OpenAnswer
  BY <1>1 DEF Reply, Open, Ask, OpenAnswer, Found
<1> QED
  BY <1>2, <1>3, <1>4 DEF Workspace

LEMMA SearchingStep ==
    ASSUME Serving, Displayed, Posted, VisitOf, UNCHANGED given, wanted \in Persons, Searching
    PROVE  Searching' \/ Searched'
<1>1. PICK d : d = Find(wanted)
  OBVIOUS
<1>2. PICK answer : answer = Reply(d.ask)
  OBVIOUS
<1>3. d \in Workspace \ {Acknowledge} /\ answer = FindAnswer /\ d = Find(wanted)' /\ answer = FindAnswer'
  BY <1>1, <1>2, Replying DEF given, FindAnswer
<1>4. Asked(d, "search", None, answer)
  BY <1>1, <1>3 DEF Searching
<1>5. Asked(d, "search", None, answer)' \/ (Settled' /\ Steady(answer.screen, answer.member)')
  BY <1>2, <1>3, <1>4, AskedStep
<1> QED
  BY <1>3, <1>5 DEF Searching, Searched, Asked, OnItsWay, Told, Steady

LEMMA OpeningStep ==
    ASSUME Serving, Displayed, Posted, VisitOf, UNCHANGED given, wanted \in Persons, Found, Opening
    PROVE  Opening' \/ AtDetail'
<1>1. PICK d : d = Open(wanted)
  OBVIOUS
<1>2. PICK answer : answer = Reply(d.ask)
  OBVIOUS
<1>3. d \in Workspace \ {Acknowledge} /\ answer = OpenAnswer /\ d = Open(wanted)' /\ answer = OpenAnswer'
      /\ UNCHANGED wanted
  BY <1>1, <1>2, Replying DEF given, OpenAnswer
<1>4. PICK member : member = wanted
  OBVIOUS
<1>5. Asked(d, "results", member, answer)
  BY <1>1, <1>3, <1>4 DEF Opening
<1>6. Asked(d, "results", member, answer)' \/ (Settled' /\ Steady(answer.screen, answer.member)')
  BY <1>2, <1>3, <1>5, AskedStep
<1> QED
  BY <1>3, <1>4, <1>6 DEF Opening, AtDetail, Asked, OnItsWay, Told, Steady, OpenAnswer

LEMMA ReSearchingStep ==
    ASSUME Serving, Displayed, Posted, VisitOf, UNCHANGED given, wanted \in Persons, ReSearching
    PROVE  ReSearching' \/ AtSearch'
<1>1. PICK d : d = SearchPage
  OBVIOUS
<1>2. PICK answer : answer = Reply(d.ask)
  OBVIOUS
<1>3. d \in Workspace \ {Acknowledge} /\ answer = SearchAnswer
  BY <1>1, <1>2, Replying, AskFacts
<1>4. Asked(d, "server_error", None, answer)
  BY <1>1, <1>3 DEF ReSearching
<1>5. Asked(d, "server_error", None, answer)' \/ (Settled' /\ Steady(answer.screen, answer.member)')
  BY <1>2, <1>3, <1>4, AskedStep
<1> QED
  BY <1>1, <1>3, <1>5 DEF ReSearching, AtSearch, Asked, OnItsWay, Told, Steady, SearchAnswer

LEMMA DemoVisit ==
    ASSUME BankInv, DemoInv, Visit
    PROVE  DemoInv'
<1>1. /\ VisitOf /\ UNCHANGED given /\ ~Settled /\ Serving /\ Displayed /\ Posted /\ wanted \in Persons
      /\ UNCHANGED <<capability, options, pc, index, resumed, observation, result, outputs>>
      /\ UNCHANGED <<wanted, operator, launched, left, value>>
  BY RestStops DEF Visit, VisitOf, Fetch, Answered, Render, browser, vars, local, given, BankInv, DemoInv
<1>2. pc \notin Inspected /\ (Unhanded \/ Demonstrated \/ FromServer => pc \notin AtRest)
  BY <1>1 DEF BankInv, Rested, AtRest, Inspected, Taken, Unhanded, Demonstrated, FromServer
<1>3. Posted'
  BY <1>1, FaultsFall
<1>4. Observed'
  BY <1>1, <1>2 DEF DemoInv, Observed, ToUse, InRecovery, AtRest, Inspected
<1>5. /\ Unhanded' = Unhanded /\ FromServer' = FromServer /\ Documented' = Documented /\ Mild' = Mild
      /\ Found' = Found /\ Demonstrated' = Demonstrated /\ Expected' = Expected
      /\ FailedStep' = FailedStep
  BY <1>1 DEF Unhanded, FromServer, Documented, Mild, Found, Demonstrated, Expected, FailedStep
<1>6. Unhanded /\ index = 1 => FirstStep'
  BY <1>1, <1>2 DEF DemoInv, FirstStep, Opened, ToUse, AtRest, Inspected, InRecovery
<1>7. Unhanded /\ index = 2 => SecondStep'
  <2> SUFFICES ASSUME Unhanded, index = 2 PROVE SecondStep'
    OBVIOUS
  <2>1. SecondStep
    BY DEF DemoInv
  <2>2. ~Filled("notice") /\ ~Filled("server_error") /\ ~Acknowledged
        /\ \A b \in BOOLEAN : ~Refused(b)
    BY <1>1 DEF Filled, Refused, Acknowledged
  <2>3. pc = "look" => (SigningIn(FALSE) \/ Refused(FALSE) \/ Filling)'
    BY <1>1, <2>1, <2>2, SigningInStep, FillingStep DEF SecondStep
  <2>4. pc = "recovered" => \/ SigningIn(TRUE)' \/ Refused(TRUE)'
                            \/ Filling' /\ launched["session_expired"] > 0
                            \/ Acknowledging' \/ Acknowledged'
    <3>1. SigningIn(TRUE) => launched["session_expired"] > 0
      BY DEF SigningIn
    <3>2. SigningIn(TRUE) => SigningIn(TRUE)' \/ Refused(TRUE)' \/ Filling'
      BY <1>1, SigningInStep
    <3> QED
      BY <1>1, <2>1, <2>2, <3>1, <3>2, FillingStep, AcknowledgingStep DEF SecondStep
  <2>5. pc \in Over => \/ result \in Uncertain
                       \/ result = "business" /\ (launched["permission_denied"] > 0
                                                  \/ launched["record_not_found"] > 0)
                       \/ result = "checkpoint" /\ ~Documented
    BY <2>1, <2>2 DEF SecondStep
  <2>6. ~(pc = "operator" /\ result = "server" /\ operator = "scripted")
    BY <2>1, <2>2 DEF SecondStep
  <2> QED
    BY <1>1, <1>2, <1>5, <2>3, <2>4, <2>5, <2>6 DEF SecondStep, ToUse, AtRest, Inspected
<1>8. Demonstrated => Later'
  <2> SUFFICES ASSUME Demonstrated PROVE Later'
    OBVIOUS
  <2>1. Later
    BY DEF DemoInv
  <2>2. ~AtSearch /\ ~AtResults /\ ~AtDetail /\ ~Searched
    BY <1>1 DEF AtSearch, AtResults, AtDetail, Searched
  <2>3. index = 3 => ThirdStep'
    BY <1>1, <1>2, <2>1, <2>2 DEF Later, ThirdStep, ToUse, AtRest, Inspected
  <2>4. index = 4 => FourthStep'
    BY <1>1, <1>2, <2>1, <2>2, SearchingStep DEF Later, FourthStep, ToUse, AtRest, Inspected
  <2>5. index = 5 => FifthStep'
    BY <1>1, <1>2, <1>5, <2>1, <2>2, OpeningStep DEF Later, FifthStep, ToUse, AtRest, Inspected
  <2>6. index = 6 => SixthStep'
    BY <1>1, <1>2, <1>5, <2>1, <2>2 DEF Later, SixthStep, ToUse, AtRest, Inspected
  <2>7. index = 7 => LastStep'
    BY <1>1, <1>5, <2>1 DEF Later, LastStep
  <2> QED
    BY <1>1, <1>5, <2>1, <2>3, <2>4, <2>5, <2>6, <2>7 DEF Later
<1>9. Restoring'
  BY <1>1, <1>2, <1>5, ReSearchingStep DEF DemoInv, Restoring, AtSearch, AtRest, Inspected
<1> QED
  BY <1>1, <1>3, <1>4, <1>5, <1>6, <1>7, <1>8, <1>9 DEF DemoInv

-----------------------------------------------------------------------------
(* The steps of the run                                                    *)

\* What is said of the page holds while the page and the bank are left alone.
LEMMA PageKept ==
    ASSUME UNCHANGED <<bank, page, shown, loads, loading, given>>
    PROVE  /\ Settled' = Settled /\ Opened' = Opened /\ Filling' = Filling
           /\ \A b \in BOOLEAN : SigningIn(b)' = SigningIn(b) /\ Refused(b)' = Refused(b)
           /\ Filled("notice")' = Filled("notice")
           /\ Filled("server_error")' = Filled("server_error")
           /\ Acknowledging' = Acknowledging /\ Acknowledged' = Acknowledged
           /\ AtSearch' = AtSearch /\ AtResults' = AtResults /\ AtDetail' = AtDetail
           /\ Searching' = Searching /\ Searched' = Searched
           /\ Opening' = Opening /\ ReSearching' = ReSearching
           /\ Found' = Found /\ Mild' = Mild /\ Documented' = Documented /\ Expected' = Expected
           /\ Posted' = Posted
<1>1. /\ UNCHANGED <<tenant, authenticated, pending, faults, served>>
      /\ UNCHANGED <<page, shown, loads, loading, wanted, operator, launched>>
  BY DEF bank, given
<1>2. /\ Settled' = Settled /\ Fetching' = Fetching /\ Answers' = Answers /\ Calm' = Calm
      /\ Ahead' = Ahead /\ Entered' = Entered /\ Framed' = Framed
      /\ \A screen, member : Told(screen, member)' = Told(screen, member)
      /\ \A d : OnItsWay(d)' = OnItsWay(d)
      /\ \A screen : TopOnly(screen)' = TopOnly(screen)
      /\ \A b : Expired(b)' = Expired(b)
      /\ Found' = Found /\ Mild' = Mild /\ Documented' = Documented /\ Expected' = Expected
      /\ Posted' = Posted
  BY <1>1 DEF Settled, Fetching, Answers, Calm, Ahead, Entered, Framed, Told, OnItsWay, TopOnly,
     Expired, Found, Mild, Documented, Expected, Posted
<1>3. \A screen, member : Steady(screen, member)' = Steady(screen, member)
  BY <1>1, <1>2 DEF Steady
<1>4. \A d, screen, member, answer :
          Asked(d, screen, member, answer)' = Asked(d, screen, member, answer)
  BY <1>1, <1>2, <1>3 DEF Asked
<1>5. Opened' = Opened /\ (\A b \in BOOLEAN : Refused(b)' = Refused(b))
  BY <1>1, <1>2 DEF Opened, Refused
<1>6. \A b \in BOOLEAN : SigningIn(b)' = SigningIn(b)
  <2> TAKE b \in BOOLEAN
  <2>1. TopOnly(IF b THEN "expired" ELSE "login")' = TopOnly(IF b THEN "expired" ELSE "login")
    BY <1>1 DEF TopOnly
  <2> QED
    BY <1>1, <1>2, <2>1 DEF SigningIn
<1>7. Awaited' = Awaited
      /\ (\A screen : Came(screen)' = Came(screen) /\ Outcome(screen)' = Outcome(screen))
  BY <1>1, <1>2 DEF Awaited, Came, Outcome
<1>8. Filling' = Filling
  BY <1>1, <1>2, <1>7 DEF Filling
<1>9. Filled("notice")' = Filled("notice") /\ Filled("server_error")' = Filled("server_error")
  BY <1>1, <1>2, <1>8 DEF Filled
<1>10. Acknowledging' = Acknowledging /\ Acknowledged' = Acknowledged
  BY <1>1, <1>2 DEF Acknowledging, Acknowledged
<1>11. AtSearch' = AtSearch /\ AtResults' = AtResults /\ AtDetail' = AtDetail
  BY <1>1, <1>2 DEF AtSearch, AtResults, AtDetail, Steady
<1>12. Searched' = Searched
  BY <1>1, <1>2 DEF Searched, Steady, FindAnswer
<1>13. Searching' = Searching
  BY <1>1, <1>2 DEF Searching, Asked, Steady, FindAnswer, OnItsWay, Told
<1>14. Opening' = Opening
  BY <1>1, <1>2 DEF Opening, Asked, Steady, OpenAnswer, OnItsWay, Told
<1>15. ReSearching' = ReSearching
  BY <1>1, <1>2 DEF ReSearching, Asked, Steady, SearchAnswer, OnItsWay, Told
<1> QED
  BY <1>2, <1>5, <1>6, <1>8, <1>9, <1>10, <1>11, <1>12, <1>13, <1>14, <1>15

LEMMA RunKept ==
    ASSUME UNCHANGED <<index, resumed, left, given>>
    PROVE  /\ Unhanded' = Unhanded /\ FromServer' = FromServer /\ Demonstrated' = Demonstrated
           /\ Documented' = Documented /\ Mild' = Mild
BY DEF Unhanded, FromServer, Demonstrated, Documented, Mild, given

\* A step of an execution, which is not where a person may be asked.
LEMMA Executed ==
    ASSUME IInv, DemoInv, pc \in Executing, UNCHANGED <<index, resumed, left, options, given>>,
           pc' \in Executing \cup {"returned"},
           Posted', Observed',
           Unhanded /\ index = 1 => FirstStep',
           Unhanded /\ index = 2 => SecondStep',
           Demonstrated => Later'
    PROVE  DemoInv'
<1>1. /\ Unhanded' = Unhanded /\ FromServer' = FromServer /\ Demonstrated' = Demonstrated
      /\ Documented' = Documented /\ Mild' = Mild
  BY RunKept
<1>2. left # None => resumed
  BY DEF DemoInv, Restoring, Executing
<1>3. Restoring'
  BY <1>2 DEF Restoring, Executing
<1> QED
  BY <1>1, <1>3 DEF DemoInv

LEMMA DemoLocate ==
    ASSUME IInv, BankInv, DemoInv, Locate
    PROVE  DemoInv'
<1>1. /\ pc = "resolve" /\ pc' \in {"act", "returned"} /\ (Present(index) => pc' = "act")
      /\ UNCHANGED <<index, resumed, left, options, given, observation, outputs, value, typed>>
      /\ UNCHANGED <<bank, page, shown, loads, loading, given>> /\ UNCHANGED wanted
      /\ index \in 1 .. 6 /\ (pc' = "act" => UNCHANGED result)
      /\ index \in 1 .. 7
  <2>1. N = 6 /\ index \in 1 .. N
    BY LookUpFacts DEF BankInv, N, IInv, TypeOK, Progress, Locate, Resolve
  <2> QED
    BY <2>1 DEF Locate, Resolve, run, local, world, browser, given, Goto, Return
<1>2. Posted' /\ Observed'
  BY <1>1, PageKept DEF DemoInv, Observed, ToUse, InRecovery
<1>3. Unhanded /\ index \in {1, 2} => Opened
  BY <1>1 DEF DemoInv, FirstStep, SecondStep, ToUse
<1>4. Opened /\ index \in {1, 2} => Present(index)
  BY FrameFacts DEF Opened, TopOnly, Blank, Present
<1>5. Demonstrated => Later
  BY DEF DemoInv
<1>6. Demonstrated => Present(index)
  BY <1>1, <1>5 DEF Demonstrated, Later, ThirdStep, FourthStep, FifthStep, SixthStep, ToUse, AtSearch,
     AtResults, AtDetail, Steady, Present
<1>7. Unhanded /\ index = 1 => FirstStep'
  BY <1>1, <1>3, <1>4, PageKept DEF FirstStep, ToUse, InRecovery, Over
<1>8. Unhanded /\ index = 2 => SecondStep'
  BY <1>1, <1>3, <1>4, PageKept DEF SecondStep, ToUse, Over
<1>9. Demonstrated => Later'
  BY <1>1, <1>5, <1>6, PageKept DEF Later, ThirdStep, FourthStep, FifthStep, SixthStep, LastStep, ToUse,
     InRecovery, Over
<1> QED
  BY <1>1, <1>2, <1>7, <1>8, <1>9, Executed DEF Executing

\* A frame of a settled page is sent for a document, and shows what it did.
LEMMA SentFor ==
    ASSUME Serving, Settled, NEW d \in Documents, Go(d), UNCHANGED bank
    PROVE  OnItsWay(d)' /\ ~Answers' /\ ~Answers
           /\ UNCHANGED <<tenant, authenticated, pending, faults, served>>
<1>1. UNCHANGED <<tenant, authenticated, pending, faults, served>>
  BY DEF bank
<1>2. loads' = {d} /\ loading = None /\ loading' = None
  BY DEF Settled, Go
<1>3. ~Answers /\ ~Answers'
  BY <1>1, <1>2 DEF Serving, Answers, ToTab, Site!Idle
<1> QED
  BY <1>1, <1>2, <1>3 DEF OnItsWay

LEMMA DemoPerform ==
    ASSUME IInv, BankInv, DemoInv, Perform
    PROVE  DemoInv'
<1>1. /\ pc = "act" /\ pc' \in {"look", "returned"} /\ (pc' = "returned" => result' \in Uncertain)
      /\ UNCHANGED <<index, resumed, left, options, given, observation, outputs, bank>>
      /\ UNCHANGED wanted /\ index \in 1 .. 6
      /\ \/ Present(index) /\ Use(index)
         \/ /\ Present(index) \/ index \in {1, 3} => pc' # "look"
            /\ UNCHANGED browser
  <2>1. N = 6 /\ index \in 1 .. N
    BY LookUpFacts DEF BankInv, N, IInv, TypeOK, Progress, Perform, Act
  <2> QED
    BY <2>1 DEF Perform, Act, run, local, given, Goto, Return, Uncertain
<1>2. Posted' /\ Observed'
  <2>1. Posted'
    BY <1>1 DEF DemoInv, Posted, given, bank
  <2> QED
    BY <1>1, <2>1 DEF Observed, ToUse, InRecovery
<1>3. Serving /\ (Unhanded \/ Demonstrated => Settled) /\ wanted \in Persons
  BY <1>1 DEF BankInv, Rested, AtRest, Inspected, Taken, Unhanded, Demonstrated, FromServer
<1>4. pc' = "returned" /\ Unhanded => (index = 1 => FirstStep') /\ (index = 2 => SecondStep')
  BY <1>1 DEF FirstStep, SecondStep, ToUse, InRecovery, Over
<1>5. Demonstrated => Later
  BY DEF DemoInv
<1>6. Demonstrated /\ pc' = "returned" => Later'
  BY <1>1, <1>5, PageKept DEF Later, ThirdStep, FourthStep, FifthStep, SixthStep, LastStep, ToUse,
     InRecovery, Over, Found
<1>7. CASE pc' = "look"
  <2>1. Unhanded /\ index = 1 => FirstStep'
    <3> SUFFICES ASSUME Unhanded, index = 1 PROVE FirstStep'
      OBVIOUS
    <3>1. Opened
      BY <1>1 DEF DemoInv, FirstStep, ToUse
    <3>2. UNCHANGED browser
      BY <1>1 DEF Use
    <3>3. UNCHANGED <<page, shown, loads, loading>>
      BY <3>2 DEF browser
    <3> QED
      BY <1>1, <1>7, <3>1, <3>3, PageKept DEF FirstStep, InRecovery, Over
  <2>2. Unhanded /\ index = 2 => SecondStep'
    <3> SUFFICES ASSUME Unhanded, index = 2 PROVE SecondStep'
      OBVIOUS
    <3>1. Opened
      BY <1>1 DEF DemoInv, SecondStep, ToUse
    <3>2. Present(2)
      BY <3>1, FrameFacts DEF Opened, TopOnly, Blank, Present
    <3>3. Go(SignInPage) /\ UNCHANGED <<page, shown>>
      BY <1>1, <1>7, <3>2 DEF Use
    <3>4. OnItsWay(SignInPage)' /\ ~Answers' /\ ~Answers
          /\ UNCHANGED <<tenant, authenticated, pending, faults, served>>
      BY <1>1, <1>3, <3>3, SentFor, DocumentsApart
    <3>5. served[Tab].stage # "routed"
      BY <1>3 DEF Serving, Settled, ToTab, Site!Idle
    <3>6. SigningIn(FALSE)'
      BY <1>1, <3>1, <3>3, <3>4, <3>5 DEF SigningIn, Opened, TopOnly, Ahead, given
    <3> QED
      BY <1>7, <3>6 DEF SecondStep, ToUse, Over
  <2>3. Demonstrated => Later'
    <3> SUFFICES ASSUME Demonstrated PROVE Later'
      OBVIOUS
    <3>1. Later /\ index \in 3 .. 6
      BY <1>1, <1>5 DEF Demonstrated
    <3>2. Present(index)
      BY <1>1, <3>1 DEF Later, ThirdStep, FourthStep, FifthStep, SixthStep, ToUse, AtSearch,
         AtResults, AtDetail, Steady, Present
    <3>3. Use(index)
      BY <1>1, <1>7, <3>2
    <3>4. index = 3 => ThirdStep'
      <4> SUFFICES ASSUME index = 3 PROVE ThirdStep'
        OBVIOUS
      <4>1. AtSearch /\ typed' = wanted /\ UNCHANGED <<page, shown, loads, loading>>
        BY <1>1, <3>1, <3>3 DEF Later, ThirdStep, ToUse, Use
      <4>2. AtSearch'
        BY <1>1, <4>1, PageKept
      <4> QED
        BY <1>1, <4>1, <4>2 DEF ThirdStep
    <3>5. index = 4 => FourthStep'
      <4> SUFFICES ASSUME index = 4 PROVE FourthStep'
        OBVIOUS
      <4>1. AtSearch /\ Go(Find(wanted)) /\ UNCHANGED <<page, shown>>
        BY <1>1, <3>1, <3>3 DEF Later, FourthStep, ToUse, Use
      <4>2. PICK d \in Documents : d = Find(wanted)
        BY <1>3 DEF Documents
      <4>3. OnItsWay(d)' /\ ~Answers' /\ UNCHANGED <<tenant, authenticated, pending, faults>>
        BY <1>1, <1>3, <4>1, <4>2, SentFor
      <4>4. Searching'
        BY <1>1, <4>1, <4>2, <4>3
           DEF Searching, Asked, AtSearch, Steady, Framed, Entered, Calm, OnItsWay
      <4> QED
        BY <1>7, <4>4 DEF FourthStep, ToUse
    <3>6. index = 5 => FifthStep'
      <4> SUFFICES ASSUME index = 5 PROVE FifthStep'
        OBVIOUS
      <4>1. Found /\ AtResults /\ Go(Open(shown)) /\ UNCHANGED <<page, shown>>
        BY <1>1, <3>1, <3>3 DEF Later, FifthStep, ToUse, Use
      <4>2. shown = wanted
        BY <4>1 DEF AtResults, Steady
      <4>3. PICK d \in Documents : d = Open(wanted)
        BY <1>3 DEF Documents
      <4>4. OnItsWay(d)' /\ ~Answers' /\ UNCHANGED <<tenant, authenticated, pending, faults>>
        BY <1>1, <1>3, <4>1, <4>2, <4>3, SentFor
      <4>5. Opening'
        BY <1>1, <4>1, <4>2, <4>3, <4>4
           DEF Opening, Asked, AtResults, Steady, Framed, Entered, Calm, OnItsWay
      <4> QED
        BY <1>1, <1>7, <4>1, <4>5 DEF FifthStep, ToUse, Found
    <3>7. index = 6 => SixthStep'
      <4> SUFFICES ASSUME index = 6 PROVE SixthStep'
        OBVIOUS
      <4>1. Found /\ AtDetail /\ value' = shown /\ UNCHANGED <<page, shown, loads, loading>>
        BY <1>1, <3>1, <3>3 DEF Later, SixthStep, ToUse, Use
      <4>2. Found' /\ AtDetail'
        BY <1>1, <4>1, PageKept
      <4>3. value' = wanted'
        BY <1>1, <4>1 DEF AtDetail, Steady
      <4> QED
        BY <4>2, <4>3 DEF SixthStep
    <3> QED
      BY <1>1, <1>7, <3>1, <3>4, <3>5, <3>6, <3>7 DEF Later, InRecovery, Over
  <2> QED
    BY <1>1, <1>2, <1>7, <2>1, <2>2, <2>3, Executed DEF Executing
<1> QED
  BY <1>1, <1>2, <1>4, <1>6, <1>7, Executed DEF Executing

\* What a page of the shell calls for.
LEMMA ShellDetected ==
    ASSUME Framed, NEW screen \in Answer \cup {"results", "detail"}, page["workspace"] = screen
    PROVE  Detected = IF screen \in {"not_found", "denied"} THEN "business"
                      ELSE IF screen = "notice" THEN "dismiss"
                      ELSE IF screen = "server_error" \/ (screen = "detail" /\ shown \in Alarming)
                           THEN "hard" ELSE "none"
<1>1. \A s : Shows(s) <=> s \in {"shell", "frame", screen}
  BY FrameFacts DEF Shows, Framed, Entered
<1> QED
  BY <1>1 DEF Detected, Answer

\* And one before it.
LEMMA TopDetected ==
    ASSUME NEW screen \in {"login", "expired"}, TopOnly(screen)
    PROVE  Detected = IF screen = "login" THEN "none" ELSE "reauthenticate"
<1>1. \A f \in Frames : page[f] = IF f = "top" THEN screen ELSE "blank"
  BY FrameFacts DEF TopOnly, Blank
<1>2. \A s : Shows(s) => s \in {screen, "blank"}
  BY <1>1, FrameFacts DEF Shows
<1>3. Shows(screen)
  BY <1>1, FrameFacts DEF Shows
<1> QED
  BY <1>2, <1>3 DEF Detected

\* The page with which the shell has come, as it was told.
LEMMA FilledFacts ==
    ASSUME Serving, Filling, Settled
    PROVE  \E screen \in Answer :
               /\ page["workspace"] = screen /\ Outcome(screen) /\ Filled(screen)
               /\ Framed /\ shown = None
<1>1. Fetching = {} /\ ~Awaited
  BY DEF Settled, Fetching, Awaited
<1>2. PICK screen \in Answer : Came(screen) /\ Outcome(screen)
  BY <1>1 DEF Filling
<1>3. page["workspace"] = screen
  BY <1>1, <1>2 DEF Came
<1> QED
  BY <1>1, <1>2, <1>3 DEF Filling, Framed, Filled

LEMMA DemoInspect ==
    ASSUME IInv, BankInv, DemoInv, Inspect
    PROVE  DemoInv'
<1>1. /\ pc = "look" /\ Settled
      /\ UNCHANGED <<index, resumed, left, options, given, value, typed>>
      /\ UNCHANGED <<bank, page, shown, loads, loading, given>> /\ UNCHANGED <<wanted, launched, operator>>
      /\ index \in 1 .. 6
      /\ outputs' = outputs \cup (IF index = 6 /\ value # None THEN {6} ELSE {})
      /\ observation'.done = Reached(index, outputs')
      /\ \/ Detected = "business" /\ pc' = "returned" /\ result' = "business"
         \/ Detected = "hard" /\ pc' = "returned" /\ result' = "server"
         \/ Detected = "dismiss" /\ pc' = "dismiss"
         \/ Detected = "reauthenticate" /\ pc' = "username"
         \/ Detected = "none" /\ pc' = "checkpoint"
  <2>1. N = 6 /\ index \in 1 .. N
    BY LookUpFacts DEF BankInv, N, IInv, TypeOK, Progress, Inspect, Look, Performed
  <2>2. /\ outputs' = outputs \cup (IF index = 6 /\ value # None THEN {6} ELSE {})
        /\ observation'.outcome = Detected /\ observation'.done = Reached(index, outputs')
    BY DEF Inspect, See
  <2>3. /\ pc = "look" /\ Settled /\ UNCHANGED <<run, world>>
        /\ \/ observation'.outcome = "none" /\ pc' = "checkpoint"
           \/ observation'.outcome = "business" /\ pc' = "returned" /\ result' = "business"
           \/ observation'.outcome = "hard" /\ pc' = "returned" /\ result' = "server"
           \/ observation'.outcome = "dismiss" /\ pc' = "dismiss"
           \/ observation'.outcome = "reauthenticate" /\ pc' = "username"
           \/ observation'.outcome = "retry"
    BY DEF Inspect, Look, Goto, Return
  <2>4. Detected # "retry"
    BY DEF Detected
  <2>5. UNCHANGED <<index, resumed, left, options, given, value, typed, bank, page, shown, loads, loading>>
        /\ UNCHANGED <<wanted, launched, operator>>
    BY <2>3 DEF run, world, browser, given
  <2> QED
    BY <2>1, <2>2, <2>3, <2>4, <2>5
<1>2. Detected \in {"business", "hard", "dismiss", "reauthenticate", "none"}
  BY DEF Detected
<1>3. pc' \in {"returned", "dismiss", "username", "checkpoint"} /\ Serving
  BY <1>1, <1>2 DEF BankInv
<1>4. Posted' /\ Observed'
  <2>1. Posted'
    BY <1>1, PageKept DEF DemoInv
  <2>2. Reached(index, outputs') = Reached(index, outputs)'
    BY <1>1 DEF Reached
  <2>3. observation'.ready /\ observation'.site = "safe"
    BY DEF Inspect, See
  <2> QED
    BY <1>1, <1>3, <2>1, <2>2, <2>3 DEF Observed, ToUse, InRecovery
<1>5. Unhanded /\ index = 1 => FirstStep'
  <2> SUFFICES ASSUME Unhanded, index = 1 PROVE FirstStep'
    OBVIOUS
  <2>1. Opened
    BY <1>1 DEF DemoInv, FirstStep
  <2>2. Detected = "none"
    BY <2>1, TopDetected DEF Opened
  <2>3. pc' = "checkpoint" /\ Opened'
    BY <1>1, <2>1, <2>2, PageKept
  <2> QED
    BY <2>3 DEF FirstStep, InRecovery, Over
<1>6. Unhanded /\ index = 2 => SecondStep'
  <2> SUFFICES ASSUME Unhanded, index = 2 PROVE SecondStep'
    OBVIOUS
  <2>1. SigningIn(FALSE) \/ Refused(FALSE) \/ Filling
    BY <1>1 DEF DemoInv, SecondStep
  <2>2. ~SigningIn(FALSE)
    <3>1. SignInPage # None
      BY DocumentsApart
    <3> QED
      BY <1>1, <3>1 DEF SigningIn, OnItsWay, Settled
  <2>3. CASE Refused(FALSE)
    <3>1. Detected = "reauthenticate"
      BY <2>3, TopDetected DEF Refused
    <3>2. pc' = "username" /\ Refused(FALSE)'
      BY <1>1, <2>3, <3>1, PageKept
    <3> QED
      BY <3>2 DEF SecondStep, ToUse, Over
  <2>4. CASE Filling
    <3>1. PICK screen \in Answer : /\ page["workspace"] = screen /\ Outcome(screen) /\ Filled(screen)
                                   /\ Framed /\ shown = None
      BY <1>1, <1>3, <2>4, FilledFacts
    <3>2. Detected = IF screen \in {"not_found", "denied"} THEN "business"
                     ELSE IF screen = "notice" THEN "dismiss"
                     ELSE IF screen = "server_error" THEN "hard" ELSE "none"
      BY <3>1, ShellDetected DEF Answer
    <3>3. CASE screen = "notice"
      BY <1>1, <3>1, <3>2, <3>3, PageKept DEF SecondStep, ToUse, Over
    <3>4. CASE screen = "server_error"
      <4>1. launched["server_error_500"] > 0 /\ Filled("server_error")
        BY <3>1, <3>4 DEF Outcome
      <4>2. pc' = "returned" /\ result' = "server"
        BY <1>1, <3>2, <3>4
      <4> QED
        BY <1>1, <4>1, <4>2, PageKept DEF SecondStep, ToUse, Over
    <3>5. CASE screen \in {"denied", "not_found"}
      <4>1. launched["permission_denied"] > 0 \/ launched["record_not_found"] > 0
        BY <3>1, <3>5 DEF Outcome
      <4>2. pc' = "returned" /\ result' = "business"
        BY <1>1, <3>2, <3>5
      <4> QED
        BY <1>1, <4>1, <4>2 DEF SecondStep, ToUse, Over
    <3>6. CASE screen = "search"
      <4>1. AtSearch /\ Mild
        BY <1>1, <3>1, <3>6 DEF Outcome, AtSearch, Steady
      <4>2. pc' = "checkpoint"
        BY <1>1, <3>2, <3>6
      <4> QED
        BY <1>1, <4>1, <4>2, PageKept DEF SecondStep, ToUse, Over
    <3> QED
      BY <3>3, <3>4, <3>5, <3>6 DEF Answer
  <2> QED
    BY <2>1, <2>2, <2>3, <2>4
<1>7. Demonstrated => Later'
  <2> SUFFICES ASSUME Demonstrated PROVE Later'
    OBVIOUS
  <2>1. Later /\ index \in 3 .. 6 /\ wanted \notin Alarming
    BY <1>1 DEF DemoInv, Demonstrated
  <2>2. index = 3 => ThirdStep' /\ pc' = "checkpoint"
    <3> SUFFICES ASSUME index = 3 PROVE ThirdStep' /\ pc' = "checkpoint"
      OBVIOUS
    <3>1. AtSearch /\ typed = wanted
      BY <1>1, <2>1 DEF Later, ThirdStep
    <3>2. Detected = "none"
      BY <3>1, ShellDetected DEF AtSearch, Steady, Answer
    <3> QED
      BY <1>1, <3>1, <3>2, PageKept DEF ThirdStep
  <2>3. index = 4 => FourthStep' /\ (pc' = "checkpoint" \/ (pc' = "returned" /\ result' = Expected'))
    <3> SUFFICES ASSUME index = 4
                 PROVE  FourthStep' /\ (pc' = "checkpoint" \/ (pc' = "returned" /\ result' = Expected'))
      OBVIOUS
    <3>1. Searching \/ Searched
      BY <1>1, <2>1 DEF Later, FourthStep
    <3>2. Searched
      <4>1. wanted \in Persons
        BY DEF BankInv
      <4>2. Find(wanted) # None
        <5>1. Find(wanted) \in Documents
          BY <4>1 DEF Documents
        <5> QED
          BY <5>1, DocumentFacts DEF IsDocument
      <4> QED
        BY <1>1, <3>1, <4>2 DEF Searching, Asked, OnItsWay, Settled
    <3>3. PICK screen : screen = FindAnswer.screen
      OBVIOUS
    <3>4. Framed /\ page["workspace"] = screen /\ screen \in {"not_found", "denied", "results"}
      BY <3>2, <3>3 DEF Searched, Steady, FindAnswer
    <3>5. Detected = IF screen \in {"not_found", "denied"} THEN "business" ELSE "none"
      BY <3>4, ShellDetected DEF Answer
    <3>6. CASE screen = "results"
      <4>1. wanted # None /\ wanted \notin Restricted /\ FindAnswer.member = wanted
        BY <3>3, <3>6 DEF FindAnswer
      <4>2. Found /\ AtResults
        BY <3>2, <3>3, <3>6, <4>1 DEF Found, AtResults, Searched, BankInv, Persons
      <4> QED
        BY <1>1, <3>5, <3>6, <4>2, PageKept DEF FourthStep, ToUse
    <3>7. CASE screen # "results"
      <4>1. ~Found
        BY <3>3, <3>7, BankAssumption DEF FindAnswer, Found
      <4>2. Expected' = "business"
        BY <1>1, <4>1 DEF Expected, Found
      <4> QED
        BY <1>1, <3>4, <3>5, <3>7, <4>2 DEF FourthStep, ToUse
    <3> QED
      BY <3>6, <3>7
  <2>4. index \in {5, 6} => Found /\ AtDetail
    <3>1. CASE index = 5
      <4>1. Found /\ (Opening \/ AtDetail) /\ wanted \in Persons
        BY <1>1, <2>1, <3>1 DEF Later, FifthStep, BankInv
      <4>2. Open(wanted) # None
        <5>1. Open(wanted) \in Documents
          BY <4>1 DEF Documents
        <5> QED
          BY <5>1, DocumentFacts DEF IsDocument
      <4> QED
        BY <1>1, <4>1, <4>2 DEF Opening, Asked, OnItsWay, Settled
    <3>2. CASE index = 6
      BY <1>1, <2>1, <3>2 DEF Later, SixthStep
    <3> QED
      BY <3>1, <3>2
  <2>5. index \in {5, 6} => pc' = "checkpoint" /\ Found' /\ AtDetail'
    <3> SUFFICES ASSUME index \in {5, 6} PROVE pc' = "checkpoint" /\ Found' /\ AtDetail'
      OBVIOUS
    <3>1. Detected = "none"
      BY <2>1, <2>4, ShellDetected DEF AtDetail, Steady
    <3> QED
      BY <1>1, <2>4, <3>1, PageKept
  <2>6. index = 5 => FifthStep'
    BY <2>5 DEF FifthStep, ToUse
  <2>7. index = 6 => SixthStep'
    BY <1>1, <2>1, <2>5 DEF Later, SixthStep
  <2> QED
    BY <1>1, <2>1, <2>2, <2>3, <2>5, <2>6, <2>7 DEF Later, InRecovery, Over
<1> QED
  BY <1>1, <1>3, <1>4, <1>5, <1>6, <1>7, Executed DEF Executing

\* Of a plan's faults only one has been posted, and it once.
LEMMA OnePosted ==
    ASSUME Posted, NEW k \in Troubles, launched[k] > 0
    PROVE  \A l \in Troubles \ {k} : launched[l] = 0 /\ faults[l] = 0
<1> SUFFICES ASSUME NEW l \in Troubles \ {k} PROVE launched[l] = 0 /\ faults[l] = 0
  OBVIOUS
<1>1. launched[l] \in Nat /\ faults[l] \in Nat /\ faults[l] <= launched[l]
  BY OneTrouble
<1>2. ~(launched[l] > 0)
  BY OneTrouble
<1> QED
  BY <1>1, <1>2

\* What a recovery has led to, if the step met one trouble only.
LEMMA RecoveredWell ==
    ASSUME Serving, Posted, Settled, Documented,
           \/ SigningIn(TRUE) \/ Refused(TRUE)
           \/ Filling /\ launched["session_expired"] > 0
           \/ Acknowledging \/ Acknowledged
    PROVE  AtSearch /\ Mild
<1>1. "session_expired" \in Troubles /\ "unexpected_interstitial" \in Troubles
      /\ {"server_error_500", "permission_denied", "record_not_found"} \subseteq Troubles
  BY DEF Troubles
<1>2. ~SigningIn(TRUE) /\ ~Acknowledging
  BY DocumentsApart DEF SigningIn, Acknowledging, OnItsWay, Settled
<1>3. ~Refused(TRUE)
  <2>1. launched["session_expired"] \in Nat
    BY <1>1, OneTrouble
  <2> QED
    BY <2>1 DEF Refused, Expired, Documented
<1>4. CASE Filling /\ launched["session_expired"] > 0
  <2>1. PICK screen \in Answer : /\ page["workspace"] = screen /\ Outcome(screen)
                                 /\ Framed /\ shown = None
    BY <1>4, FilledFacts
  <2>2. \A l \in Troubles \ {"session_expired"} : launched[l] = 0
    BY <1>1, <1>4, OnePosted
  <2>3. pending = None /\ screen = "search" /\ Calm /\ Mild
    BY <1>1, <2>1, <2>2 DEF Outcome
  <2> QED
    BY <2>1, <2>3 DEF AtSearch, Steady
<1>5. CASE Acknowledged
  <2>1. \A l \in Troubles \ {"unexpected_interstitial"} : launched[l] = 0 /\ faults[l] = 0
    BY <1>1, <1>5, OnePosted DEF Acknowledged
  <2>2. faults["unexpected_interstitial"] = 0
    <3>1. launched["unexpected_interstitial"] \in Nat
      BY <1>1, OneTrouble
    <3> QED
      BY <1>5, <3>1 DEF Acknowledged, Documented
  <2>3. Calm /\ Mild
    BY <1>1, <2>1, <2>2 DEF Calm, Mild
  <2> QED
    BY <1>5, <2>3 DEF Acknowledged, AtSearch, Steady
<1> QED
  BY <1>2, <1>3, <1>4, <1>5

LEMMA DemoRecover ==
    ASSUME IInv, BankInv, DemoInv, Recover
    PROVE  DemoInv'
<1>1. /\ UNCHANGED <<index, resumed, left, options, given, value, typed, outputs>>
      /\ UNCHANGED <<bank, page, shown, given>> /\ UNCHANGED <<wanted, launched, operator>>
      /\ pc \in InRecovery /\ pc' \in {"recovered", "returned", "signin", "checkpoint"}
      /\ index \in 1 .. 6
  <2>1. N = 6
    BY LookUpFacts DEF BankInv, N
  <2> QED
    BY <2>1 DEF IInv, TypeOK, Progress, N, Performed, Recover, DismissNotice, TypeUsername,
       ClickSignIn, Recovered, run, local, given, Goto, Return, InRecovery
<1>2. \/ /\ pc = "dismiss"
         /\ IF Shows("notice") THEN pc' = "recovered" /\ Go(Acknowledge)
                               ELSE pc' = "returned" /\ UNCHANGED <<loads, loading>>
      \/ /\ pc = "username" /\ pc' = "signin" /\ UNCHANGED <<loads, loading>>
      \/ /\ pc = "signin" /\ pc' = "recovered" /\ Go(SignInPage)
      \/ /\ pc = "recovered" /\ pc' = "checkpoint" /\ Settled /\ UNCHANGED <<loads, loading>>
         /\ observation'.done = Reached(index, outputs)
         /\ observation'.ready /\ observation'.site = "safe"
  BY DEF Recover, DismissNotice, TypeUsername, ClickSignIn, Recovered, See, Goto
<1>3. Posted' /\ Observed'
  <2>1. Posted'
    BY <1>1 DEF DemoInv, Posted, given, bank
  <2>2. Reached(index, outputs)' = Reached(index, outputs)
    BY <1>1 DEF Reached
  <2>3. pc' = "checkpoint" /\ index = 6 /\ value # None => 6 \in outputs
    BY <1>2 DEF DemoInv, Observed, InRecovery
  <2>4. pc' \in InRecovery /\ index = 6 /\ value # None => 6 \in outputs
    BY <1>1 DEF DemoInv, Observed
  <2> QED
    BY <1>1, <1>2, <2>1, <2>2, <2>3, <2>4 DEF Observed, ToUse
<1>4. ~(Unhanded /\ index = 1) /\ ~Demonstrated
  BY <1>1 DEF DemoInv, FirstStep, Later
<1>5. Unhanded /\ index = 2 => SecondStep'
  <2> SUFFICES ASSUME Unhanded, index = 2 PROVE SecondStep'
    OBVIOUS
  <2>1. SecondStep /\ Serving /\ Posted
    BY DEF DemoInv, BankInv
  <2>2. CASE /\ pc = "dismiss"
             /\ IF Shows("notice") THEN pc' = "recovered" /\ Go(Acknowledge)
                                   ELSE pc' = "returned" /\ UNCHANGED <<loads, loading>>
    <3>1. Filled("notice")
      BY <2>1, <2>2 DEF SecondStep
    <3>2. Settled /\ Filling /\ page["workspace"] = "notice"
      BY <3>1 DEF Filled
    <3>3. Framed /\ shown = None /\ Outcome("notice")
      BY <2>1, <3>2, FilledFacts
    <3>4. Shows("notice")
      BY <3>2, FrameFacts DEF Shows
    <3>5. pc' = "recovered" /\ Go(Acknowledge)
      BY <2>2, <3>4
    <3>6. OnItsWay(Acknowledge)' /\ ~Answers'
          /\ UNCHANGED <<tenant, authenticated, pending, faults, served>>
      BY <1>1, <2>1, <3>2, <3>5, SentFor, DocumentsApart
    <3>7. Acknowledging'
      BY <1>1, <3>2, <3>3, <3>6 DEF Acknowledging, Framed, Entered, Outcome
    <3> QED
      BY <3>5, <3>7 DEF SecondStep, ToUse, Over
  <2>3. CASE pc = "username" /\ pc' = "signin" /\ UNCHANGED <<loads, loading>>
    <3>1. Refused(FALSE)
      BY <2>1, <2>3 DEF SecondStep
    <3>2. Refused(FALSE)'
      BY <1>1, <2>3, <3>1, PageKept
    <3> QED
      BY <2>3, <3>2 DEF SecondStep, ToUse, Over
  <2>4. CASE pc = "signin" /\ pc' = "recovered" /\ Go(SignInPage)
    <3>1. Refused(FALSE)
      BY <2>1, <2>4 DEF SecondStep
    <3>2. OnItsWay(SignInPage)' /\ ~Answers' /\ ~Answers
          /\ UNCHANGED <<tenant, authenticated, pending, faults, served>>
      BY <1>1, <2>1, <2>4, <3>1, SentFor, DocumentsApart DEF Refused
    <3>3. served[Tab].stage # "routed"
      BY <2>1, <3>1 DEF Refused, Serving, Settled, ToTab, Site!Idle
    <3>4. SigningIn(TRUE)'
      BY <1>1, <3>1, <3>2, <3>3 DEF SigningIn, Refused, Expired, TopOnly, Ahead
    <3> QED
      BY <2>4, <3>4 DEF SecondStep, ToUse, Over
  <2>5. CASE pc = "recovered" /\ pc' = "checkpoint" /\ Settled /\ UNCHANGED <<loads, loading>>
    <3>1. Documented => AtSearch /\ Mild
      BY <2>1, <2>5, RecoveredWell DEF SecondStep
    <3>2. Documented' => AtSearch' /\ Mild'
      BY <1>1, <2>5, <3>1, PageKept
    <3> QED
      BY <2>5, <3>2 DEF SecondStep, ToUse, Over
  <2> QED
    BY <1>2, <2>2, <2>3, <2>4, <2>5
<1> QED
  BY <1>1, <1>3, <1>4, <1>5, Executed DEF Executing, InRecovery

-----------------------------------------------------------------------------
(* The operator                                                            *)

\* A run that waits for its operator is not over, and has not gone on.
LEMMA Waiting ==
    ASSUME IInv, BankInv, DemoInv, pc \in {"operator", "recheck"}
    PROVE  /\ ~resumed /\ index \in 1 .. 7 /\ index <= 6 /\ result \in Results
           /\ FailedStep \in 1 .. 6 /\ (result = "server" => FailedStep = index)
           /\ FailedStep # 1 => FailedStep = index
<1>1. ~resumed /\ result \in HardKinds /\ index \in 1 .. 7 /\ result \in Results
  BY LookUpFacts DEF IInv, Progress, TypeOK, BankInv, N
<1>2. (result = "invalid_input" => index = 1) /\ index <= 6
  BY <1>1, LookUpFacts DEF IInv, Progress, HardKinds, BankInv, N
<1> QED
  BY <1>1, <1>2 DEF FailedStep

LEMMA DemoRestore ==
    ASSUME IInv, BankInv, DemoInv, ScriptedRestore
    PROVE  DemoInv'
<1>1. /\ pc = "operator" /\ operator = "scripted" /\ left = None /\ Go(SearchPage)
      /\ left' = Handed
      /\ UNCHANGED <<pc, index, resumed, options, observation, result, outputs, value>>
      /\ UNCHANGED <<bank, page, shown, typed, given>> /\ UNCHANGED <<wanted, launched, operator>>
  BY DEF ScriptedRestore, vars, local, given
<1>2. /\ ~resumed /\ index \in 1 .. 7 /\ result \in Results /\ FailedStep \in Nat
      /\ (result = "server" => FailedStep = index) /\ Unhanded
  BY <1>1, Waiting DEF IInv, Progress, Unhanded
<1>3. /\ left' # None /\ left'.step = FailedStep
      /\ left'.server = (result = "server")
  BY <1>1, <1>2, HandedFacts DEF BankInv
<1>4. Posted' /\ Observed'
  BY <1>1 DEF DemoInv, Posted, given, bank, Observed, ToUse, InRecovery
<1>5. ~Unhanded' /\ ~resumed' /\ ~Demonstrated'
  BY <1>1, <1>2, <1>3 DEF Unhanded, Demonstrated
<1>6. FromServer' => ReSearching'
  <2> SUFFICES ASSUME FromServer' PROVE ReSearching'
    OBVIOUS
  <2>1. result = "server" /\ index = 2
    BY <1>1, <1>2, <1>3 DEF FromServer
  <2>2. Filled("server_error")
    BY <1>1, <1>2, <2>1 DEF DemoInv, SecondStep
  <2>3. Settled /\ Filling /\ page["workspace"] = "server_error" /\ Serving
    BY <2>2 DEF Filled, BankInv
  <2>4. Framed /\ shown = None /\ Outcome("server_error")
    BY <2>3, FilledFacts
  <2>5. OnItsWay(SearchPage)' /\ ~Answers' /\ UNCHANGED <<tenant, authenticated, pending, faults>>
    BY <1>1, <2>3, SentFor, DocumentsApart
  <2> QED
    BY <1>1, <2>3, <2>4, <2>5 DEF ReSearching, Asked, Steady, Framed, Entered, Calm, Outcome
<1>7. left'.step = FailedStep' /\ (left'.server <=> result' = "server")
  BY <1>1, <1>3 DEF FailedStep
<1>8. Restoring'
  BY <1>1, <1>3, <1>6, <1>7 DEF Restoring
<1> QED
  BY <1>1, <1>3, <1>4, <1>5, <1>8 DEF DemoInv

LEMMA DemoHuman ==
    ASSUME IInv, BankInv, DemoInv, HumanActs
    PROVE  DemoInv'
<1>1. /\ pc = "operator" /\ operator = "human" /\ UNCHANGED <<left, given>>
      /\ UNCHANGED <<pc, index, resumed, options, observation, result, outputs, value>>
      /\ UNCHANGED <<wanted, launched, operator, bank>>
  BY DEF HumanActs, vars, local, given
<1>2. ~resumed /\ index \in 1 .. 7
  BY <1>1, Waiting DEF IInv, Progress
<1>3. /\ Unhanded' = Unhanded /\ FromServer' = FromServer /\ Demonstrated' = Demonstrated
      /\ Documented' = Documented /\ Mild' = Mild
  BY <1>1, RunKept
<1>4. Posted' /\ Observed'
  BY <1>1 DEF DemoInv, Posted, bank, Observed, ToUse, InRecovery
<1>5. Unhanded => (index = 1 => FirstStep') /\ (index = 2 => SecondStep')
  BY <1>1 DEF FirstStep, SecondStep, ToUse, InRecovery, Over
<1>6. Demonstrated => Later'
  <2>1. index \in {5, 6, 7} /\ Later => Found'
    BY <1>1 DEF Later, FifthStep, SixthStep, LastStep, Found
  <2> QED
    BY <1>1, <2>1 DEF DemoInv, Later, ThirdStep, FourthStep, FifthStep, SixthStep, LastStep, ToUse,
       InRecovery, Over
<1>7. ~FromServer /\ FailedStep' = FailedStep
  BY <1>1 DEF FromServer, FailedStep
<1>8. Restoring'
  BY <1>1, <1>3, <1>7 DEF DemoInv, Restoring
<1> QED
  BY <1>1, <1>3, <1>4, <1>5, <1>6, <1>8 DEF DemoInv

LEMMA DemoBack ==
    ASSUME IInv, BankInv, DemoInv, GetBack
    PROVE  DemoInv'
<1>1. /\ pc = "operator" /\ pc' = "recheck" /\ (operator = "human" \/ (Settled /\ left # None))
      /\ left' = Handed
      /\ UNCHANGED <<index, resumed, options, result, outputs, value>>
      /\ UNCHANGED <<bank, page, shown, loads, loading, given>> /\ UNCHANGED <<wanted, launched, operator>>
  BY DEF GetBack, HandBack, run, browser, given, Goto
<1>2. /\ FailedStep \in Nat /\ result \in Results
      /\ ~resumed /\ index \in 1 .. 7 /\ (result = "server" => FailedStep = index)
  BY <1>1, Waiting DEF IInv, Progress
<1>4. /\ left' # None /\ left'.step = FailedStep
      /\ left'.server = (result = "server")
  BY <1>1, <1>2, HandedFacts DEF BankInv
<1>5. Posted' /\ Observed'
  <2>1. Posted'
    BY <1>1, PageKept DEF DemoInv
  <2> QED
    BY <1>1, <2>1 DEF Observed, ToUse, InRecovery
<1>6. ~resumed' /\ ~Unhanded' /\ ~Demonstrated'
  BY <1>1, <1>2, <1>4 DEF Unhanded, Demonstrated
<1>7. left'.step = FailedStep' /\ (left'.server <=> result' = "server")
  BY <1>1, <1>4 DEF FailedStep
<1>8. FromServer' => AtSearch'
  <2> SUFFICES ASSUME FromServer' PROVE AtSearch'
    OBVIOUS
  <2>1. /\ operator = "scripted" /\ left # None /\ Settled
        /\ result = "server" /\ FailedStep = 2
    BY <1>1, <1>4 DEF FromServer
  <2>2. left.step = 2 /\ left.server
    BY <1>1, <1>2, <2>1 DEF DemoInv, Restoring
  <2>3. ReSearching \/ AtSearch
    BY <1>1, <1>2, <2>1, <2>2 DEF DemoInv, Restoring, FromServer
  <2>4. ~ReSearching
    BY <2>1, DocumentsApart DEF ReSearching, Asked, OnItsWay, Settled
  <2> QED
    BY <1>1, <2>3, <2>4, PageKept
<1>9. Restoring'
  BY <1>1, <1>4, <1>7, <1>8 DEF Restoring
<1> QED
  BY <1>1, <1>4, <1>5, <1>6, <1>9 DEF DemoInv

-----------------------------------------------------------------------------
(* What a run does without the page, and where it ends                     *)

\* The page stays as it is.
LEMMA DemoBegin ==
    ASSUME IInv, BankInv, DemoInv, See(index, {}), Begin, UNCHANGED world
    PROVE  DemoInv'
<1>1. /\ pc = "begin" /\ UNCHANGED <<index, resumed, left, options, given>>
      /\ UNCHANGED <<bank, page, shown, loads, loading, given>> /\ UNCHANGED <<typed, outputs, value>>
      /\ index \in 1 .. 7 /\ index \in Nat
      /\ observation'.ready /\ observation'.site = "safe"
  BY LookUpFacts DEF Begin, See, run, world, browser, given, IInv, TypeOK, BankInv
<1>2. options.valid /\ options.approved
  BY BankAssumption DEF DemoInv
<1>3. pc' = "decide"
  BY <1>2 DEF Begin, Goto
<1>4. ~resumed => index = 1
  BY <1>1 DEF IInv, Progress
<1>5. Posted' /\ Observed'
  BY <1>1, <1>3, PageKept DEF DemoInv, Observed, ToUse, InRecovery
<1>6. Unhanded /\ index = 1 => FirstStep'
  BY <1>1, <1>3, PageKept DEF DemoInv, FirstStep, InRecovery, Over
<1>7. Demonstrated => Later'
  <2>1. Demonstrated => index = 3 /\ AtSearch
    BY <1>1 DEF DemoInv, Later, ThirdStep
  <2> QED
    BY <1>1, <1>3, <2>1, PageKept DEF Later, ThirdStep, InRecovery, Over
<1> QED
  BY <1>1, <1>3, <1>4, <1>5, <1>6, <1>7, Executed DEF Executing, Unhanded

\* The rules allow what is recorded, on a page like the recorded one.
LEMMA DemoDecide ==
    ASSUME IInv, BankInv, DemoInv, Decide, UNCHANGED world
    PROVE  DemoInv'
<1>1. /\ pc = "decide" /\ UNCHANGED <<index, resumed, left, options, given>>
      /\ UNCHANGED <<bank, page, shown, loads, loading, given>>
      /\ UNCHANGED <<typed, outputs, value, observation>>
      /\ index \in 1 .. 6
  BY LookUpFacts DEF Decide, run, local, world, browser, given, IInv, TypeOK, BankInv
<1>2. observation.ready /\ observation.site = "safe"
  BY <1>1 DEF DemoInv, Observed, ToUse
<1>3. index - 1 \in 0 .. 5
  BY <1>1
<1>4. ~OverBudget(Policy.limits, [steps |-> index - 1])
  BY <1>3, DemoAssumption
<1>5. Verdict(Policy, Request) = "allow"
  BY <1>2, <1>4 DEF Verdict, Request
<1>6. pc' = "resolve"
  BY <1>2, <1>5 DEF Decide, Goto
<1>7. Posted' /\ Observed'
  BY <1>1, <1>2, <1>6, PageKept DEF DemoInv, Observed, ToUse, InRecovery
<1>8. Unhanded /\ index = 1 => FirstStep'
  BY <1>1, <1>6, PageKept DEF DemoInv, FirstStep, ToUse, InRecovery, Over
<1>9. Unhanded /\ index = 2 => SecondStep'
  BY <1>1, <1>6, PageKept DEF DemoInv, SecondStep, ToUse, InRecovery, Over
<1>10. Demonstrated => Later'
  <2> SUFFICES ASSUME Demonstrated PROVE Later'
    OBVIOUS
  <2>1. Later /\ index \in {3, 4, 5, 6}
    BY <1>1 DEF DemoInv, Demonstrated
  <2>2. /\ index = 3 => AtSearch
        /\ index = 4 => AtSearch /\ typed = wanted
        /\ index = 5 => Found /\ AtResults
        /\ index = 6 => Found /\ AtDetail
    BY <1>1, <2>1 DEF Later, ThirdStep, FourthStep, FifthStep, SixthStep, ToUse
  <2>3. /\ index' = index /\ typed' = typed /\ wanted' = wanted /\ Found' = Found
        /\ AtSearch' = AtSearch /\ AtResults' = AtResults /\ AtDetail' = AtDetail
    BY <1>1, PageKept DEF given
  <2>4. /\ index' = 3 => ThirdStep'
        /\ index' = 4 => FourthStep'
        /\ index' = 5 => FifthStep'
        /\ index' = 6 => SixthStep'
    BY <1>6, <2>2, <2>3 DEF ThirdStep, FourthStep, FifthStep, SixthStep
  <2> QED
    BY <1>6, <2>1, <2>3, <2>4 DEF Later, InRecovery, Over
<1> QED
  BY <1>1, <1>6, <1>7, <1>8, <1>9, <1>10, Executed DEF Executing

LEMMA DemoSucceed ==
    ASSUME IInv, BankInv, DemoInv, Succeed, UNCHANGED world
    PROVE  DemoInv'
<1>1. /\ pc = "decide" /\ pc' = "returned" /\ result' = "success"
      /\ UNCHANGED <<index, resumed, left, options, given>>
      /\ UNCHANGED <<bank, page, shown, loads, loading, given>>
      /\ UNCHANGED <<typed, outputs, value, observation>>
      /\ index = 7
  BY LookUpFacts DEF Succeed, run, local, world, browser, given, IInv, TypeOK, BankInv, Return, Goto
<1>2. Posted' /\ Observed'
  BY <1>1, PageKept DEF DemoInv, Observed, ToUse, InRecovery
<1>3. Demonstrated => Later'
  <2>1. Demonstrated => Found
    BY <1>1 DEF DemoInv, Later, LastStep
  <2>2. Found => Expected' = "success" /\ Found'
    BY <1>1, PageKept DEF Found, Expected
  <2> QED
    BY <1>1, <2>1, <2>2 DEF Later, LastStep, InRecovery, Over
<1> QED
  BY <1>1, <1>2, <1>3, Executed DEF Executing

\* Where a run has come, the checkpoint of its step holds.
LEMMA Passed ==
    ASSUME IInv, BankInv, DemoInv, pc = "checkpoint", index \in 1 .. 6
    PROVE  /\ Unhanded /\ index = 1 => observation.done
           /\ Unhanded /\ index = 2 /\ Documented => observation.done
           /\ Demonstrated => observation.done
<1>1. observation.done = Reached(index, outputs)
  BY DEF DemoInv, Observed
<1>2. Opened => page["top"] = "login"
  BY FrameFacts DEF Opened, TopOnly, Blank
<1>3. AtSearch \/ AtResults \/ AtDetail => page["top"] = "shell"
  BY DEF AtSearch, AtResults, AtDetail, Steady, Framed, Entered
<1>4. Unhanded /\ index = 1 => observation.done
  BY <1>1, <1>2 DEF DemoInv, FirstStep, Reached
<1>5. Unhanded /\ index = 2 /\ Documented => observation.done
  <2> SUFFICES ASSUME Unhanded, index = 2, Documented PROVE observation.done
    OBVIOUS
  <2>1. page["top"] = "shell"
    BY <1>3 DEF DemoInv, SecondStep
  <2>2. Reached(index, outputs)
    BY <2>1 DEF Reached
  <2> QED
    BY <1>1, <2>2
<1>6. Demonstrated => observation.done
  <2> SUFFICES ASSUME Demonstrated PROVE observation.done
    OBVIOUS
  <2>1. Later /\ index \in {3, 4, 5, 6}
    BY DEF DemoInv, Demonstrated
  <2>2. CASE index \in {3, 4, 5}
    <3>1. page["top"] = "shell"
      BY <1>3, <2>1, <2>2 DEF Later, ThirdStep, FourthStep, FifthStep
    <3>2. Reached(index, outputs)
      BY <2>2, <3>1 DEF Reached
    <3> QED
      BY <1>1, <3>2
  <2>3. CASE index = 6
    <3>1. Found /\ value = wanted
      BY <2>1, <2>3 DEF Later, SixthStep
    <3>2. value # None
      BY <3>1, BankAssumption DEF Found
    <3>3. 6 \in outputs
      BY <2>3, <3>2 DEF DemoInv, Observed
    <3> QED
      <4>1. Reached(index, outputs)
        BY <2>3, <3>3 DEF Reached
      <4> QED
        BY <1>1, <4>1
  <2> QED
    BY <2>1, <2>2, <2>3
<1> QED
  BY <1>4, <1>5, <1>6

LEMMA DemoCheckpoint ==
    ASSUME IInv, BankInv, DemoInv, Checkpoint, UNCHANGED world
    PROVE  DemoInv'
<1>1. /\ pc = "checkpoint" /\ UNCHANGED <<resumed, left, options, given>>
      /\ UNCHANGED <<bank, page, shown, loads, loading, given>>
      /\ UNCHANGED <<typed, outputs, value, observation, wanted, operator, launched>>
      /\ index \in 1 .. 6 /\ capability[index].checked
  BY LookUpFacts DEF Checkpoint, local, world, browser, given, IInv, TypeOK, Progress, Performed, N,
     BankInv
<1>2. \/ pc' = "returned" /\ result' = "checkpoint" /\ index' = index /\ ~observation.done
      \/ pc' = "decide" /\ result' = result /\ index' = index + 1
  BY <1>1 DEF Checkpoint, Step, Return, Goto
<1>3. observation.ready /\ observation.site = "safe"
  BY <1>1 DEF DemoInv, Observed
<1>4. Posted' /\ Observed'
  BY <1>1, <1>2, <1>3, PageKept DEF DemoInv, Observed, ToUse, InRecovery
<1>5. /\ Unhanded' = Unhanded /\ FromServer' = FromServer
      /\ Documented' = Documented /\ Mild' = Mild /\ Found' = Found
  BY <1>1 DEF Unhanded, FromServer, Documented, Mild, Found
<1>6. CASE ~observation.done /\ pc' = "returned" /\ result' = "checkpoint" /\ index' = index
  <2>1. ~(Unhanded /\ index = 1) /\ ~Demonstrated
    BY <1>1, <1>6, Passed
  <2>2. Unhanded /\ index = 2 => SecondStep'
    BY <1>1, <1>5, <1>6, Passed DEF SecondStep, ToUse, Over
  <2> QED
    BY <1>1, <1>4, <1>6, <2>1, <2>2, Executed DEF Executing
<1>7. CASE pc' = "decide" /\ result' = result /\ index' = index + 1
  <2>1. Unhanded /\ index = 1 => SecondStep'
    BY <1>1, <1>7, PageKept DEF DemoInv, FirstStep, SecondStep, Over, InRecovery
  <2>2. Unhanded /\ Documented /\ index = 2 => AtSearch /\ Mild
    BY <1>1 DEF DemoInv, SecondStep
  <2>3. Demonstrated' => Later'
    <3> SUFFICES ASSUME Demonstrated' PROVE Later'
      OBVIOUS
    <3>1. wanted \notin Alarming /\ index >= 2 /\ ((Unhanded /\ Documented) \/ (resumed /\ FromServer))
      BY <1>1, <1>5, <1>7 DEF Demonstrated
    <3>2. CASE index = 2
      <4>1. AtSearch'
        BY <1>1, <2>2, <3>1, <3>2, PageKept DEF DemoInv
      <4> QED
        BY <1>7, <3>2, <4>1 DEF Later, ThirdStep, InRecovery, Over
    <3>3. CASE index >= 3
      <4>1. Later /\ index \in {3, 4, 5, 6}
        BY <1>1, <3>1, <3>3 DEF DemoInv, Demonstrated
      <4> QED
        BY <1>1, <1>5, <1>7, <4>1, PageKept
           DEF Later, ThirdStep, FourthStep, FifthStep, SixthStep, LastStep, InRecovery, Over, ToUse
    <3> QED
      BY <1>1, <3>1, <3>2, <3>3
  <2>4. left = None /\ Documented /\ index' >= 3 => Mild
    BY <1>1, <1>7, <2>2 DEF DemoInv, Unhanded
  <2>5. resumed /\ FromServer => index' >= 3
    BY <1>1, <1>7 DEF DemoInv
  <2>6. Restoring'
    BY <1>1, <1>7 DEF DemoInv, Restoring
  <2>7. Unhanded' /\ index' = 2 => SecondStep'
    BY <1>1, <1>5, <1>7, <2>1
  <2>8. ~(index' = 1)
    BY <1>1, <1>7
  <2> QED
    BY <1>1, <1>4, <1>5, <2>3, <2>4, <2>5, <2>6, <2>7, <2>8 DEF DemoInv
<1> QED
  BY <1>2, <1>6, <1>7

\* A run that has returned is handed to its operator, or ends, or breaks off.
LEMMA DemoOver ==
    ASSUME IInv, BankInv, DemoInv, Escalate \/ End \/ Raise, UNCHANGED world
    PROVE  DemoInv'
<1>1. /\ UNCHANGED <<index, resumed, left, options, given, result>>
      /\ UNCHANGED <<bank, page, shown, loads, loading, given>>
      /\ UNCHANGED <<operator, launched, wanted>>
      /\ index \in 1 .. 7
  BY LookUpFacts DEF Escalate, End, Raise, run, local, world, browser, given, IInv, TypeOK, BankInv
<1>2. \/ pc = "returned" /\ pc' \in {"operator", "ended"}
      \/ pc = "recheck" /\ pc' = "ended"
      \/ pc \notin {"ended", "raised"} /\ pc' = "raised"
  BY DEF Escalate, End, Raise, Goto
<1>3. /\ Unhanded' = Unhanded /\ FromServer' = FromServer /\ Demonstrated' = Demonstrated
      /\ Documented' = Documented /\ Mild' = Mild /\ Found' = Found /\ Expected' = Expected
      /\ Posted' = Posted /\ Filled("server_error")' = Filled("server_error")
  BY <1>1, RunKept, PageKept
<1>4. pc = "recheck" => ~Unhanded /\ ~Demonstrated
  <2>1. pc = "recheck" => left # None /\ ~resumed
    BY DEF DemoInv, Restoring, IInv, Progress
  <2> QED
    BY <2>1 DEF Unhanded, Demonstrated
<1>5. Posted' /\ Observed'
  BY <1>2, <1>3 DEF DemoInv, Observed, ToUse, InRecovery
<1>6. Unhanded /\ index = 1 => FirstStep'
  BY <1>1, <1>2, <1>4 DEF DemoInv, FirstStep, ToUse, InRecovery, Over
<1>7. Unhanded /\ index = 2 => SecondStep'
  BY <1>1, <1>2, <1>3, <1>4 DEF DemoInv, SecondStep, ToUse, InRecovery, Over, Uncertain
<1>8. Demonstrated => Later'
  BY <1>1, <1>2, <1>3, <1>4 DEF DemoInv, Later, ThirdStep, FourthStep, FifthStep, SixthStep, LastStep,
     ToUse, InRecovery, Over
<1>9. Restoring'
  <2>1. FailedStep' = FailedStep
    BY <1>1 DEF FailedStep
  <2> QED
    BY <1>1, <1>2, <2>1 DEF DemoInv, Restoring
<1> QED
  BY <1>1, <1>3, <1>5, <1>6, <1>7, <1>8, <1>9 DEF DemoInv

\* The operator has restored the search page: the third step is the next.
LEMMA DemoResume ==
    ASSUME IInv, BankInv, DemoInv, Resume, UNCHANGED world
    PROVE  DemoInv'
<1>1. /\ pc = "recheck" /\ pc' = "begin" /\ index' = FailedStep + 1 /\ resumed' = TRUE
      /\ UNCHANGED <<left, options, given>>
      /\ UNCHANGED <<bank, page, shown, loads, loading, given>>
      /\ UNCHANGED <<operator, launched, wanted>>
  BY DEF Resume, Goto, world, browser, given
<1>2. left # None /\ left.step = FailedStep /\ (FromServer => AtSearch)
  BY <1>1, Waiting DEF DemoInv, Restoring
<1>3. ~Unhanded' /\ (FromServer' = FromServer) /\ left' # None
  BY <1>1, <1>2 DEF Unhanded, FromServer
<1>4. FromServer => index' = 3 /\ AtSearch'
  BY <1>1, <1>2, PageKept DEF FromServer
<1>5. Posted' /\ Observed'
  <2>1. Posted'
    BY <1>1, PageKept DEF DemoInv
  <2> QED
    BY <1>1, <2>1 DEF Observed, ToUse, InRecovery
<1>6. Demonstrated' => Later'
  <2>1. Demonstrated' => FromServer
    BY <1>3 DEF Demonstrated
  <2> QED
    BY <1>1, <1>4, <2>1 DEF Later, ThirdStep, InRecovery, Over
<1>7. Restoring'
  BY <1>1 DEF Restoring
<1> QED
  BY <1>1, <1>3, <1>4, <1>5, <1>6, <1>7 DEF DemoInv

LEMMA DemoStutter ==
    ASSUME DemoInv, UNCHANGED <<vars, world>>
    PROVE  DemoInv'
<1>1. /\ UNCHANGED <<pc, index, resumed, observation, result, outputs, options, left, given>>
      /\ UNCHANGED <<bank, page, shown, loads, loading, given>>
      /\ UNCHANGED <<operator, launched, wanted, typed, value>>
  BY DEF vars, local, world, browser, given
<1>2. FailedStep' = FailedStep /\ Reached(index, outputs)' = Reached(index, outputs)
  BY <1>1 DEF FailedStep, Reached
<1>3. Observed' = Observed
  BY <1>1, <1>2 DEF Observed
<1>4. FirstStep' = FirstStep
  BY <1>1, PageKept DEF FirstStep
<1>5. SecondStep => SecondStep'
  <2>1. /\ Opened' = Opened /\ Filling' = Filling /\ AtSearch' = AtSearch /\ Mild' = Mild
        /\ Documented' = Documented /\ Filled("notice")' = Filled("notice")
        /\ Filled("server_error")' = Filled("server_error")
        /\ Acknowledging' = Acknowledging /\ Acknowledged' = Acknowledged
    BY <1>1, PageKept
  <2>2. /\ SigningIn(TRUE)' = SigningIn(TRUE) /\ SigningIn(FALSE)' = SigningIn(FALSE)
        /\ Refused(TRUE)' = Refused(TRUE) /\ Refused(FALSE)' = Refused(FALSE)
    BY <1>1, PageKept
  <2> QED
    BY <1>1, <2>1, <2>2 DEF SecondStep
<1>6. Later' = Later
  BY <1>1, PageKept DEF Later, ThirdStep, FourthStep, FifthStep, SixthStep, LastStep
<1>7. Restoring' = Restoring
  BY <1>1, <1>2, PageKept, RunKept DEF Restoring
<1> QED
  BY <1>1, <1>3, <1>4, <1>5, <1>6, <1>7, PageKept, RunKept DEF DemoInv

LEMMA DemoStart ==
    ASSUME BankInit
    PROVE  DemoInv
<1>1. /\ options \in Calls /\ pc = "begin" /\ index = 1 /\ ~resumed /\ left = None
      /\ launched \in FaultPlans /\ faults = launched /\ loads = {} /\ loading = None
      /\ page = [Blank EXCEPT !["top"] = "login"] /\ pending = None /\ shown = None
  BY DEF BankInit, Init
<1>2. launched \in [Site!Kinds -> Nat]
  BY <1>1, DemoAssumption
<1>3. Posted
  BY <1>1, <1>2 DEF Posted, Troubles, Site!Kinds
<1>4. FirstStep
  BY <1>1 DEF FirstStep, Opened, Settled, TopOnly, Ahead, InRecovery, Over
<1> QED
  BY <1>1, <1>3, <1>4 DEF DemoInv, Observed, ToUse, InRecovery, Demonstrated, Restoring

LEMMA DemoInductive ==
    IInv /\ BankInv /\ DemoInv /\ [BankNext]_<<vars, world>> => DemoInv'
<1>1. IInv /\ BankInv /\ DemoInv /\ Quietly => DemoInv'
  BY DemoBegin, DemoDecide, DemoCheckpoint, DemoSucceed, DemoOver, DemoResume DEF Quietly
<1>2. IInv /\ BankInv /\ DemoInv /\ BankNext => DemoInv'
  BY <1>1, DemoVisit, DemoLocate, DemoPerform, DemoInspect, DemoRecover, DemoRestore, DemoHuman,
     DemoBack DEF BankNext
<1> QED
  BY <1>2, DemoStutter

\* A replay of the recorded lookup, for any member and with one kind of fault
\* posted at its launch (cli/__main__.py --fault), ends as the demos of the
\* README say, unless an action of it timed out or raised: with what the bank
\* has for the member through every fault that recovery is declared for, with
\* the failure the others stand for, and, after the scripted operator has
\* restored the search page, with what the bank has again.
THEOREM DemosEnd == BankSpec => []DemoEndsAsDocumented
<1>1. IInv /\ BankInv /\ DemoInv => DemoEndsAsDocumented
  <2> SUFFICES ASSUME IInv, BankInv, DemoInv, pc = "ended", result \notin Uncertain,
                      wanted \notin Alarming
               PROVE  DemoEndsAsDocumented
    BY DEF DemoEndsAsDocumented, Unaided
  <2>1. index \in 1 .. 7 /\ Posted
    BY LookUpFacts DEF IInv, TypeOK, BankInv, DemoInv
  <2>2. DOMAIN launched = Site!Kinds /\ Troubles \subseteq Site!Kinds
    BY <2>1, DemoAssumption DEF Posted, Troubles, Site!Kinds
  <2>3. \A k \in Troubles : launched[k] \in Nat
    BY <2>1, OneTrouble
  <2>4. \A k, l \in Troubles : launched[k] > 0 /\ launched[l] > 0 => k = l
    BY <2>1, OneTrouble
  <2>5. Over = {"returned", "ended"}
    BY DEF Over
  <2>6. Demonstrated => result = Expected
    BY <2>5 DEF DemoInv, Later
  <2>7. ASSUME Unhanded
        PROVE  /\ /\ Only({"slow_load", "validation_error", "session_expired",
                           "unexpected_interstitial"})
                  /\ \A k \in DOMAIN launched : launched[k] <= 1
                  => result = Expected
               /\ launched["server_error_500"] > 0 => result = "server"
               /\ launched["permission_denied"] > 0 \/ launched["record_not_found"] > 0
                  => result = "business"
    <3>1. CASE index = 1
      BY <2>5, <2>7, <3>1 DEF DemoInv, FirstStep
    <3>2. CASE index >= 3 /\ Documented
      <4>1. Mild /\ result = Expected
        BY <2>6, <2>7, <3>2 DEF DemoInv, Demonstrated, Unhanded
      <4> QED
        BY <4>1 DEF Mild
    <3>3. CASE ~Documented
      <4>1. PICK k \in {"session_expired", "unexpected_interstitial"} : launched[k] > 1
        BY <2>3, <3>3 DEF Documented, Troubles
      <4>2. Mild
        <5>1. \A l \in Troubles \ {k} : launched[l] = 0
          BY <2>3, <2>4, <4>1 DEF Troubles
        <5> QED
          BY <4>1, <5>1 DEF Mild, Troubles
      <4>3. ~(launched[k] <= 1) /\ k \in DOMAIN launched
        BY <2>2, <2>3, <4>1 DEF Troubles
      <4> QED
        BY <4>2, <4>3 DEF Mild
    <3>4. CASE index = 2 /\ Documented
      <4>1. SecondStep
        BY <2>7, <3>4 DEF DemoInv
      <4>2. \/ result = "server" /\ launched["server_error_500"] > 0
            \/ result = "business" /\ (launched["permission_denied"] > 0
                                       \/ launched["record_not_found"] > 0)
        BY <2>5, <3>4, <4>1 DEF SecondStep
      <4>3. ~Only({"slow_load", "validation_error", "session_expired",
                   "unexpected_interstitial"})
        BY <2>2, <4>2 DEF Only, Troubles
      <4> QED
        BY <2>4, <4>2, <4>3 DEF Troubles
    <3> QED
      BY <2>1, <3>1, <3>2, <3>3, <3>4
  <2>8. ASSUME resumed, operator = "scripted", left.server, left.step = 2
        PROVE  result = Expected
    <3>1. FromServer /\ index >= 3
      BY <2>8 DEF DemoInv, FromServer
    <3> QED
      BY <2>6, <2>8, <3>1 DEF Demonstrated
  <2> QED
    BY <2>7, <2>8 DEF DemoEndsAsDocumented, Unaided, Unhanded
<1>2. BankSpec => []DemoInv
  BY DemoStart, DemoInductive, BankInvariant, PTL DEF BankSpec
<1> QED
  BY <1>1, <1>2, BankInvariant, PTL
=============================================================================
