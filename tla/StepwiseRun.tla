----------------------------- MODULE StepwiseRun ----------------------------
(***************************************************************************)
(* What a replay promises its caller: the recorded steps are accepted one  *)
(* by one, in order; the run succeeds only when all are; a failed run may  *)
(* be taken up again once, past the step a person has completed; an answer *)
(* is final.                                                               *)
(***************************************************************************)
EXTENDS Integers

VARIABLES steps,     \* how many steps the capability records
          accepted,  \* how many of them are accepted
          result,    \* the result so far
          takenUp    \* has the run been taken up after a failure?

vars == <<steps, accepted, result, takenUp>>

Init == /\ steps \in Nat \ {0}
        /\ accepted = 0
        /\ result = "none"
        /\ takenUp = FALSE

Accept == /\ result = "none"
          /\ accepted < steps
          /\ accepted' = accepted + 1
          /\ UNCHANGED <<steps, result, takenUp>>

Succeed == /\ result = "none"
           /\ accepted = steps
           /\ result' = "success"
           /\ UNCHANGED <<steps, accepted, takenUp>>

Answer == /\ result = "none"
          /\ accepted < steps
          /\ result' = "business"
          /\ UNCHANGED <<steps, accepted, takenUp>>

Fail == /\ result = "none"
        /\ result' \notin {"none", "success", "business"}
        /\ UNCHANGED <<steps, accepted, takenUp>>

TakeUp == /\ result \notin {"none", "success", "business"}
          /\ ~takenUp
          /\ takenUp' = TRUE
          /\ accepted' = accepted + 1
          /\ accepted' <= steps
          /\ result' = "none"
          /\ UNCHANGED steps

Next == Accept \/ Succeed \/ Answer \/ Fail \/ TakeUp

Spec == Init /\ [][Next]_vars
=============================================================================
