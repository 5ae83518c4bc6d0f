-------------------------- MODULE ExclusiveControl --------------------------
(***************************************************************************)
(* What a handoff promises, with no lease, lock, token, console or task in *)
(* it: one browser, driven by one party at a time, lent to an operator at  *)
(* most once per request, and driven again by automation only after what   *)
(* the operator changed has been put on record.                            *)
(***************************************************************************)
EXTENDS Naturals

VARIABLES phase,   \* how far the loan of the browser has come
          acts     \* number of actions automation has performed

vars == <<phase, acts>>

Phases == {"before", "operator", "returned", "accounted"}

Init == phase = "before" /\ acts = 0

\* Automation may drive before the loan and after it is accounted for.
Drive == /\ phase \in {"before", "accounted"}
         /\ acts' = acts + 1
         /\ UNCHANGED phase

HandOver == /\ phase = "before"
            /\ phase' = "operator"
            /\ UNCHANGED acts

GiveBack == /\ phase = "operator"
            /\ phase' = "returned"
            /\ UNCHANGED acts

Account == /\ phase = "returned"
           /\ phase' = "accounted"
           /\ UNCHANGED acts

Next == Drive \/ HandOver \/ GiveBack \/ Account

Spec == Init /\ [][Next]_vars
=============================================================================
