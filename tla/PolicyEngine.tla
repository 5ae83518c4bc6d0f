---------------------------- MODULE PolicyEngine ----------------------------
(***************************************************************************)
(* The decision of policy/engine.py.  A request says what the allowlist    *)
(* and the ordered risk rules make of the action on the observed page: the *)
(* risk of the first rule that matches, or "refused" when the URL, the     *)
(* frame or the route is not listed or no rule matches.                    *)
(***************************************************************************)
EXTENDS Integers

Risks == {"safe", "reversible", "irreversible"}

\* What the allowlist and _risk_rule make of an action on a page.
Sites == {"refused"} \cup Risks

OverBudget_FreeTokens(limits, budget) ==             \* mutant: a limit not compared
    \/ budget.steps + 1 > limits.steps
    \/ \E f \in DOMAIN limits \ {"steps", "tokens"} : budget[f] > limits[f]

\* The run would exceed a limit: the next step counts, the rest is spent.
OverBudget(limits, budget) ==
    \/ budget.steps + 1 > limits.steps
    \/ \E f \in DOMAIN limits \ {"steps"} : budget[f] > limits[f]

Irreversible_AnyStep(policy, request) ==             \* mutant: recorded risk not asked
    IF policy.irreversible = "block" THEN "deny"
    ELSE IF request.phase = "discovery"
         THEN IF policy.irreversible = "flag_and_continue"
              THEN "allow" ELSE "escalate"
    ELSE IF request.status = "approved" /\ request.flag
         THEN "allow" ELSE "deny"

\* PolicyEngine._irreversible
Irreversible(policy, request) ==
    IF policy.irreversible = "block" THEN "deny"
    ELSE IF request.phase = "discovery"
         THEN IF policy.irreversible = "flag_and_continue"
              THEN "allow" ELSE "escalate"
    ELSE IF /\ request.status = "approved"
            /\ request.recorded = "irreversible"
            /\ request.flag
         THEN "allow" ELSE "deny"

\* PolicyEngine.evaluate
Verdict(policy, request) ==
    IF OverBudget(policy.limits, request.budget) \/ request.site = "refused"
    THEN "deny"
    ELSE IF request.site = "irreversible" THEN Irreversible(policy, request)
    ELSE "allow"
=============================================================================
