-------------------------- MODULE MCDiscoveryAgent --------------------------
(***************************************************************************)
(* Five moves, one of each kind the graph tells apart.  Tokens may run out *)
(* before steps and calls; calls run out before steps after a handoff and  *)
(* together with them otherwise.                                           *)
(***************************************************************************)
EXTENDS DiscoveryAgent

Proposals == {[key |-> "click", output |-> None, kind |-> "other", site |-> "safe"],
              [key |-> "read", output |-> "balance", kind |-> "read", site |-> "safe"],
              [key |-> "goto", output |-> None, kind |-> "navigate", site |-> "reversible"],
              [key |-> "submit", output |-> None, kind |-> "other", site |-> "irreversible"],
              [key |-> "leave", output |-> None, kind |-> "other", site |-> "refused"]}

Targets == {"click", "read", "goto", "submit", "leave"}

Costs == {0, 2}

Limited == [limits |-> [steps |-> 4, llm_calls |-> 4, tokens |-> 7],
            irreversible |-> "require_human_confirmation"]
=============================================================================
