--------------------------- MODULE MCRecordedRun ----------------------------
(***************************************************************************)
(* Five moves on two pages: reading one target as one output or as         *)
(* another, a navigation, entering data and the submission an operator has *)
(* to confirm.                                                             *)
(***************************************************************************)
EXTENDS RecordedRun

Proposals == {[key |-> "read", output |-> "balance", kind |-> "read", site |-> "safe"],
              [key |-> "read", output |-> "name", kind |-> "read", site |-> "safe"],
              [key |-> "goto", output |-> None, kind |-> "navigate", site |-> "safe"],
              [key |-> "type", output |-> None, kind |-> "other", site |-> "reversible"],
              [key |-> "submit", output |-> None, kind |-> "other", site |-> "irreversible"]}

Targets == {"read", "goto", "type", "submit"}

Limited == [limits |-> [steps |-> 3, llm_calls |-> 3, tokens |-> 9],
            irreversible |-> "require_human_confirmation"]
=============================================================================
