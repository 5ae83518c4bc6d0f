-------------------------- MODULE MCReplayExecutor --------------------------
(***************************************************************************)
(* Capabilities of two and three steps under a limit of two steps, so that *)
(* a budget runs out in the middle of the longer one.                      *)
(***************************************************************************)
EXTENDS ReplayExecutor

Click  == [reads |-> FALSE, checked |-> FALSE, risk |-> "safe"]
Search == [reads |-> FALSE, checked |-> TRUE, risk |-> "reversible"]
Submit == [reads |-> FALSE, checked |-> TRUE, risk |-> "irreversible"]
Read   == [reads |-> TRUE, checked |-> FALSE, risk |-> "safe"]

Reading  == {<<Read, Search>>}
Recorded == Reading \cup {<<Search, Submit, Click>>}

Limited == [limits |-> [steps |-> 2], irreversible |-> "require_human_confirmation"]

PlainCalls == {o \in Options : ~o.override}

\* An approved capability, replayed with a handoff on failure.
Supervised == {o \in Options : /\ o.valid /\ o.approved /\ o.escalate
                               /\ o.allow_irreversible /\ ~o.allow_draft}
=============================================================================
