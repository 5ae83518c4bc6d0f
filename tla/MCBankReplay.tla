---------------------------- MODULE MCBankReplay ----------------------------
(***************************************************************************)
(* A member, another, one nobody may see and one whose page says 500; the  *)
(* faults that the CLI can post, and those that last for two requests.     *)
(***************************************************************************)
EXTENDS BankReplay, TLC

OnlyLookUp == {LookUp}

\* Nothing tells two members apart who may be seen and whose pages are plain.
Alike == Permutations(Members \ (Restricted \cup Alarming))

Recording == [limits |-> [steps |-> 50], irreversible |-> "require_human_confirmation"]

Approved == {o \in Options : /\ o.valid /\ o.approved /\ ~o.override
                             /\ ~o.allow_draft /\ ~o.allow_irreversible}

TwoAccounts == [m \in Members |-> <<1, 2>>]

Kinds == {"session_expired", "slow_load", "unexpected_interstitial", "server_error_500",
          "permission_denied", "record_not_found", "validation_error"}
NoFaults == [k \in Kinds |-> 0]
Twice == {"unexpected_interstitial", "session_expired"}
Plans == {NoFaults} \cup {[NoFaults EXCEPT ![k] = 1] : k \in Kinds}
                    \cup {[NoFaults EXCEPT ![k] = 2] : k \in Twice}
=============================================================================
