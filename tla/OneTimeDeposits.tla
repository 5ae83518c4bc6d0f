-------------------------- MODULE OneTimeDeposits ---------------------------
(***************************************************************************)
(* What the bank promises of its deposits: the money moves once, exactly   *)
(* as in the review the bank itself keeps, or not at all.                  *)
(***************************************************************************)
EXTENDS Integers, Sequences

CONSTANTS Members, Seed, None

VARIABLES ledger,    \* the balances of each member's accounts
          offer,     \* the deposit that may be confirmed, with its number
          offers     \* how many offers there have been

vars == <<ledger, offer, offers>>

Start == [m \in Members |-> Seed[m]]

Init == ledger = Start /\ offer = None /\ offers = 0

Payable(d) == /\ d.amount > 0
              /\ d.source \in DOMAIN ledger[d.member]
              /\ d.amount <= ledger[d.member][d.source]

\* A new offer replaces the one before it; a number is never offered again.
Offer == /\ offers' = offers + 1
         /\ offer'.number = offers'
         /\ Payable(offer'.deposit)
         /\ UNCHANGED ledger

Withdraw == offer' = None /\ UNCHANGED <<ledger, offers>>

\* The amount leaves its source and is all that the new account holds.
Move(d) == LET rest == [ledger[d.member] EXCEPT ![d.source] = @ - d.amount]
           IN  ledger' = [ledger EXCEPT ![d.member] = Append(rest, d.amount)]

Accept == /\ offer # None
          /\ Payable(offer.deposit)
          /\ Move(offer.deposit)
          /\ offer' = None
          /\ UNCHANGED offers

\* A sign-in begins again with the seeded balances.
Restart == ledger' = Start /\ offer' = None /\ UNCHANGED offers

Next == Offer \/ Withdraw \/ Accept \/ Restart

Spec == Init /\ [][Next]_vars
=============================================================================
