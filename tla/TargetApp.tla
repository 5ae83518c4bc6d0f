----------------------------- MODULE TargetApp ------------------------------
(***************************************************************************)
(* The synthetic bank (target_app/): one signed session of create_app and  *)
(* the requests that use it, several at a time.                            *)
(*                                                                         *)
(* A request is a coroutine of one event loop.  It runs from the           *)
(* middleware to the handler, to the place where the body has been read,   *)
(* back to the middleware, and others run in between; it arrives when it   *)
(* is sent, for the server cannot tell.  Amounts are whole; an amount of 0 *)
(* stands for every deposit the form check refuses by itself, account 0    *)
(* for one that is not this member's, token 0 for none.  The ledger is     *)
(* seeded from the start: nothing reads it before the first sign-in does.  *)
(***************************************************************************)
EXTENDS Integers, FiniteSets, Sequences

CONSTANTS
    Clients,      \* connections that share the session's cookie
    Tenants,      \* configured tenants
    Extra,        \* those with an extra confirmation page
    Home,         \* the tenant a fresh session is in
    Members, Restricted,
    Seed,         \* seed_members(): the balances of each member's accounts
    Asks,         \* the requests clients make, but for the token
    FaultPlans,   \* the fault configurations a test may post
    MaxTokens,    \* bound: reviews accepted
    None

Kinds == {"session_expired", "slow_load", "unexpected_interstitial", "server_error_500",
          "permission_denied", "record_not_found", "validation_error"}

\* FormValues; a token is the number of the review that was given it, or 0.
Form == [member : Members \cup {None}, source : Nat, amount : Nat, token : Nat]

\* "login" and "frame" are the routes of the shell, the others those of /ui/.
Actions == {"login", "frame", "search", "detail", "open", "review", "confirm",
            "commit", "dismiss"}

Request == [tenant : Tenants \cup {None}, action : Actions,
            method : {"GET", "POST"}, form : Form]

Draft == [form : Form, token : Nat, confirmed : BOOLEAN]

\* What a draft offers, apart from its form: the deposit and its number.
Offered == [number : Nat, deposit : [member : Members, source : Nat, amount : Nat]]

Screens == {"login", "expired", "shell", "frame", "search", "results", "not_found",
            "detail", "open", "review", "extra", "confirmation", "denied",
            "server_error", "notice", "invalid", "unknown"}

ASSUME TargetAssumption ==
    /\ Extra \subseteq Tenants /\ Home \in Tenants /\ Restricted \subseteq Members
    /\ None \notin Tenants \cup Members \cup Draft \cup Offered
    /\ Seed \in [Members -> Seq(Nat)]
    /\ Asks \subseteq Request
    /\ FaultPlans \subseteq [Kinds -> Nat]
    /\ MaxTokens \in Nat

VARIABLES
    tenant, authenticated, draft, pending, receipts, faults,   \* Session
    ledger,    \* Session.members: the balances of each one's accounts
    minted,    \* how many reviews have been given a token
    known,     \* tokens a client has been shown
    served     \* for each client, the request under way and its answer

account == <<ledger, receipts, minted>>
session == <<tenant, authenticated, draft, pending, faults, account>>
vars    == <<session, known, served>>

Answered == [screen : Screens, member : Members \cup {None}, token : Nat]

Idle == [stage |-> "idle"]
Stages == {"routed", "reading"}
Served == {Idle}
          \cup [stage : Stages, request : Request]
          \cup [stage : {"answered"}, answer : Answered]

Reset(m) == Seed[m]

Init ==
    /\ tenant = Home /\ authenticated = FALSE
    /\ draft = None /\ pending = None
    /\ receipts = <<>> /\ ledger = [m \in Members |-> Reset(m)]
    /\ faults = [k \in Kinds |-> 0]
    /\ minted = 0 /\ known = {}
    /\ served = [c \in Clients |-> Idle]

-----------------------------------------------------------------------------
Answer(c, screen, member, token) ==
    served' = [served EXCEPT ![c] = [stage |-> "answered",
                  answer |-> [screen |-> screen, member |-> member, token |-> token]]]

Show(c, screen) == Answer(c, screen, None, 0)

Pass(c, stage) == served' = [served EXCEPT ![c].stage = stage]

At(c, stage) == served[c].stage = stage
Of(c) == served[c].request

\* FaultConfiguration.consume
Active(kind) == faults[kind] > 0
Consume(kind) == faults' = [faults EXCEPT ![kind] = @ - 1]

\* How many reviews may still be accepted of what was sent: for the bound.
UnderWay ==
    Cardinality({c \in Clients : served[c].stage \in Stages /\ Of(c).action = "review"})
    + (IF pending # None /\ pending.action = "review" THEN 1 ELSE 0)

-----------------------------------------------------------------------------
(* Clients and tests                                                       *)

\* What a client may ask of a page of the session, with a token it has been shown.
Sendable ==
    {[ask EXCEPT !.form.token = token] :
        ask \in {a \in Asks : a.action = "review" => minted + UnderWay < MaxTokens},
        token \in known \cup {0}}

Fits(request) == (request.form.token # 0) <=> (request.action \in {"confirm", "commit"})

\* POST /_test/faults replaces the configuration, whatever is under way.
SetFaults ==
    /\ faults' \in FaultPlans
    /\ UNCHANGED <<tenant, authenticated, draft, pending, account, known, served>>

-----------------------------------------------------------------------------
(* session_middleware, on the way in, and the handlers up to the body      *)

Expire_KeepsDraft(c) ==                              \* mutant: only the flag is cleared
    /\ At(c, "idle") /\ Active("session_expired")
    /\ Consume("session_expired")
    /\ authenticated' = FALSE
    /\ \E ask \in Asks : IF ask.tenant = None THEN UNCHANGED served
                                              ELSE Show(c, "expired")
    /\ UNCHANGED <<tenant, draft, pending, account, known>>

\* The session expires at the next request, whatever it is.
Expire(c) ==
    /\ At(c, "idle") /\ Active("session_expired")
    /\ Consume("session_expired")
    /\ authenticated' = FALSE /\ draft' = None /\ pending' = None
    /\ \E ask \in Asks : IF ask.tenant = None THEN UNCHANGED served
                                              ELSE Show(c, "expired")
    /\ UNCHANGED <<tenant, account, known>>

RouteTo(c) ==
    /\ At(c, "idle") /\ ~Active("session_expired")
    /\ \E request \in Sendable :
           /\ Fits(request)
           /\ served' = [served EXCEPT ![c] = [stage |-> "routed", request |-> request]]
    /\ UNCHANGED <<session, known>>

SignedIn(c) == authenticated /\ tenant = Of(c).tenant

SignIn_KeepsLedger(c) ==                             \* mutant: the members are not seeded
    /\ At(c, "routed") /\ Of(c).tenant # None
    /\ Of(c).action = "login" /\ Of(c).method = "POST"
    /\ tenant' = Of(c).tenant /\ authenticated' = TRUE
    /\ draft' = None /\ pending' = None /\ receipts' = <<>>
    /\ Show(c, "shell")
    /\ UNCHANGED <<ledger, faults, minted, known>>

\* login(): a POST starts a fresh seeded session, whatever was typed.
SignIn(c) ==
    /\ At(c, "routed") /\ Of(c).tenant # None
    /\ Of(c).action = "login" /\ Of(c).method = "POST"
    /\ tenant' = Of(c).tenant /\ authenticated' = TRUE
    /\ ledger' = [m \in Members |-> Reset(m)]
    /\ draft' = None /\ pending' = None /\ receipts' = <<>>
    /\ Show(c, "shell")
    /\ UNCHANGED <<faults, minted, known>>

\* Every request that its handler answers before it awaits anything.
Refuse(c) ==
    /\ At(c, "routed")
    /\ \/ Of(c).tenant = None /\ Show(c, "unknown")
       \/ /\ Of(c).tenant # None /\ Of(c).action = "login" /\ Of(c).method = "GET"
          /\ Show(c, IF SignedIn(c) THEN "shell" ELSE "login")
       \/ /\ Of(c).tenant # None /\ Of(c).action # "login" /\ ~SignedIn(c)
          /\ Show(c, "login")
       \/ Of(c).action = "frame" /\ SignedIn(c) /\ Show(c, "frame")
    /\ UNCHANGED <<session, known>>

\* ui() awaits the body: that the session is signed in was checked before.
ReadBody(c) ==
    /\ At(c, "routed") /\ SignedIn(c)
    /\ Of(c).action \notin {"login", "frame"}
    /\ Pass(c, "reading")
    /\ UNCHANGED <<session, known>>

-----------------------------------------------------------------------------
(* workflow(): an operation is what a request asks, or a notice has kept   *)

Tokens == {receipts[i].token : i \in DOMAIN receipts}

Confirming(op) == op.action \in {"confirm", "commit"}

\* A confirmation that has had its effect, or that fits no reviewed request.
Repeats(op) == Confirming(op) /\ op.method = "POST" /\ op.form.token \in Tokens
Matches(op) == op.method = "POST" /\ draft # None /\ draft.token = op.form.token

\* Confirmations are about the form that was reviewed, not the one they carry.
Subject(op) == IF Confirming(op) THEN draft.form ELSE op.form

\* The operation gets as far as the member it is about.
Concerns(op) == /\ ~(op.action = "search" /\ op.method = "GET")
                /\ Confirming(op) => ~Repeats(op) /\ Matches(op)
Allowed(op) == Concerns(op) /\ Subject(op).member \in Members \ Restricted

\* deposit_error
Covered(form) ==
    /\ form.amount > 0
    /\ form.source \in DOMAIN ledger[form.member]
    /\ form.amount <= ledger[form.member][form.source]

Browse(c, op) ==
    /\ \/ op.action = "search" /\ op.method = "GET" /\ Show(c, "search")
       \/ Repeats(op) /\ Answer(c, "confirmation", None, op.form.token)
       \/ Confirming(op) /\ ~Repeats(op) /\ ~Matches(op) /\ Show(c, "invalid")
       \/ Concerns(op) /\ Subject(op).member = None /\ Show(c, "not_found")
       \/ Concerns(op) /\ Subject(op).member \in Restricted /\ Show(c, "denied")
       \/ /\ Allowed(op) /\ op.action \in {"search", "detail", "open"}
          /\ Answer(c, IF op.action = "search" THEN "results" ELSE op.action,
                    op.form.member, 0)
       \/ /\ Allowed(op)
          /\ op.action = "dismiss" \/ (op.action = "review" /\ op.method = "GET")
          /\ Show(c, "invalid")
    /\ UNCHANGED <<draft, account>>

\* The draft of an earlier review is gone, whether or not this one is accepted.
Review(c, op, rejected) ==
    /\ Allowed(op) /\ op.action = "review" /\ op.method = "POST"
    /\ IF rejected \/ ~Covered(op.form)
       THEN /\ draft' = None
            /\ Answer(c, "open", op.form.member, 0)
            /\ UNCHANGED account
       ELSE /\ minted' = minted + 1
            /\ draft' = [form |-> op.form, token |-> minted + 1, confirmed |-> FALSE]
            /\ Answer(c, "review", op.form.member, minted + 1)
            /\ UNCHANGED <<ledger, receipts>>

\* The extra page: shown by confirm, and required by commit.
Confirm(c, op) ==
    /\ Allowed(op) /\ Confirming(op) /\ Of(c).tenant \in Extra
    /\ \/ /\ op.action = "confirm"
          /\ draft' = [draft EXCEPT !.confirmed = TRUE]
          /\ Answer(c, "extra", draft.form.member, draft.token)
       \/ /\ op.action = "commit" /\ ~draft.confirmed
          /\ Show(c, "invalid")
          /\ UNCHANGED draft
    /\ UNCHANGED account

Debited_NotAtAll(form) == ledger[form.member]        \* mutant: nothing is debited

Debited(form) == [ledger[form.member] EXCEPT ![form.source] = @ - form.amount]

Commit_KeepsDraft(c, op) ==                          \* mutant: the review stays open
    /\ Allowed(op) /\ Confirming(op)
    /\ Of(c).tenant \in Extra => op.action = "commit" /\ draft.confirmed
    /\ LET form == draft.form IN
       IF Covered(form)
       THEN /\ ledger' = [ledger EXCEPT ![form.member] =
                               Append(Debited(form), form.amount)]
            /\ receipts' = Append(receipts, [token |-> draft.token, member |-> form.member,
                                             account |-> Len(ledger[form.member]) + 1,
                                             amount |-> form.amount])
            /\ Answer(c, "confirmation", None, draft.token)
            /\ UNCHANGED <<draft, minted>>
       ELSE Answer(c, "open", form.member, 0) /\ UNCHANGED <<draft, account>>

\* The form is checked again, then the deposit moves to a new account.
Commit(c, op) ==
    /\ Allowed(op) /\ Confirming(op)
    /\ Of(c).tenant \in Extra => op.action = "commit" /\ draft.confirmed
    /\ draft' = None
    /\ LET form == draft.form IN
       IF Covered(form)
       THEN /\ ledger' = [ledger EXCEPT ![form.member] =
                               Append(Debited(form), form.amount)]
            /\ receipts' = Append(receipts, [token |-> draft.token, member |-> form.member,
                                             account |-> Len(ledger[form.member]) + 1,
                                             amount |-> form.amount])
            /\ Answer(c, "confirmation", None, draft.token)
            /\ UNCHANGED minted
       ELSE Answer(c, "open", form.member, 0) /\ UNCHANGED account

Workflow(c, op, rejected) ==
    \/ Browse(c, op)
    \/ Review(c, op, rejected)
    \/ Confirm(c, op)
    \/ Commit(c, op)

\* A configured validation error meets the next review that reaches workflow.
Carry(c, op) ==
    LET rejected == op.action = "review" /\ op.method = "POST" /\ Active("validation_error")
    IN /\ IF rejected THEN Consume("validation_error") ELSE UNCHANGED faults
       /\ Workflow(c, op, rejected)

-----------------------------------------------------------------------------
(* ui(), once the body is there                                            *)

Operation(c) == [action |-> Of(c).action, method |-> Of(c).method, form |-> Of(c).form]

Dismisses(c) == Of(c).action = "dismiss" /\ Of(c).method = "POST"

\* A body of more than 16 KiB.
TooLarge(c) ==
    /\ At(c, "reading")
    /\ Show(c, "invalid")
    /\ UNCHANGED <<session, known>>

\* While a notice is up every other request is answered with it, and lost.
Blocked(c) ==
    /\ At(c, "reading") /\ pending # None /\ ~Dismisses(c)
    /\ Show(c, "notice")
    /\ UNCHANGED <<session, known>>

\* Dismissing it runs the operation it kept, which meets no further notice.
Dismiss(c) ==
    /\ At(c, "reading") /\ pending # None /\ Dismisses(c)
    /\ pending' = None
    /\ Carry(c, pending)
    /\ UNCHANGED <<tenant, authenticated, known>>

Interrupt(c) ==
    /\ At(c, "reading") /\ pending = None /\ Active("unexpected_interstitial")
    /\ Consume("unexpected_interstitial")
    /\ pending' = Operation(c)
    /\ Show(c, "notice")
    /\ UNCHANGED <<tenant, authenticated, draft, account, known>>

\* The faults that answer in the operation's place, in their order.
Disturb(c) ==
    /\ At(c, "reading") /\ pending = None /\ ~Active("unexpected_interstitial")
    /\ \/ /\ Active("server_error_500")
          /\ Consume("server_error_500") /\ Show(c, "server_error")
       \/ /\ ~Active("server_error_500") /\ Active("permission_denied")
          /\ Consume("permission_denied") /\ Show(c, "denied")
       \/ /\ ~Active("server_error_500") /\ ~Active("permission_denied")
          /\ Active("record_not_found")
          /\ Consume("record_not_found") /\ Show(c, "not_found")
    /\ UNCHANGED <<tenant, authenticated, draft, pending, account, known>>

Undisturbed == \A kind \in {"unexpected_interstitial", "server_error_500",
                             "permission_denied", "record_not_found"} : ~Active(kind)

Handle(c) ==
    /\ At(c, "reading") /\ pending = None /\ Undisturbed
    /\ Carry(c, Operation(c))
    /\ UNCHANGED <<tenant, authenticated, pending, known>>

\* session_middleware, on the way out: the answer may be slow to leave.
Leave(c) ==
    /\ At(c, "answered")
    /\ IF Active("slow_load") THEN Consume("slow_load") ELSE UNCHANGED faults
    /\ known' = IF served[c].answer.screen \in {"review", "extra"}
                THEN known \cup {served[c].answer.token} ELSE known
    /\ served' = [served EXCEPT ![c] = Idle]
    /\ UNCHANGED <<tenant, authenticated, draft, pending, account>>

-----------------------------------------------------------------------------
Serve(c) ==
    \/ Expire(c) \/ RouteTo(c) \/ SignIn(c) \/ Refuse(c) \/ ReadBody(c)
    \/ TooLarge(c) \/ Blocked(c) \/ Dismiss(c) \/ Interrupt(c) \/ Disturb(c)
    \/ Handle(c) \/ Leave(c)

Next == SetFaults \/ \E c \in Clients : Serve(c)

Spec == Init /\ [][Next]_vars

-----------------------------------------------------------------------------
(* Properties                                                              *)

Kept == [action : Actions, method : {"GET", "POST"}, form : Form]
Receipt == [token : Nat, member : Members, account : Nat, amount : Nat]

\* The variables of the session keep their types.
TypeOK ==
    /\ tenant \in Tenants /\ authenticated \in BOOLEAN
    /\ draft \in Draft \cup {None} /\ pending \in Kept \cup {None}
    /\ receipts \in Seq(Receipt)
    /\ faults \in [Kinds -> Nat]
    /\ ledger \in [Members -> Seq(Nat)]
    /\ minted \in Nat /\ known \in SUBSET (1 .. minted)
    /\ served \in [Clients -> Served]

\* "Repeated confirmation tokens cannot debit twice": a token has at most one
\* receipt and none while its review is open, and the accounts opened since the
\* sign-in are, one by one, those of the receipts.
OneReceiptPerToken ==
    /\ \A i, j \in DOMAIN receipts : receipts[i].token = receipts[j].token => i = j
    /\ draft # None => draft.token \notin Tokens
    /\ \A m \in Members : \A a \in Len(Seed[m]) + 1 .. Len(ledger[m]) :
           \E i \in DOMAIN receipts : receipts[i].member = m /\ receipts[i].account = a
    /\ \A i, j \in DOMAIN receipts :
           /\ receipts[i].account \in Len(Seed[receipts[i].member]) + 1
                                        .. Len(ledger[receipts[i].member])
           /\ /\ receipts[i].member = receipts[j].member
              /\ receipts[i].account = receipts[j].account
              => i = j

Total(balances) ==
    LET sum[n \in 0 .. Len(balances)] == IF n = 0 THEN 0 ELSE sum[n - 1] + balances[n]
    IN  sum[Len(balances)]

\* A transfer neither makes nor loses money, whatever requests it met.
MoneyIsConserved ==
    \A m \in Members : Total(ledger[m]) = Total(Seed[m])

\* An accepted review stays payable until it is committed or dropped: the
\* check that commit repeats never refuses.
DraftStaysPayable == draft # None => Covered(draft.form)

\* Nothing is committed in a session that has expired, though the requests
\* of other clients were let in before it did.
CommitsAreAuthenticated ==
    [][Len(receipts') > Len(receipts) => authenticated]_vars

Deposit(form) == [member |-> form.member, source |-> form.source, amount |-> form.amount]

Offer(d) == IF d = None THEN None
            ELSE [number |-> d.token, deposit |-> Deposit(d.form)]

Bank == INSTANCE OneTimeDeposits WITH
    offer <- Offer(draft),
    offers <- minted

ImplementsOneTimeDeposits == Bank!Spec
=============================================================================
