--------------------------- MODULE TargetAppProofs ---------------------------
(***************************************************************************)
(* For any clients, members, requests and faults: no token debits twice,   *)
(* nothing is committed after an expiry, and the bank keeps the promise of *)
(* OneTimeDeposits.                                                        *)
(*                                                                         *)
(* The argument: whatever runs, the account is left alone or changed in    *)
(* one of five ways (Effects).  A token that a request carries was shown,  *)
(* so it is none that is still to be minted (Bounded); a review that is    *)
(* accepted in an expired session has a new one, which no request let in   *)
(* before carries, and none is let in after (Unreachable).                 *)
(***************************************************************************)
EXTENDS TargetApp, SequenceTheorems, WellFoundedInduction, TLAPS

\* The request c has been let in, or kept behind a notice, and carries token t.
Carries(t) == \/ \E c \in Clients : At(c, "reading") /\ Of(c).form.token = t
              \/ pending # None /\ pending.form.token = t

\* No token is ahead of the reviews.
Bounded ==
    /\ draft # None => draft.token \in 1 .. minted
    /\ \A i \in DOMAIN receipts : receipts[i].token \in 1 .. minted
    /\ \A c \in Clients : served[c].stage \in Stages => Of(c).form.token \in 0 .. minted
    /\ pending # None => pending.form.token \in 0 .. minted
    /\ \A c \in Clients :
           At(c, "answered") /\ served[c].answer.screen \in {"review", "extra"}
           => served[c].answer.token \in 1 .. minted

\* The draft of an expired session is out of every request's reach.
Unreachable == draft # None /\ ~authenticated => ~Carries(draft.token)

\* A draft is about a member who may be seen, and can be paid.
Sound == draft # None => /\ draft.form.member \in Members \ Restricted
                         /\ Covered(draft.form)

\* The accounts that were opened are those of the receipts.
Opened ==
    /\ \A m \in Members : Len(Seed[m]) <= Len(ledger[m])
    /\ OneReceiptPerToken

IInv == TypeOK /\ Bounded /\ Unreachable /\ Sound /\ Opened

-----------------------------------------------------------------------------
(* What any step does to the draft and the account                         *)

Keeps == UNCHANGED <<draft, account>>

Drops == draft' = None /\ UNCHANGED account

Offers(form) ==
    /\ form.member \in Members \ Restricted /\ Covered(form)
    /\ minted' = minted + 1
    /\ draft' = [form |-> form, token |-> minted + 1, confirmed |-> FALSE]
    /\ UNCHANGED <<ledger, receipts>>

Confirms ==
    /\ draft # None
    /\ draft' = [draft EXCEPT !.confirmed = TRUE]
    /\ UNCHANGED account

NewReceipt == [token |-> draft.token, member |-> draft.form.member,
               account |-> Len(ledger[draft.form.member]) + 1, amount |-> draft.form.amount]

Deposits ==
    /\ draft # None
    /\ draft' = None
    /\ ledger' = [ledger EXCEPT ![draft.form.member] =
           Append(Debited(draft.form), draft.form.amount)]
    /\ receipts' = Append(receipts, NewReceipt)
    /\ UNCHANGED minted

Effects == Keeps \/ Drops \/ (\E form \in Form : Offers(form)) \/ Confirms \/ Deposits

-----------------------------------------------------------------------------
\* A bank without requests has nothing to be wrong.
LEMMA InductiveInit == Init => IInv
<1>. SUFFICES ASSUME Init PROVE IInv
  OBVIOUS
<1>1. /\ receipts = <<>> /\ draft = None /\ pending = None /\ minted = 0 /\ known = {}
      /\ \A c \in Clients : served[c] = Idle
      /\ ledger = [m \in Members |-> Seed[m]]
  BY DEF Init, Reset
<1>2. TypeOK
  <2>1. tenant \in Tenants /\ authenticated \in BOOLEAN /\ faults \in [Kinds -> Nat]
    BY TargetAssumption DEF Init
  <2>2. ledger \in [Members -> Seq(Nat)]
    BY <1>1, TargetAssumption
  <2>3. served \in [Clients -> Served]
    BY DEF Init, Served
  <2>. QED
    BY <1>1, <2>1, <2>2, <2>3 DEF TypeOK
<1>3. Bounded /\ Unreachable /\ Sound
  BY <1>1 DEF Bounded, Unreachable, Sound, At, Idle, Stages
<1>4. Opened
  <2>1. \A m \in Members : ledger[m] = Seed[m] /\ Len(Seed[m]) \in Nat
    BY <1>1, TargetAssumption
  <2>. QED
    BY <1>1, <2>1 DEF Opened, OneReceiptPerToken, Tokens
<1>. QED
  BY <1>2, <1>3, <1>4 DEF IInv

\* A request that was let in is one of Request.
LEMMA RequestTypes ==
    ASSUME TypeOK, NEW c \in Clients, served[c].stage \in Stages
    PROVE  /\ Of(c) \in Request
           /\ Operation(c) \in Kept
           /\ Operation(c).form = Of(c).form
<1>1. served[c] \in Served /\ served[c] # Idle
  BY DEF TypeOK, Idle, Stages
<1>2. served[c] \in [stage : Stages, request : Request]
  BY <1>1 DEF Served, Stages
<1>. QED
  BY <1>2 DEF Of, Operation, Kept, Request

\* What an answer leaves in served.
LEMMA AnswerTypes ==
    ASSUME TypeOK, NEW c \in Clients, NEW screen \in Screens,
           NEW member \in Members \cup {None}, NEW token \in Nat,
           Answer(c, screen, member, token)
    PROVE  /\ served' \in [Clients -> Served]
           /\ At(c, "answered")'
           /\ served'[c].answer.screen = screen /\ served'[c].answer.token = token
           /\ \A d \in Clients \ {c} : served'[d] = served[d]
  BY DEF TypeOK, Answer, Served, Answered, At

-----------------------------------------------------------------------------
\* An operation of workflow has one of the effects, it answers, and a token it
\* shows has been minted.
Replies(c) ==
    /\ served' \in [Clients -> Served]
    /\ At(c, "answered")'
    /\ served'[c].answer.screen \in {"review", "extra"} => served'[c].answer.token \in 1 .. minted'
    /\ \A d \in Clients \ {c} : served'[d] = served[d]

LEMMA BrowseEffects ==
    ASSUME IInv, NEW c \in Clients, NEW op \in Kept, Browse(c, op)
    PROVE  Keeps /\ Replies(c)
<1>1. Keeps
  BY DEF Browse, Keeps
<1>2. TypeOK /\ op.form.token \in Nat /\ op.form.member \in Members \cup {None} /\ 0 \in Nat
  BY DEF IInv, Kept, Form
<1>3. \E screen \in Screens \ {"review", "extra"}, member \in Members \cup {None}, token \in Nat :
          Answer(c, screen, member, token)
  <2>1. {"search", "confirmation", "invalid", "not_found", "denied", "results", "detail", "open"}
        \subseteq Screens \ {"review", "extra"}
    BY DEF Screens
  <2>2. CASE \E screen \in {"search", "invalid", "not_found", "denied"} : Show(c, screen)
    BY <1>2, <2>1, <2>2 DEF Show
  <2>3. CASE Answer(c, "confirmation", None, op.form.token)
    BY <1>2, <2>1, <2>3
  <2>4. CASE \E screen \in {"results", "detail", "open"} : Answer(c, screen, op.form.member, 0)
    BY <1>2, <2>1, <2>4
  <2>. QED
    BY <2>2, <2>3, <2>4 DEF Browse
<1>. QED
  BY <1>1, <1>2, <1>3, AnswerTypes DEF Replies

LEMMA ReviewEffects ==
    ASSUME IInv, NEW c \in Clients, NEW op \in Kept, NEW rejected, Review(c, op, rejected)
    PROVE  (Drops \/ \E form \in Form : Offers(form)) /\ Replies(c)
<1>1. /\ TypeOK /\ op.form \in Form /\ minted \in Nat /\ minted + 1 \in Nat
      /\ op.form.member \in Members \ Restricted
      /\ {"open", "review"} \subseteq Screens
  BY DEF IInv, TypeOK, Review, Kept, Allowed, Subject, Confirming, Screens
<1>2. CASE rejected \/ ~Covered(op.form)
  <2>1. Drops /\ Answer(c, "open", op.form.member, 0) /\ 0 \in Nat
    BY <1>2 DEF Review, Drops, account
  <2>. QED
    BY <1>1, <2>1, AnswerTypes DEF Replies
<1>3. CASE ~(rejected \/ ~Covered(op.form))
  <2>1. /\ Offers(op.form)
        /\ Answer(c, "review", op.form.member, minted + 1) /\ minted' = minted + 1
    BY <1>1, <1>3 DEF Review, Offers
  <2>. QED
    BY <1>1, <2>1, AnswerTypes DEF Replies
<1>. QED
  BY <1>2, <1>3

\* A confirmation is about the draft, whose token it carries.
LEMMA Reviewed ==
    ASSUME NEW op, Allowed(op), Confirming(op)
    PROVE  draft # None /\ draft.token = op.form.token
  BY DEF Allowed, Concerns, Matches

LEMMA ConfirmEffects ==
    ASSUME IInv, NEW c \in Clients, NEW op \in Kept, Confirm(c, op)
    PROVE  (Keeps \/ Confirms) /\ Replies(c)
<1>1. /\ TypeOK /\ draft # None /\ draft.token \in 1 .. minted /\ minted \in Nat
      /\ draft.token \in Nat /\ draft.form.member \in Members \cup {None}
      /\ {"extra", "invalid"} \subseteq Screens /\ UNCHANGED account
  BY Reviewed DEF IInv, TypeOK, Bounded, Confirm, Draft, Form, Screens
<1>2. CASE draft' = [draft EXCEPT !.confirmed = TRUE]
           /\ Answer(c, "extra", draft.form.member, draft.token)
  BY <1>1, <1>2, AnswerTypes DEF Confirms, Replies, account
<1>3. CASE Show(c, "invalid") /\ UNCHANGED draft
  BY <1>1, <1>3, AnswerTypes DEF Keeps, Replies, Show
<1>. QED
  BY <1>2, <1>3 DEF Confirm

\* A commitment is of the draft, whose token the request carries.
LEMMA CommitEffects ==
    ASSUME IInv, NEW c \in Clients, NEW op \in Kept, Commit(c, op)
    PROVE  Deposits /\ draft.token = op.form.token /\ Replies(c)
<1>1. /\ TypeOK /\ draft # None /\ draft.token = op.form.token
      /\ draft.token \in Nat /\ Covered(draft.form) /\ "confirmation" \in Screens
  BY Reviewed DEF IInv, TypeOK, Sound, Commit, Draft, Screens
<1>2. Deposits /\ Answer(c, "confirmation", None, draft.token)
  BY <1>1 DEF Commit, Deposits, NewReceipt
<1>. QED
  BY <1>1, <1>2, AnswerTypes DEF Replies

\* Whether it comes in a request or was kept, an operation has these effects;
\* it moves money for the token it carries only.
LEMMA CarryEffects ==
    ASSUME IInv, NEW c \in Clients, NEW op \in Kept, Carry(c, op)
    PROVE  /\ Effects /\ Replies(c)
           /\ Deposits => draft.token = op.form.token
           /\ faults' \in [Kinds -> Nat]
<1>1. faults' \in [Kinds -> Nat]
  BY DEF Carry, Consume, Active, IInv, TypeOK, Kinds
<1>2. PICK rejected : Workflow(c, op, rejected)
  BY DEF Carry
<1>3. ~(Deposits /\ Keeps) /\ ~(Deposits /\ Drops) /\ ~(Deposits /\ Confirms)
      /\ ~(Deposits /\ \E form \in Form : Offers(form))
  BY DEF Deposits, Keeps, Drops, Confirms, Offers, account, NewReceipt, IInv, TypeOK
<1>. QED
  BY <1>1, <1>2, <1>3, BrowseEffects, ReviewEffects, ConfirmEffects, CommitEffects
     DEF Workflow, Effects

-----------------------------------------------------------------------------
(* What any step does to the rest                                          *)

Restarts ==
    /\ ledger' = [m \in Members |-> Reset(m)] /\ receipts' = <<>>
    /\ draft' = None /\ UNCHANGED minted

\* The sign-in changes with the draft, and only a request of a signed-in
\* session is let in.
Admits == /\ authenticated' = authenticated \/ draft' = None
          /\ \/ authenticated /\ authenticated'
             \/ \A t \in Nat : Carries(t)' => Carries(t)

\* Requests and what is kept of them have their types and tokens.
Flow ==
    /\ tenant' \in Tenants /\ authenticated' \in BOOLEAN
    /\ pending' \in Kept \cup {None} /\ faults' \in [Kinds -> Nat]
    /\ known' \in SUBSET (1 .. minted') /\ served' \in [Clients -> Served]
    /\ pending' # None => pending'.form.token \in 0 .. minted'
    /\ \A c \in Clients :
        /\ served'[c].stage \in Stages => served'[c].request.form.token \in 0 .. minted'
        /\ At(c, "answered")' /\ served'[c].answer.screen \in {"review", "extra"}
           => served'[c].answer.token \in 1 .. minted'

\* A step changes the account in one of these ways, money moves only in a
\* signed-in session, and the requests stay in order.
StepIsSound ==
    /\ Effects \/ Restarts
    /\ Deposits => authenticated
    /\ Admits
    /\ Flow

\* Every effect leaves a number of reviews, and no fewer than before.
LEMMA MintedGrows ==
    ASSUME TypeOK, Effects \/ Restarts
    PROVE  /\ minted \in Nat /\ minted' \in Nat /\ minted <= minted'
           /\ 0 .. minted \subseteq 0 .. minted' /\ 1 .. minted \subseteq 1 .. minted'
<1>1. minted \in Nat /\ (minted' = minted \/ minted' = minted + 1)
  BY DEF TypeOK, Effects, Restarts, Keeps, Drops, Offers, Confirms, Deposits, account
<1>. QED
  BY <1>1

LEMMA Idling == ASSUME IInv, UNCHANGED vars PROVE StepIsSound
<1>1. Keeps /\ UNCHANGED <<receipts, draft, authenticated, pending, served, known, minted,
                          tenant, faults>>
  BY DEF vars, session, account, Keeps
<1>2. Effects /\ ~Deposits
  BY <1>1 DEF Effects, Deposits, NewReceipt, IInv, TypeOK
<1>3. Admits
  BY <1>1 DEF Admits, Carries, At, Of
<1>. QED
  BY <1>1, <1>2, <1>3 DEF StepIsSound, Flow, IInv, TypeOK, Bounded, At, Of

\* A request that is answered, and keeps nothing behind, keeps the order.
LEMMA Replying ==
    ASSUME IInv, NEW c \in Clients, Replies(c), Effects \/ Restarts,
           tenant' \in Tenants, authenticated' \in BOOLEAN, faults' \in [Kinds -> Nat],
           pending' \in {pending, None}, UNCHANGED known
    PROVE  Flow /\ \A t \in Nat : Carries(t)' => Carries(t)
<1>1. /\ 0 .. minted \subseteq 0 .. minted' /\ 1 .. minted \subseteq 1 .. minted'
      /\ known \in SUBSET (1 .. minted) /\ pending \in Kept \cup {None}
  BY MintedGrows DEF IInv, TypeOK
<1>2. \A d \in Clients \ {c} : served'[d] = served[d]
  BY DEF Replies
<1>3. served'[c].stage = "answered"
  BY DEF Replies, At
<1>4. ASSUME NEW d \in Clients
      PROVE  /\ served'[d].stage \in Stages => served'[d].request.form.token \in 0 .. minted'
             /\ At(d, "answered")' /\ served'[d].answer.screen \in {"review", "extra"}
                => served'[d].answer.token \in 1 .. minted'
  <2>1. CASE d = c
    BY <1>3, <2>1 DEF Replies, Stages
  <2>2. CASE d # c
    BY <1>1, <1>2, <2>2 DEF IInv, Bounded, At, Of
  <2>. QED
    BY <2>1, <2>2
<1>5. Flow
  BY <1>1, <1>4 DEF Flow, IInv, Bounded, Replies
<1>6. ASSUME NEW t \in Nat, Carries(t)' PROVE Carries(t)
  <2>1. CASE pending' # None /\ pending'.form.token = t
    BY <2>1 DEF Carries
  <2>2. CASE \E d \in Clients : At(d, "reading")' /\ Of(d)'.form.token = t
    BY <1>2, <1>3, <2>2 DEF Carries, At, Of
  <2>. QED
    BY <1>6, <2>1, <2>2 DEF Carries
<1>. QED
  BY <1>5, <1>6

\* A page that shows no token is a reply to any request.
LEMMA Shows ==
    ASSUME TypeOK, NEW c \in Clients, NEW screen \in Screens \ {"review", "extra"},
           Show(c, screen)
    PROVE  Replies(c)
  BY AnswerTypes DEF Show, Replies

\* Keeping to the account: no deposit.
LEMMA Keeping == ASSUME TypeOK, Keeps \/ Drops \/ Restarts PROVE ~Deposits
  BY DEF TypeOK, Keeps, Drops, Restarts, Deposits, NewReceipt, account

LEMMA TestSteps == ASSUME IInv, SetFaults PROVE StepIsSound
<1>1. Keeps /\ faults' \in [Kinds -> Nat]
      /\ UNCHANGED <<tenant, authenticated, pending, known, served, minted>>
  BY TargetAssumption DEF SetFaults, Keeps, account
<1>2. Effects /\ ~Deposits
  BY <1>1, Keeping DEF Effects, IInv
<1>3. Admits
  BY <1>1 DEF Admits, Carries, At, Of
<1>. QED
  BY <1>1, <1>2, <1>3 DEF StepIsSound, Flow, IInv, TypeOK, Bounded, At, Of

\* A request arrives, with a token that was shown,
LEMMA RouteSteps == ASSUME IInv, NEW c \in Clients, RouteTo(c) PROVE StepIsSound
<1>1. Keeps /\ UNCHANGED <<tenant, authenticated, draft, pending, known, faults, minted>>
  BY DEF RouteTo, Keeps, session, account
<1>2. Effects /\ ~Deposits
  BY <1>1, Keeping DEF Effects, IInv
<1>3. PICK request \in Sendable :
          served' = [served EXCEPT ![c] = [stage |-> "routed", request |-> request]]
  BY DEF RouteTo
<1>4. request \in Request /\ request.form.token \in 0 .. minted
  <2>1. PICK ask \in Asks, token \in known \cup {0} :
            request = [ask EXCEPT !.form.token = token]
    BY <1>3 DEF Sendable
  <2>2. ask \in Request /\ token \in 0 .. minted /\ token \in Nat
    BY <2>1, TargetAssumption DEF IInv, TypeOK
  <2>3. request.form = [ask.form EXCEPT !.token = token] /\ request.form \in Form
    BY <2>1, <2>2 DEF Request, Form
  <2>. QED
    BY <2>1, <2>2, <2>3 DEF Request, Form
<1>5. /\ served' \in [Clients -> Served]
      /\ served'[c] = [stage |-> "routed", request |-> request]
      /\ \A d \in Clients \ {c} : served'[d] = served[d]
  BY <1>3, <1>4 DEF IInv, TypeOK, Served, Stages
<1>6. Admits
  BY <1>1, <1>5 DEF Admits, Carries, At, Of
<1>7. Flow
  <2>1. ASSUME NEW d \in Clients
        PROVE  /\ served'[d].stage \in Stages => served'[d].request.form.token \in 0 .. minted
               /\ At(d, "answered")' /\ served'[d].answer.screen \in {"review", "extra"}
                  => served'[d].answer.token \in 1 .. minted
    BY <1>4, <1>5 DEF IInv, Bounded, At, Of
  <2>. QED
    BY <1>1, <1>5, <2>1 DEF Flow, IInv, TypeOK, Bounded
<1>. QED
  BY <1>2, <1>6, <1>7 DEF StepIsSound

\* is let in when the session is signed in,
LEMMA ReadSteps == ASSUME IInv, NEW c \in Clients, ReadBody(c) PROVE StepIsSound
<1>1. Keeps /\ UNCHANGED <<tenant, authenticated, draft, pending, known, faults, minted>>
      /\ authenticated
  BY DEF ReadBody, SignedIn, Keeps, session, account
<1>2. Effects /\ ~Deposits
  BY <1>1, Keeping DEF Effects, IInv
<1>3. Admits
  BY <1>1 DEF Admits
<1>4. Of(c) \in Request /\ At(c, "routed") /\ served[c] \in [stage : Stages, request : Request]
  BY RequestTypes DEF ReadBody, At, Stages, IInv, TypeOK, Served, Idle
<1>5. /\ served' \in [Clients -> Served]
      /\ served'[c].stage = "reading" /\ served'[c].request = Of(c)
      /\ \A d \in Clients \ {c} : served'[d] = served[d]
  BY <1>4 DEF ReadBody, Pass, IInv, TypeOK, Served, Stages, Of
<1>6. Flow
  BY <1>1, <1>4, <1>5 DEF Flow, IInv, TypeOK, Bounded, At, Of, Stages
<1>. QED
  BY <1>2, <1>3, <1>6 DEF StepIsSound

\* and has its answer sent, with the token it shows.
LEMMA LeaveSteps == ASSUME IInv, NEW c \in Clients, Leave(c) PROVE StepIsSound
<1>1. Keeps /\ UNCHANGED <<tenant, authenticated, draft, pending, minted>>
      /\ At(c, "answered")
  BY DEF Leave, Keeps, account
<1>2. Effects /\ ~Deposits
  BY <1>1, Keeping DEF Effects, IInv
<1>3. faults' \in [Kinds -> Nat]
  BY DEF Leave, Consume, Active, IInv, TypeOK, Kinds
<1>4. known' \in SUBSET (1 .. minted)
  BY <1>1 DEF Leave, IInv, TypeOK, Bounded
<1>5. /\ served' \in [Clients -> Served]
      /\ served'[c].stage = "idle"
      /\ \A d \in Clients \ {c} : served'[d] = served[d]
  BY DEF Leave, IInv, TypeOK, Served, Idle
<1>6. Admits
  BY <1>1, <1>5 DEF Admits, Carries, At, Of
<1>7. Flow
  BY <1>1, <1>3, <1>4, <1>5 DEF Flow, IInv, TypeOK, Bounded, At, Of, Stages
<1>. QED
  BY <1>2, <1>6, <1>7 DEF StepIsSound

\* Steps that answer a request without touching the account,
LEMMA QuietReplies ==
    ASSUME IInv, NEW c \in Clients, Refuse(c) \/ TooLarge(c) \/ Blocked(c) \/ Disturb(c)
    PROVE  StepIsSound
<1>1. /\ Keeps /\ UNCHANGED <<tenant, authenticated, pending, known>>
      /\ {"unknown", "shell", "login", "frame", "invalid", "notice", "server_error", "denied",
          "not_found"} \subseteq Screens \ {"review", "extra"}
  BY DEF Refuse, TooLarge, Blocked, Disturb, Keeps, session, account, Screens
<1>2. Effects /\ ~Deposits
  BY <1>1, Keeping DEF Effects, IInv
<1>3. faults' \in [Kinds -> Nat]
  BY DEF Refuse, TooLarge, Blocked, Disturb, Consume, Active, session, IInv, TypeOK, Kinds
<1>4. \E screen \in Screens \ {"review", "extra"} : Show(c, screen)
  BY <1>1 DEF Refuse, TooLarge, Blocked, Disturb
<1>5. Replies(c)
  BY <1>4, Shows DEF IInv
<1>. QED
  BY <1>1, <1>2, <1>3, <1>5, Replying DEF StepIsSound, Admits, IInv, TypeOK

\* the end of the session and its beginning,
LEMMA SessionSteps ==
    ASSUME IInv, NEW c \in Clients, Expire(c) \/ SignIn(c)
    PROVE  StepIsSound
<1>1. {"expired", "shell"} \subseteq Screens \ {"review", "extra"}
  BY DEF Screens
<1>2. CASE Expire(c) /\ Show(c, "expired")
  <2>1. Drops /\ UNCHANGED <<tenant, known>> /\ authenticated' = FALSE /\ pending' = None
    BY <1>2 DEF Expire, Drops, account
  <2>2. Effects /\ ~Deposits
    BY <2>1, Keeping DEF Effects, IInv
  <2>3. faults' \in [Kinds -> Nat] /\ Replies(c)
    BY <1>1, <1>2, Shows DEF Expire, Consume, Active, IInv, TypeOK, Kinds
  <2>. QED
    BY <2>1, <2>2, <2>3, Replying DEF StepIsSound, Admits, Drops, IInv, TypeOK
<1>3. CASE Expire(c) /\ UNCHANGED served
  <2>1. Drops /\ UNCHANGED <<tenant, known, minted>> /\ authenticated' = FALSE /\ pending' = None
    BY <1>3 DEF Expire, Drops, account
  <2>2. Effects /\ ~Deposits
    BY <2>1, Keeping DEF Effects, IInv
  <2>3. faults' \in [Kinds -> Nat]
    BY <1>3 DEF Expire, Consume, Active, IInv, TypeOK, Kinds
  <2>4. Admits
    BY <1>3, <2>1 DEF Admits, Carries, At, Of, Drops
  <2>. QED
    BY <1>3, <2>1, <2>2, <2>3, <2>4 DEF StepIsSound, Flow, IInv, TypeOK, Bounded, At, Of
<1>4. CASE SignIn(c)
  <2>1. Restarts /\ authenticated' = TRUE /\ pending' = None /\ UNCHANGED <<known, faults>>
    BY <1>4 DEF SignIn, Restarts
  <2>2. ~Deposits
    BY <2>1, Keeping DEF IInv
  <2>3. tenant' \in Tenants
    BY <1>4, RequestTypes DEF SignIn, At, Stages, IInv, Request
  <2>4. Replies(c)
    BY <1>1, <1>4, Shows DEF SignIn, IInv
  <2>. QED
    BY <2>1, <2>2, <2>3, <2>4, Replying DEF StepIsSound, Admits, Restarts, IInv, TypeOK
<1>. QED
  BY <1>2, <1>3, <1>4 DEF Expire

\* a notice, which keeps the request,
LEMMA NoticeSteps == ASSUME IInv, NEW c \in Clients, Interrupt(c) PROVE StepIsSound
<1>1. /\ Keeps /\ UNCHANGED <<tenant, authenticated, known, minted>>
      /\ At(c, "reading") /\ pending' = Operation(c) /\ Show(c, "notice")
      /\ "notice" \in Screens \ {"review", "extra"}
  BY DEF Interrupt, Keeps, account, Screens
<1>2. Effects /\ ~Deposits
  BY <1>1, Keeping DEF Effects, IInv
<1>3. faults' \in [Kinds -> Nat]
  BY DEF Interrupt, Consume, Active, IInv, TypeOK, Kinds
<1>4. Replies(c)
  BY <1>1, Shows DEF IInv
<1>5. /\ Operation(c) \in Kept /\ Operation(c).form = Of(c).form
      /\ Of(c).form.token \in 0 .. minted
  BY <1>1, RequestTypes DEF IInv, At, Stages, Bounded
<1>6. \A d \in Clients : At(d, "reading")' => At(d, "reading") /\ Of(d)' = Of(d)
  BY <1>4 DEF Replies, At, Of
<1>7. Admits
  BY <1>1, <1>5, <1>6 DEF Admits, Carries
<1>8. Flow
  BY <1>1, <1>3, <1>4, <1>5 DEF Flow, Replies, IInv, TypeOK, Bounded, At, Of, Stages
<1>. QED
  BY <1>2, <1>7, <1>8 DEF StepIsSound

\* and the operations themselves, whether they were kept or just came in.
LEMMA OperationSteps ==
    ASSUME IInv, NEW c \in Clients, Dismiss(c) \/ Handle(c)
    PROVE  StepIsSound
<1>1. /\ At(c, "reading") /\ UNCHANGED <<tenant, authenticated, known>>
      /\ pending' \in {pending, None}
  BY DEF Dismiss, Handle
<1>2. PICK op \in Kept : Carry(c, op) /\ Carries(op.form.token)
  BY <1>1, RequestTypes DEF Dismiss, Handle, Carries, IInv, TypeOK, At, Stages
<1>3. /\ Effects /\ Replies(c)
      /\ Deposits => draft.token = op.form.token
      /\ faults' \in [Kinds -> Nat]
  BY <1>2, CarryEffects
<1>4. Deposits => authenticated
  BY <1>2, <1>3 DEF Deposits, IInv, Unreachable
<1>. QED
  BY <1>1, <1>3, <1>4, Replying DEF StepIsSound, Admits, IInv, TypeOK

LEMMA Steps == ASSUME IInv, [Next]_vars PROVE StepIsSound
  BY Idling, TestSteps, RouteSteps, ReadSteps, LeaveSteps, QuietReplies, SessionSteps,
     NoticeSteps, OperationSteps DEF Next, Serve

-----------------------------------------------------------------------------
(* The invariant                                                           *)

\* What a deposit leaves behind: one more account and its receipt.
LEMMA DepositFacts ==
    ASSUME IInv, Deposits
    PROVE  /\ draft \in Draft /\ draft.form.member \in Members
           /\ ledger' \in [Members -> Seq(Nat)]
           /\ Len(ledger'[draft.form.member]) = Len(ledger[draft.form.member]) + 1
           /\ \A m \in Members \ {draft.form.member} : ledger'[m] = ledger[m]
           /\ receipts' \in Seq(Receipt) /\ Len(receipts') = Len(receipts) + 1
           /\ receipts'[Len(receipts) + 1] = NewReceipt
           /\ \A i \in 1 .. Len(receipts) : receipts'[i] = receipts[i]
<1>. DEFINE f == draft.form
            s == ledger[f.member]
            t == Debited(f)
<1>1. /\ draft \in Draft /\ f \in Form /\ f.member \in Members /\ f.amount \in Nat
      /\ f.source \in 1 .. Len(s) /\ f.amount <= s[f.source]
      /\ s \in Seq(Nat) /\ ledger \in [Members -> Seq(Nat)]
  BY DEF IInv, TypeOK, Sound, Covered, Deposits, Draft, Form
<1>2. s[f.source] \in Nat /\ s[f.source] - f.amount \in Nat
  <2>1. s[f.source] \in Nat
    BY <1>1, ElementOfSeq
  <2>. HIDE DEF f, s
  <2>. QED
    BY <1>1, <2>1
<1>3. t \in Seq(Nat) /\ Len(t) = Len(s)
  BY <1>1, <1>2, ExceptSeq DEF Debited
<1>4. Append(t, f.amount) \in Seq(Nat) /\ Len(Append(t, f.amount)) = Len(s) + 1
  BY <1>1, <1>3
<1>5. ledger' = [ledger EXCEPT ![f.member] = Append(t, f.amount)]
  BY DEF Deposits
<1>6. NewReceipt \in Receipt
  BY <1>1 DEF NewReceipt, Receipt, Draft
<1>7. receipts \in Seq(Receipt) /\ receipts' = Append(receipts, NewReceipt)
  BY DEF IInv, TypeOK, Deposits
<1>. QED
  BY <1>1, <1>4, <1>5, <1>6, <1>7

LEMMA TypeInductive == ASSUME IInv, StepIsSound PROVE TypeOK'
<1>1. minted' \in Nat
  BY MintedGrows DEF IInv, StepIsSound
<1>2. draft' \in Draft \cup {None} /\ receipts' \in Seq(Receipt) /\ ledger' \in [Members -> Seq(Nat)]
  <2>1. CASE Keeps \/ Drops
    BY <2>1 DEF Keeps, Drops, account, IInv, TypeOK
  <2>2. CASE \E form \in Form : Offers(form)
    BY <2>2 DEF Offers, IInv, TypeOK, Draft
  <2>3. CASE Confirms
    BY <2>3 DEF Confirms, account, IInv, TypeOK, Draft
  <2>4. CASE Deposits
    BY <2>4, DepositFacts DEF Deposits
  <2>5. CASE Restarts
    BY <2>5, TargetAssumption DEF Restarts, Reset
  <2>. QED
    BY <2>1, <2>2, <2>3, <2>4, <2>5 DEF StepIsSound, Effects
<1>. QED
  BY <1>1, <1>2 DEF TypeOK, StepIsSound, Flow

LEMMA BoundedInductive == ASSUME IInv, StepIsSound PROVE Bounded'
<1>1. minted \in Nat /\ minted' \in Nat /\ 1 .. minted \subseteq 1 .. minted'
  BY MintedGrows DEF IInv, StepIsSound
<1>2. /\ draft' # None => draft'.token \in 1 .. minted'
      /\ \A i \in DOMAIN receipts' : receipts'[i].token \in 1 .. minted'
  <2>1. CASE Keeps \/ Drops
    BY <2>1 DEF Keeps, Drops, account, IInv, Bounded
  <2>2. CASE \E form \in Form : Offers(form)
    BY <1>1, <2>2 DEF Offers, IInv, Bounded
  <2>3. CASE Confirms
    BY <2>3 DEF Confirms, account, IInv, TypeOK, Bounded, Draft
  <2>4. CASE Deposits
    <3>1. DOMAIN receipts' = 1 .. Len(receipts) + 1 /\ DOMAIN receipts = 1 .. Len(receipts)
          /\ Len(receipts) \in Nat
      BY <2>4, DepositFacts DEF IInv, TypeOK
    <3>2. minted' = minted /\ draft' = None /\ draft.token \in 1 .. minted
      BY <2>4 DEF Deposits, IInv, Bounded
    <3>. QED
      BY <2>4, <3>1, <3>2, DepositFacts DEF IInv, Bounded, NewReceipt
  <2>5. CASE Restarts
    BY <2>5 DEF Restarts
  <2>. QED
    BY <2>1, <2>2, <2>3, <2>4, <2>5 DEF StepIsSound, Effects
<1>. QED
  BY <1>2 DEF Bounded, StepIsSound, Flow, At, Of

LEMMA UnreachableInductive == ASSUME IInv, StepIsSound PROVE Unreachable'
<1>. SUFFICES ASSUME draft' # None, ~authenticated',
                     NEW t, t = draft'.token, Carries(t)'
              PROVE  FALSE
  BY DEF Unreachable, Carries, At, Of
<1>1. authenticated' = authenticated /\ \A u \in Nat : Carries(u)' => Carries(u)
  BY DEF StepIsSound, Admits
<1>2. CASE Keeps \/ Confirms
  <2>1. draft # None /\ t = draft.token /\ t \in Nat
    BY <1>2 DEF Keeps, Confirms, IInv, TypeOK, Draft
  <2>2. Carries(t)
    BY <1>1, <2>1
  <2>. QED
    BY <1>1, <2>1, <2>2 DEF IInv, Unreachable
<1>3. CASE \E form \in Form : Offers(form)
  <2>1. t = minted + 1 /\ minted \in Nat /\ t \in Nat
    BY <1>3 DEF Offers, IInv, TypeOK
  <2>2. Carries(t)
    BY <1>1, <2>1
  <2>. QED
    BY <2>1, <2>2 DEF Carries, IInv, Bounded, At, Stages
<1>. QED
  BY <1>2, <1>3 DEF StepIsSound, Effects, Drops, Deposits, Restarts

LEMMA SoundInductive == ASSUME IInv, StepIsSound PROVE Sound'
<1>1. CASE UNCHANGED <<draft, ledger>>
  BY <1>1 DEF IInv, Sound, Covered
<1>2. CASE \E form \in Form : Offers(form)
  BY <1>2 DEF Offers, Sound, Covered
<1>3. CASE Confirms
  BY <1>3 DEF Confirms, account, IInv, TypeOK, Sound, Covered, Draft
<1>. QED
  BY <1>1, <1>2, <1>3 DEF StepIsSound, Effects, Keeps, Drops, Deposits, Restarts, account, Sound

LEMMA OpenedInductive == ASSUME IInv, StepIsSound PROVE Opened'
<1>1. CASE UNCHANGED <<ledger, receipts>>
  <2>1. draft' # None => draft'.token \notin Tokens
    <3>1. CASE \E form \in Form : Offers(form)
      BY <3>1 DEF Offers, Tokens, IInv, TypeOK, Bounded
    <3>2. CASE ~\E form \in Form : Offers(form)
      BY <1>1, <3>2 DEF StepIsSound, Effects, Keeps, Drops, Confirms, Deposits, Restarts,
                        IInv, TypeOK, Draft, Opened, OneReceiptPerToken
    <3>. QED
      BY <3>1, <3>2
  <2>2. Tokens' = Tokens
    BY <1>1 DEF Tokens
  <2>. QED
    BY <1>1, <2>1, <2>2 DEF IInv, Opened, OneReceiptPerToken
<1>2. CASE Deposits
  <2>. DEFINE m0 == draft.form.member
              n0 == Len(ledger[draft.form.member]) + 1
              k0 == Len(receipts) + 1
  <2>1. /\ DOMAIN receipts = 1 .. Len(receipts) /\ DOMAIN receipts' = 1 .. Len(receipts) + 1
        /\ Len(receipts) \in Nat /\ k0 \in DOMAIN receipts'
        /\ \A i \in DOMAIN receipts' : i # k0 => i \in DOMAIN receipts /\ receipts'[i] = receipts[i]
        /\ DOMAIN receipts \subseteq DOMAIN receipts'
    <3>1. /\ receipts \in Seq(Receipt) /\ receipts' \in Seq(Receipt)
          /\ Len(receipts) \in Nat /\ Len(receipts') = Len(receipts) + 1
          /\ \A i \in 1 .. Len(receipts) : receipts'[i] = receipts[i]
      BY <1>2, DepositFacts DEF IInv, TypeOK
    <3>2. DOMAIN receipts = 1 .. Len(receipts) /\ DOMAIN receipts' = 1 .. Len(receipts) + 1
      BY <3>1
    <3>3. \A i \in 1 .. Len(receipts) + 1 : i # Len(receipts) + 1 => i \in 1 .. Len(receipts)
      BY <3>1
    <3>. QED
      BY <3>1, <3>2, <3>3
  <2>2. /\ receipts'[k0].token = draft.token /\ receipts'[k0].member = m0
        /\ receipts'[k0].account = n0 /\ m0 \in Members
        /\ draft' = None /\ draft.token \notin Tokens
    BY <1>2, DepositFacts DEF Deposits, NewReceipt, IInv, Opened, OneReceiptPerToken
  <2>3. /\ \A m \in Members : Len(ledger[m]) \in Nat /\ Len(Seed[m]) \in Nat
                               /\ Len(Seed[m]) <= Len(ledger[m])
        /\ Len(ledger'[m0]) = n0 /\ n0 \in Nat
        /\ \A m \in Members : m # m0 => ledger'[m] = ledger[m]
    BY <1>2, DepositFacts, TargetAssumption DEF IInv, TypeOK, Opened
  <2>4. \A i \in DOMAIN receipts : receipts[i].token # draft.token /\ receipts[i].member \in Members
    <3>1. \A i \in DOMAIN receipts : receipts[i] \in Receipt
      BY <2>1, ElementOfSeq DEF IInv, TypeOK
    <3>2. \A i \in DOMAIN receipts : receipts[i].token \in Tokens
      BY DEF Tokens
    <3>. QED
      BY <2>2, <3>1, <3>2 DEF Receipt
  <2>5. \A m \in Members : Len(Seed[m]) <= Len(ledger'[m])
    BY <2>2, <2>3
  <2>6. \A i, j \in DOMAIN receipts' : receipts'[i].token = receipts'[j].token => i = j
    BY <2>1, <2>2, <2>4 DEF IInv, Opened, OneReceiptPerToken
  <2>7. \A m \in Members : \A a \in Len(Seed[m]) + 1 .. Len(ledger'[m]) :
            \E i \in DOMAIN receipts' : receipts'[i].member = m /\ receipts'[i].account = a
    <3>. SUFFICES ASSUME NEW m \in Members, NEW a \in Len(Seed[m]) + 1 .. Len(ledger'[m])
                  PROVE  \E i \in DOMAIN receipts' :
                             receipts'[i].member = m /\ receipts'[i].account = a
      OBVIOUS
    <3>1. CASE m = m0 /\ a = n0
      BY <2>1, <2>2, <3>1
    <3>2. CASE ~(m = m0 /\ a = n0)
      <4>1. a \in Len(Seed[m]) + 1 .. Len(ledger[m])
        BY <2>3, <3>2
      <4>2. PICK i \in DOMAIN receipts : receipts[i].member = m /\ receipts[i].account = a
        BY <4>1 DEF IInv, Opened, OneReceiptPerToken
      <4>3. i # k0
        BY <2>1
      <4>. QED
        BY <2>1, <4>2, <4>3
    <3>. QED
      BY <3>1, <3>2
  <2>8. \A i \in DOMAIN receipts' :
            receipts'[i].account \in Len(Seed[receipts'[i].member]) + 1
                                       .. Len(ledger'[receipts'[i].member])
    <3>. SUFFICES ASSUME NEW i \in DOMAIN receipts'
                  PROVE  receipts'[i].account \in Len(Seed[receipts'[i].member]) + 1
                                                    .. Len(ledger'[receipts'[i].member])
      OBVIOUS
    <3>1. CASE i = k0
      BY <2>2, <2>3, <3>1
    <3>2. CASE i # k0
      <4>1. /\ receipts'[i] = receipts[i] /\ receipts[i].member \in Members
            /\ receipts[i].account \in Len(Seed[receipts[i].member]) + 1
                                         .. Len(ledger[receipts[i].member])
        BY <2>1, <2>4, <3>2 DEF IInv, Opened, OneReceiptPerToken
      <4>. QED
        BY <2>3, <4>1
    <3>. QED
      BY <3>1, <3>2
  <2>9. \A i, j \in DOMAIN receipts' :
            /\ receipts'[i].member = receipts'[j].member
            /\ receipts'[i].account = receipts'[j].account
            => i = j
    <3>1. \A i \in DOMAIN receipts : ~(receipts[i].member = m0 /\ receipts[i].account = n0)
      BY <2>2, <2>3 DEF IInv, Opened, OneReceiptPerToken
    <3>. QED
      BY <2>1, <2>2, <3>1 DEF IInv, Opened, OneReceiptPerToken
  <2>. HIDE DEF m0, n0, k0
  <2>. QED
    BY <2>2, <2>5, <2>6, <2>7, <2>8, <2>9 DEF Opened, OneReceiptPerToken
<1>3. CASE Restarts
  <2>1. \A m \in Members : ledger'[m] = Seed[m] /\ Len(Seed[m]) \in Nat
    BY <1>3, TargetAssumption DEF Restarts, Reset
  <2>. QED
    BY <1>3, <2>1 DEF Restarts, Opened, OneReceiptPerToken, Tokens
<1>. QED
  BY <1>1, <1>2, <1>3 DEF StepIsSound, Effects, Keeps, Drops, Offers, Confirms, account

\* The inductive invariant, for any constants.
LEMMA Inductive == ASSUME IInv, [Next]_vars PROVE IInv'
<1>1. StepIsSound
  BY Steps
<1>. QED
  BY <1>1, TypeInductive, BoundedInductive, UnreachableInductive, SoundInductive, OpenedInductive
     DEF IInv

LEMMA Invariance == Spec => []IInv
<1>. QED
  BY InductiveInit, Inductive, PTL DEF Spec

-----------------------------------------------------------------------------
\* The variables of the session keep their types, whatever is asked of it.
THEOREM SessionIsTyped == Spec => []TypeOK
<1>. QED
  BY Invariance, PTL DEF IInv

\* A confirmation token never debits twice, and the accounts that were opened
\* are exactly those of the receipts.
THEOREM TokensDebitOnce == Spec => []OneReceiptPerToken
<1>. QED
  BY Invariance, PTL DEF IInv, Opened

\* The check that a commitment repeats never refuses a draft.
THEOREM DraftsArePayable == Spec => []DraftStaysPayable
<1>1. IInv => DraftStaysPayable
  BY DEF IInv, Sound, DraftStaysPayable
<1>. QED
  BY <1>1, Invariance, PTL

\* Receipts are added by commitments only, so in a signed-in session.
THEOREM ExpiredSessionsCommitNothing == Spec => CommitsAreAuthenticated
<1>1. ASSUME IInv, [Next]_vars
      PROVE  [Len(receipts') > Len(receipts) => authenticated]_vars
  <2>1. StepIsSound /\ Len(receipts) \in Nat
    BY <1>1, Steps DEF IInv, TypeOK
  <2>2. CASE UNCHANGED receipts
    BY <2>1, <2>2
  <2>3. CASE Deposits
    BY <2>1, <2>3 DEF StepIsSound
  <2>4. CASE Restarts
    BY <2>1, <2>4 DEF Restarts
  <2>. QED
    BY <2>1, <2>2, <2>3, <2>4 DEF StepIsSound, Effects, Keeps, Drops, Offers, Confirms, account
<1>. QED
  BY <1>1, Invariance, PTL DEF Spec, CommitsAreAuthenticated

\* Whatever requests, notices, expiries and faults it meets, the bank does
\* what OneTimeDeposits promises.
THEOREM BankKeepsItsPromise == Spec => ImplementsOneTimeDeposits
<1>1. Init => Bank!Init
  BY DEF Init, Bank!Init, Bank!Start, Reset, Offer
<1>2. ASSUME IInv, [Next]_vars
      PROVE  [Bank!Next]_(Bank!vars)
  <2>1. StepIsSound
    BY <1>2, Steps
  <2>2. CASE Keeps \/ Confirms
    <3>1. Offer(draft)' = Offer(draft) /\ UNCHANGED <<ledger, minted>>
      BY <1>2, <2>1, <2>2, TypeInductive, TargetAssumption
         DEF Keeps, Confirms, account, IInv, TypeOK, Draft, Offer
    <3>. QED
      BY <3>1 DEF Bank!vars, Offer
  <2>3. CASE Drops
    BY <2>3 DEF Drops, account, Bank!Next, Bank!Withdraw, Offer
  <2>4. CASE \E form \in Form : Offers(form)
    <3>1. PICK form \in Form : Offers(form)
      BY <2>4
    <3>2. /\ draft' = [form |-> form, token |-> minted + 1, confirmed |-> FALSE]
          /\ draft' # None /\ minted' = minted + 1 /\ UNCHANGED ledger /\ Covered(form)
      <4>1. [form |-> form, token |-> minted + 1, confirmed |-> FALSE] \in Draft
        BY <1>2 DEF IInv, TypeOK, Draft
      <4>. QED
        BY <3>1, <4>1, TargetAssumption DEF Offers
    <3>3. Bank!Offer
      BY <3>2 DEF Bank!Offer, Bank!Payable, Deposit, Covered, Offer
    <3>. QED
      BY <3>3 DEF Bank!Next
  <2>5. CASE Deposits
    <3>1. Covered(draft.form)
      BY <1>2, <2>5 DEF IInv, Sound, Deposits
    <3>2. /\ draft # None /\ draft \in Draft /\ draft.form.member \in Members
          /\ Deposit(draft.form) = [member |-> draft.form.member, source |-> draft.form.source,
                                    amount |-> draft.form.amount]
      BY <1>2, <2>5, DepositFacts DEF Deposits, Deposit
    <3>3. /\ Offer(draft) = [number |-> draft.token, deposit |-> Deposit(draft.form)]
          /\ Offer(draft) \in Offered
      BY <3>2 DEF Offer, Offered, Draft, Form
    <3>4. Offer(draft) # None
      BY <3>3, TargetAssumption
    <3>5. Bank!Move(Offer(draft).deposit)
      <4>. DEFINE d == Offer(draft).deposit
      <4>1. /\ d.member = draft.form.member /\ d.source = draft.form.source
            /\ d.amount = draft.form.amount
        BY <3>2, <3>3
      <4>2. ledger' = [ledger EXCEPT ![draft.form.member] =
                Append([ledger[draft.form.member] EXCEPT ![draft.form.source]
                           = ledger[draft.form.member][draft.form.source] - draft.form.amount],
                       draft.form.amount)]
        BY <2>5 DEF Deposits, Debited
      <4>. HIDE DEF d
      <4>3. Bank!Move(d)
        BY <4>1, <4>2 DEF Bank!Move
      <4>. QED
        BY <4>3 DEF d
    <3>6. Bank!Accept
      BY <2>5, <3>1, <3>2, <3>3, <3>4, <3>5
         DEF Deposits, Covered, Bank!Accept, Bank!Payable, Offer
    <3>. QED
      BY <3>6 DEF Bank!Next
  <2>6. CASE Restarts
    BY <2>6 DEF Restarts, Reset, Bank!Next, Bank!Restart, Bank!Start, Offer
  <2>. QED
    BY <2>1, <2>2, <2>3, <2>4, <2>5, <2>6 DEF StepIsSound, Effects
<1>. QED
  BY <1>1, <1>2, Invariance, PTL DEF Spec, Bank!Spec, ImplementsOneTimeDeposits
-----------------------------------------------------------------------------
(* Sums of balances.  A natural number is reached from 0 one by one: that  *)
(* any set of them has a least one makes it a fact about sets, and so the  *)
(* sum over a sequence of any length can be reasoned about.                *)

\* The order of the natural numbers as a relation.
Below == {ss \in Nat \X Nat : ss[1] < ss[2]}

\* A nonempty set of natural numbers has a least element.
LEMMA LeastNatural ==
    ASSUME NEW T \in SUBSET Nat, T # {}
    PROVE  \E m \in T : \A k \in T : m <= k
<1>1. IsWellFoundedOn(Below, Nat)
  BY NatLessThanWellFounded DEF OpToRel, Below
<1>2. PICK m \in T : \A k \in T : <<k, m>> \notin Below
  BY <1>1, WFMin
<1>3. ASSUME NEW k \in T PROVE m <= k
  <2>1. <<k, m>> \in Nat \X Nat /\ <<k, m>>[1] = k /\ <<k, m>>[2] = m
    OBVIOUS
  <2>2. ~(<<k, m>>[1] < <<k, m>>[2])
    BY <1>2, <2>1 DEF Below
  <2>. QED
    BY <2>1, <2>2
<1>. QED
  BY <1>3

\* A set that has 0, and with a number the next one, has them all.
LEMMA NaturalsReached ==
    ASSUME NEW S, 0 \in S, \A n \in Nat : n \in S => n + 1 \in S
    PROVE  Nat \subseteq S
<1>. SUFFICES ASSUME Nat \ S # {} PROVE FALSE
  OBVIOUS
<1>1. PICK m \in Nat \ S : \A k \in Nat \ S : m <= k
  BY LeastNatural
<1>2. m - 1 \in Nat /\ m - 1 \in S
  BY <1>1
<1>. QED
  BY <1>1, <1>2

\* f has the sums of the first n elements of s, for every n up to m.
Sums(f, s, m) == f = [n \in 0 .. m |-> IF n = 0 THEN 0 ELSE f[n - 1] + s[n]]

\* Such sums exist.
LEMMA SumsExist ==
    ASSUME NEW s \in Seq(Int)
    PROVE  \E f \in [0 .. Len(s) -> Int] : Sums(f, s, Len(s))
<1> DEFINE P(m) == m <= Len(s) => \E f \in [0 .. m -> Int] : Sums(f, s, m)
           S == {m \in Nat : P(m)}
<1>1. P(0)
  <2> DEFINE f == [n \in 0 .. 0 |-> 0]
  <2>1. f \in [0 .. 0 -> Int] /\ Sums(f, s, 0)
    BY DEF Sums
  <2>. QED
    BY <2>1
<1>2. ASSUME NEW m \in Nat, P(m) PROVE P(m + 1)
  <2>. SUFFICES ASSUME m + 1 <= Len(s)
                PROVE  \E f \in [0 .. m + 1 -> Int] : Sums(f, s, m + 1)
    OBVIOUS
  <2>1. PICK f \in [0 .. m -> Int] : Sums(f, s, m)
    BY <1>2
  <2> DEFINE g == [n \in 0 .. m + 1 |-> IF n = m + 1 THEN f[m] + s[m + 1] ELSE f[n]]
  <2>2. s[m + 1] \in Int
    BY ElementOfSeq
  <2>3. g \in [0 .. m + 1 -> Int]
    BY <2>1, <2>2
  <2>4. \A n \in 0 .. m : f[n] = IF n = 0 THEN 0 ELSE f[n - 1] + s[n]
    BY <2>1 DEF Sums
  <2>5. \A n \in 0 .. m + 1 : g[n] = IF n = 0 THEN 0 ELSE g[n - 1] + s[n]
    BY <2>4
  <2>6. Sums(g, s, m + 1)
    BY <2>3, <2>5 DEF Sums
  <2>. QED
    BY <2>3, <2>6
<1>. HIDE DEF P
<1>3. 0 \in S
  BY <1>1
<1>4. \A n \in Nat : n \in S => n + 1 \in S
  BY <1>2
<1>. HIDE DEF S
<1>5. Nat \subseteq S
  BY <1>3, <1>4, NaturalsReached
<1>6. P(Len(s))
  BY <1>5 DEF S
<1>. QED
  BY <1>6 DEF P

\* ... and are the only ones.
LEMMA SumsUnique ==
    ASSUME NEW s \in Seq(Int), NEW f, NEW g, Sums(f, s, Len(s)), Sums(g, s, Len(s))
    PROVE  f[Len(s)] = g[Len(s)]
<1> DEFINE P(m) == m <= Len(s) => f[m] = g[m]
           S == {m \in Nat : P(m)}
<1>1. \A n \in 0 .. Len(s) : f[n] = IF n = 0 THEN 0 ELSE f[n - 1] + s[n]
  BY DEF Sums
<1>2. \A n \in 0 .. Len(s) : g[n] = IF n = 0 THEN 0 ELSE g[n - 1] + s[n]
  BY DEF Sums
<1>3. P(0)
  BY <1>1, <1>2
<1>4. ASSUME NEW m \in Nat, P(m) PROVE P(m + 1)
  BY <1>1, <1>2, <1>4
<1>. HIDE DEF P
<1>5. 0 \in S
  BY <1>3
<1>6. \A n \in Nat : n \in S => n + 1 \in S
  BY <1>4
<1>. HIDE DEF S
<1>7. Nat \subseteq S
  BY <1>5, <1>6, NaturalsReached
<1>8. P(Len(s))
  BY <1>7 DEF S
<1>. QED
  BY <1>8 DEF P

\* Total is the last of them.
LEMMA TotalIsSum ==
    ASSUME NEW s \in Seq(Int), NEW f, Sums(f, s, Len(s))
    PROVE  Total(s) = f[Len(s)]
<1> DEFINE g == CHOOSE sum : Sums(sum, s, Len(s))
<1>1. Sums(g, s, Len(s))
  OBVIOUS
<1>2. Total(s) = g[Len(s)]
  BY DEF Total, Sums
<1>. HIDE DEF g
<1>. QED
  BY <1>1, <1>2, SumsUnique

\* What is appended to a member's accounts is added to the total.
LEMMA TotalAppend ==
    ASSUME NEW s \in Seq(Int), NEW x \in Int
    PROVE  /\ Total(s) \in Int
           /\ Total(Append(s, x)) = Total(s) + x
<1> DEFINE t == Append(s, x)
<1>1. PICK f \in [0 .. Len(s) -> Int] : Sums(f, s, Len(s))
  BY SumsExist
<1>2. /\ t \in Seq(Int) /\ Len(t) = Len(s) + 1 /\ t[Len(s) + 1] = x
      /\ \A n \in 1 .. Len(s) : t[n] = s[n]
      /\ Len(s) \in Nat
  OBVIOUS
<1> DEFINE g == [n \in 0 .. Len(s) + 1 |-> IF n = Len(s) + 1 THEN f[Len(s)] + x ELSE f[n]]
<1>. HIDE DEF t
<1>3. \A n \in 0 .. Len(s) : f[n] = IF n = 0 THEN 0 ELSE f[n - 1] + s[n]
  BY <1>1 DEF Sums
<1>4. \A n \in 0 .. Len(s) + 1 : g[n] = IF n = 0 THEN 0 ELSE g[n - 1] + t[n]
  BY <1>2, <1>3
<1>5. Sums(g, t, Len(t))
  BY <1>2, <1>4 DEF Sums
<1>6. Total(t) = g[Len(s) + 1] /\ Total(s) = f[Len(s)]
  BY <1>1, <1>2, <1>5, TotalIsSum
<1>. QED
  BY <1>1, <1>2, <1>6 DEF t

\* What is taken from an account is taken from the total.
LEMMA TotalExcept ==
    ASSUME NEW s \in Seq(Int), NEW k \in 1 .. Len(s), NEW d \in Int
    PROVE  Total([s EXCEPT ![k] = @ - d]) = Total(s) - d
<1> DEFINE t == [s EXCEPT ![k] = @ - d]
<1>1. PICK f \in [0 .. Len(s) -> Int] : Sums(f, s, Len(s))
  BY SumsExist
<1>2. Len(s) \in Nat /\ s[k] \in Int /\ s[k] - d \in Int /\ \A n \in 1 .. Len(s) : s[n] \in Int
  BY ElementOfSeq
<1>3. t \in Seq(Int) /\ Len(t) = Len(s)
  BY <1>2, ExceptSeq
<1>4. \A n \in 1 .. Len(s) : t[n] = IF n = k THEN s[k] - d ELSE s[n]
  BY <1>2
<1> DEFINE g == [n \in 0 .. Len(s) |-> IF n < k THEN f[n] ELSE f[n] - d]
<1>. HIDE DEF t
<1>5. \A n \in 0 .. Len(s) : f[n] = IF n = 0 THEN 0 ELSE f[n - 1] + s[n]
  BY <1>1 DEF Sums
<1>6. ASSUME NEW n \in 0 .. Len(s)
      PROVE  g[n] = IF n = 0 THEN 0 ELSE g[n - 1] + t[n]
  <2>1. CASE n = 0
    <3>1. f[n] = 0 /\ n < k
      BY <1>2, <1>5, <2>1
    <3>. QED
      BY <2>1, <3>1
  <2>2. CASE n # 0
    <3>1. n \in 1 .. Len(s) /\ n - 1 \in 0 .. Len(s)
      BY <1>2, <2>2
    <3>2. f[n] = f[n - 1] + s[n] /\ f[n - 1] \in Int /\ f[n] \in Int /\ s[n] \in Int
      BY <1>1, <1>2, <1>5, <2>2, <3>1
    <3>3. t[n] = IF n = k THEN s[k] - d ELSE s[n]
      BY <1>4, <3>1
    <3>4. /\ g[n] = IF n < k THEN f[n] ELSE f[n] - d
          /\ g[n - 1] = IF n - 1 < k THEN f[n - 1] ELSE f[n - 1] - d
      BY <3>1
    <3>. HIDE DEF g
    <3>5. CASE n < k
      BY <3>1, <3>2, <3>3, <3>4, <3>5, <2>2
    <3>6. CASE n = k
      BY <3>1, <3>2, <3>3, <3>4, <3>6, <2>2
    <3>7. CASE n > k
      BY <3>1, <3>2, <3>3, <3>4, <3>7, <2>2
    <3>. QED
      BY <3>1, <3>5, <3>6, <3>7
  <2>. QED
    BY <2>1, <2>2
<1>7. Sums(g, t, Len(t))
  BY <1>3, <1>6 DEF Sums
<1>8. Total(t) = g[Len(s)] /\ Total(s) = f[Len(s)]
  BY <1>1, <1>3, <1>7, TotalIsSum
<1>. QED
  BY <1>1, <1>2, <1>8 DEF t

\* A deposit takes from one account what it puts on the new one.
LEMMA MoneyStep ==
    ASSUME IInv, MoneyIsConserved, StepIsSound
    PROVE  MoneyIsConserved'
<1>1. CASE UNCHANGED ledger
  BY <1>1 DEF MoneyIsConserved
<1>2. CASE Restarts
  BY <1>2 DEF Restarts, Reset, MoneyIsConserved
<1>3. CASE Deposits
  <2> DEFINE d == draft.form
             s == ledger[d.member]
  <2>1. /\ d.member \in Members /\ d.amount \in Nat /\ s \in Seq(Nat)
        /\ d.source \in 1 .. Len(s) /\ ledger \in [Members -> Seq(Nat)]
    BY <1>3 DEF IInv, TypeOK, Sound, Covered, Deposits, Draft, Form
  <2>2. /\ ledger'[d.member] = Append(Debited(d), d.amount)
        /\ \A m \in Members \ {d.member} : ledger'[m] = ledger[m]
    BY <1>3, <2>1 DEF Deposits
  <2>3. s \in Seq(Int) /\ s[d.source] - d.amount \in Int
    <3>1. s \in Seq(Int)
      BY <2>1, SeqMonotonic
    <3>2. s[d.source] \in Int
      BY <2>1, <3>1, ElementOfSeq
    <3>. HIDE DEF s, d
    <3>. QED
      BY <2>1, <3>1, <3>2
  <2>4. Debited(d) = [s EXCEPT ![d.source] = @ - d.amount]
    BY DEF Debited
  <2>5. Debited(d) \in Seq(Int)
    BY <2>1, <2>3, <2>4, ExceptSeq
  <2>6. Total(ledger'[d.member]) = Total(s)
    <3> DEFINE k == d.source
               x == d.amount
               t == Debited(d)
    <3>1. /\ s \in Seq(Int) /\ k \in 1 .. Len(s) /\ x \in Int
          /\ t \in Seq(Int) /\ t = [s EXCEPT ![k] = @ - x]
          /\ ledger'[d.member] = Append(t, x)
      BY <2>1, <2>2, <2>3, <2>4, <2>5
    <3>. HIDE DEF s, d, k, x, t
    <3>2. Total(t) = Total(s) - x
      BY <3>1, TotalExcept
    <3>3. Total(s) \in Int
      BY <3>1, TotalAppend
    <3>4. Total(Append(t, x)) = Total(t) + x
      BY <3>1, TotalAppend
    <3>. QED
      BY <3>1, <3>2, <3>3, <3>4
  <2>. HIDE DEF d
  <2>. QED
    BY <2>1, <2>2, <2>6 DEF MoneyIsConserved
<1>. QED
  BY <1>1, <1>2, <1>3 DEF StepIsSound, Effects, Keeps, Drops, Offers, Confirms, account

\* No sequence of requests, notices, expiries and faults makes or loses money:
\* a member's accounts always sum up to what they were seeded with.
THEOREM MoneyConserved == Spec => []MoneyIsConserved
<1>1. Init => MoneyIsConserved
  BY DEF Init, Reset, MoneyIsConserved
<1>2. IInv /\ MoneyIsConserved /\ [Next]_vars => MoneyIsConserved'
  BY Steps, MoneyStep
<1>. QED
  BY <1>1, <1>2, Invariance, PTL DEF Spec
=============================================================================
