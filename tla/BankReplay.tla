----------------------------- MODULE BankReplay -----------------------------
(***************************************************************************)
(* The recorded balance lookup replayed against the synthetic bank: the    *)
(* executor, the browser's frames, one session of the bank, its faults,    *)
(* and the operator of the handoff.                                        *)
(*                                                                         *)
(* ReplayExecutor lets every observation differ from the one before; here  *)
(* an observation is what the frames show, an action does to the page what *)
(* its control does, and the page is what the bank answers.  The steps are *)
(* those of capabilities/look_up_member_savings_balance@1.0.0.json.        *)
(***************************************************************************)
EXTENDS ReplayExecutor

CONSTANTS
    Members, Restricted, Seed, None,   \* the bank's; None: no member has this number
    Alarming,     \* members with "500" somewhere on their detail page
    FaultPlans,   \* what may be posted to the session at launch
    Operators,    \* who may take a handoff: "scripted", "human"
    Enquiries     \* the numbers a person may type

VARIABLES
    tenant, authenticated, draft, pending, receipts, faults, ledger, minted,
    known, served,                     \* the bank's session
    wanted,       \* the member asked for
    operator,     \* who takes the handoff
    launched,     \* the faults posted at launch
    page,         \* the screen each frame shows
    shown,        \* the member the workspace is about
    typed,        \* the member typed into its form
    loads,        \* documents to be fetched, with their frames
    loading,      \* the one being fetched
    value,        \* the member whose balance was read
    left          \* how the operator left the run

bank    == <<tenant, authenticated, draft, pending, receipts, faults, ledger,
             minted, known, served>>
browser == <<page, shown, typed, loads, loading, value>>
given   == <<wanted, operator, launched>>
world   == <<bank, browser, given, left>>

Ask(action, method, member) ==
    [tenant |-> "alpha", action |-> action, method |-> method,
     form |-> [member |-> member, source |-> 0, amount |-> 0, token |-> 0]]

Persons == Members \cup {None}

SignInPage  == [frame |-> "top", ask |-> Ask("login", "POST", None)]
Inner(f)    == [frame |-> f, ask |-> Ask("frame", "GET", None)]
SearchPage  == [frame |-> "workspace", ask |-> Ask("search", "GET", None)]
Find(m)     == [frame |-> "workspace", ask |-> Ask("search", "POST", m)]
Open(m)     == [frame |-> "workspace", ask |-> Ask("detail", "GET", m)]
NewAccount(m) == [frame |-> "workspace", ask |-> Ask("open", "GET", m)]
Acknowledge == [frame |-> "workspace", ask |-> Ask("dismiss", "POST", None)]

Documents == {SignInPage, Inner("navigation"), Inner("content"), SearchPage, Acknowledge}
             \cup {Find(m) : m \in Persons} \cup {Open(m) : m \in Persons}
             \cup {NewAccount(m) : m \in Persons}

Tab == "tab"
Site == INSTANCE TargetApp WITH
    Clients <- {Tab}, Tenants <- {"alpha"}, Extra <- {}, Home <- "alpha",
    Asks <- {d.ask : d \in Documents}, MaxTokens <- 0

\* The lookup: user name, sign in, number, search, open, read.
LookUp == LET step(reads, risk) == [reads |-> reads, checked |-> TRUE, risk |-> risk]
          IN  <<step(FALSE, "reversible"), step(FALSE, "safe"), step(FALSE, "reversible"),
                step(FALSE, "safe"), step(FALSE, "safe"), step(TRUE, "safe")>>

Frames == {"top", "navigation", "content", "workspace"}

\* A document on its way to a frame, or to one that wants it no more.
Fetched == [frame : Frames \cup {"none"}, ask : {d.ask : d \in Documents}]
Handover == [server : BOOLEAN, step : Nat, others : SUBSET Members, settled : BOOLEAN]

ASSUME BankAssumption ==
    /\ Capabilities = {LookUp}
    /\ Restricted \subseteq Members /\ Alarming \subseteq Members
    /\ Enquiries \subseteq Persons
    /\ None \notin Members \cup {"alpha"} \cup Fetched \cup Handover \cup Site!Kept
    /\ \A call \in Calls : call.valid /\ call.approved

\* The CLI posts one kind of fault; a second server error would meet the page
\* the operator has restored.  The policy's limits leave room for the steps.
ASSUME DemoAssumption ==
    /\ \A plan \in FaultPlans :
           /\ plan \in [Site!Kinds -> Nat] /\ plan["server_error_500"] <= 1
           /\ \A k, l \in Site!Kinds : plan[k] > 0 /\ plan[l] > 0 => k = l
    /\ \A n \in 0 .. 5 : ~OverBudget(Policy.limits, [steps |-> n])

Blank == [f \in Frames |-> "blank"]

\* launch() has opened the login page; then the faults were posted.
BankInit ==
    /\ Init
    /\ wanted \in Persons /\ operator \in Operators
    /\ launched \in FaultPlans
    /\ tenant = "alpha" /\ authenticated = FALSE
    /\ draft = None /\ pending = None /\ receipts = <<>>
    /\ ledger = [m \in Members |-> Seed[m]]
    /\ faults = launched
    /\ minted = 0 /\ known = {}
    /\ served = [c \in {Tab} |-> Site!Idle]
    /\ page = [Blank EXCEPT !["top"] = "login"]
    /\ shown = None /\ typed = None
    /\ loads = {} /\ loading = None
    /\ value = None /\ left = None

-----------------------------------------------------------------------------
(* The browser                                                             *)

Inside(f) == IF f = "top" THEN Frames
             ELSE IF f = "content" THEN {"content", "workspace"} ELSE {f} \cap Frames

\* A frame is sent elsewhere: what it was fetching is of no use any more.
Go(document) ==
    LET gone == Inside(document.frame) IN
    /\ loads' = {d \in loads : d.frame \notin gone} \cup {document}
    /\ loading' = IF loading # None /\ loading.frame \in gone
                  THEN [loading EXCEPT !.frame = "none"] ELSE loading

Settled == loads = {} /\ loading = None

Fetch ==
    /\ loading = None
    /\ \E document \in loads :
           /\ loads' = loads \ {document}
           /\ loading' = document
           /\ \/ Site!RouteTo(Tab) /\ served'[Tab].request = document.ask
              \/ Site!Expire(Tab)
    /\ UNCHANGED <<page, shown, typed, value>>

Answered ==
    /\ \/ Site!SignIn(Tab) \/ Site!Refuse(Tab) \/ Site!ReadBody(Tab) \/ Site!Blocked(Tab)
       \/ Site!Dismiss(Tab) \/ Site!Interrupt(Tab) \/ Site!Disturb(Tab) \/ Site!Handle(Tab)
    /\ UNCHANGED browser

\* A frame shows the answer, and asks for the documents of its own frames.
Render ==
    /\ Site!Leave(Tab)
    /\ LET answer == served[Tab].answer
           gone   == Inside(loading.frame)
       IN  /\ page' = [f \in Frames |->
                          IF f = loading.frame THEN answer.screen
                          ELSE IF f \in gone THEN "blank" ELSE page[f]]
           /\ IF "workspace" \in gone
              THEN shown' = answer.member /\ typed' = None
              ELSE UNCHANGED <<shown, typed>>
           /\ loads' = {d \in loads : d.frame \notin gone}
                       \cup (IF loading.frame = "top" /\ answer.screen = "shell"
                             THEN {Inner("navigation"), Inner("content")} ELSE {})
                       \cup (IF loading.frame = "content" /\ answer.screen = "frame"
                             THEN {SearchPage} ELSE {})
    /\ loading' = None
    /\ UNCHANGED value

-----------------------------------------------------------------------------
(* What the capability says of the page                                    *)

Shows(screen) == \E f \in Frames : page[f] = screen

\* Its outcomes, in their order, over the text of all frames.
Detected ==
    IF Shows("not_found") \/ Shows("denied") THEN "business"
    ELSE IF Shows("notice") THEN "dismiss"
    ELSE IF Shows("expired") THEN "reauthenticate"
    ELSE IF Shows("server_error") \/ (Shows("detail") /\ shown \in Alarming) THEN "hard"
    ELSE "none"

\* The control a step acts on is there: the login form, the search form, the
\* link of the member, the balance.
Present(step) ==
    IF step <= 2 THEN page["top"] \in {"login", "expired"}
    ELSE page["workspace"] = <<"search", "search", "results", "detail">>[step - 2]

\* Its checkpoint holds: the heading of the login page, that of the shell for
\* whatever happens in the frames, or a value that was read.
Reached(step, read) ==
    IF step = 1 THEN page["top"] \in {"login", "expired"}
    ELSE IF step < 6 THEN page["top"] = "shell"
    ELSE step \in read

\* The rules of data entry and of navigation allow every step on every page.
See(step, read) ==
    observation' = [ready |-> TRUE, done |-> Reached(step, read), site |-> "safe",
                    outcome |-> Detected]

\* What using the control of a step does.
Use(step) ==
    \/ step = 1 /\ UNCHANGED browser
    \/ step = 2 /\ Go(SignInPage) /\ UNCHANGED <<page, shown, typed, value>>
    \/ step = 3 /\ typed' = wanted /\ UNCHANGED <<page, shown, loads, loading, value>>
    \/ step = 4 /\ Go(Find(typed)) /\ UNCHANGED <<page, shown, typed, value>>
    \/ step = 5 /\ Go(Open(shown)) /\ UNCHANGED <<page, shown, typed, value>>
    \/ step = 6 /\ value' = shown /\ UNCHANGED <<page, shown, typed, loads, loading>>

-----------------------------------------------------------------------------
(* The run                                                                 *)

\* Steps of the run that leave the page alone.
Quietly ==
    /\ \/ pc = "begin" /\ See(index, {}) /\ Begin
       \/ Decide \/ Checkpoint \/ Succeed \/ Escalate \/ Resume \/ End \/ Raise
    /\ UNCHANGED world

\* A control that is there is found; else a position may be, of something else.
Locate ==
    /\ Resolve
    /\ Present(index) => pc' = "act"
    /\ UNCHANGED world

\* The action has its effect, unless it raised before; on something else it
\* has none, and nothing but a form takes text.
Perform ==
    /\ Act
    /\ \/ Present(index) /\ Use(index)
       \/ /\ Present(index) \/ index \in {1, 3} => pc' # "look"
          /\ UNCHANGED browser
    /\ UNCHANGED <<bank, given, left>>

\* act() has settled before it returns.
Inspect ==
    /\ Settled
    /\ LET read == outputs \cup (IF index = 6 /\ value # None THEN {6} ELSE {}) IN
       /\ See(index, read)
       /\ Look
       /\ outputs' = read
    /\ UNCHANGED world

\* A recovery's controls are those of the page it was called for.
Recover ==
    /\ \/ /\ DismissNotice
          /\ IF Shows("notice") THEN pc' = "recovered" /\ Go(Acknowledge)
                                ELSE pc' = "returned" /\ UNCHANGED <<loads, loading>>
       \/ /\ See(index, outputs)
          /\ TypeUsername /\ pc' = "signin"
          /\ UNCHANGED <<loads, loading>>
       \/ ClickSignIn /\ pc' = "recovered" /\ Go(SignInPage)
       \/ /\ Settled
          /\ See(index, outputs)
          /\ Recovered
          /\ UNCHANGED <<loads, loading>>
    /\ UNCHANGED <<bank, page, shown, typed, value, given, left>>

-----------------------------------------------------------------------------
(* The operator                                                            *)

\* Whom the browser and the bank are about: who is typed, shown, asked for,
\* answered, or kept behind a notice.
Meant ==
    {typed, shown}
    \cup {d.ask.form.member : d \in loads}
    \cup (IF loading = None THEN {} ELSE {loading.ask.form.member})
    \cup (IF pending = None THEN {} ELSE {pending.form.member})
    \cup (IF Site!At(Tab, "answered") THEN {served[Tab].answer.member} ELSE {})

\* What became of the handoff: a server error or another failure, of which
\* step, and the members but the one asked for that the run may now meet.
Handed == [server |-> result = "server", step |-> FailedStep,
           others |-> Meant \ {None, wanted}, settled |-> Settled]

\* restore_member_search clicks the link of the navigation frame, if it is
\* there, and waits for the search page to come.
ScriptedRestore ==
    /\ pc = "operator" /\ operator = "scripted" /\ left = None
    /\ page["navigation"] = "frame"
    /\ Go(SearchPage)
    /\ left' = Handed
    /\ UNCHANGED <<vars, bank, page, shown, typed, value, given>>

\* The search page is a click away from the navigation and from every refusal.
SearchLinked ==
    \/ page["navigation"] = "frame" /\ page["content"] = "frame"
    \/ page["workspace"] \in {"not_found", "denied", "server_error", "invalid"}

\* A person uses the controls there are, and waits for nothing.
HumanActs ==
    /\ pc = "operator" /\ operator = "human"
    /\ \/ /\ page["workspace"] = "search"
          /\ typed' \in Enquiries
          /\ UNCHANGED <<loads, loading>>
       \/ /\ \/ SearchLinked /\ Go(SearchPage)
             \/ page["workspace"] = "search" /\ Go(Find(typed))
             \/ page["workspace"] = "results" /\ Go(Open(shown))
             \/ page["workspace"] = "detail" /\ Go(NewAccount(shown))
             \/ page["workspace"] = "notice" /\ Go(Acknowledge)
             \/ (Shows("login") \/ Shows("expired")) /\ Go(SignInPage)
          /\ UNCHANGED typed
    /\ UNCHANGED <<vars, bank, page, shown, value, given, left>>

\* The run goes on with the page that was left to it: nothing waits for what
\* a person has just clicked.
GetBack ==
    /\ operator = "human" \/ (Settled /\ left # None)
    /\ See(FailedStep, {})
    /\ HandBack
    /\ left' = Handed
    /\ UNCHANGED <<bank, browser, given>>

-----------------------------------------------------------------------------
\* The pages load until the run is over, and the browser closed.
Visit ==
    /\ pc \notin {"ended", "raised"}
    /\ Fetch \/ Answered \/ Render
    /\ UNCHANGED <<vars, given, left>>

BankNext ==
    \/ Visit
    \/ Quietly \/ Locate \/ Perform \/ Inspect \/ Recover
    \/ ScriptedRestore \/ HumanActs \/ GetBack

BankSpec == BankInit /\ [][BankNext]_<<vars, world>>

-----------------------------------------------------------------------------
(* Properties                                                              *)

\* A success gives the balance of the member that was asked for, unless a
\* person left the browser about another one: on the page or, before it had
\* settled, on its way there.  On a settled page that takes a failure after
\* the search form, for the steps up to it name the member.
SuccessIsTheRequestedBalance ==
    result = "success" =>
        /\ value \in Members \ Restricted
        /\ value # wanted =>
               /\ operator = "human" /\ left # None
               /\ value \in left.others
               /\ left.settled => left.step >= 3

Only(kinds) == \A k \in DOMAIN launched : launched[k] > 0 => k \in kinds

\* The answer of the bank that is out of order in no other way.
Expected == IF wanted \in Members \ Restricted THEN "success" ELSE "business"

Uncertain == {"timeout", "unknown"}

Unaided == pc = "ended" /\ ~resumed /\ result \notin Uncertain /\ wanted \notin Alarming

\* The demos of README.md, for any member: a replay that no step timed out of
\* ends as they say, with one fault of any kind.
DemoEndsAsDocumented ==
    /\ Unaided /\ left = None =>
        /\ /\ Only({"slow_load", "validation_error", "session_expired",
                    "unexpected_interstitial"})
           /\ \A k \in DOMAIN launched : launched[k] <= 1
           => result = Expected
        /\ launched["server_error_500"] > 0 => result = "server"
        /\ launched["permission_denied"] > 0 \/ launched["record_not_found"] > 0
           => result = "business"
    /\ /\ pc = "ended" /\ resumed /\ operator = "scripted"
       /\ left.server /\ left.step = 2
       /\ result \notin Uncertain /\ wanted \notin Alarming
       => result = Expected

\* "Replay checks outcomes before checkpoints so member not found is a
\* business answer", on a bank that does no more than show notices.
MissingMemberIsAnswered ==
    Unaided /\ left = None /\ wanted = None /\ Only({"unexpected_interstitial"})
    => result = "business"
=============================================================================
