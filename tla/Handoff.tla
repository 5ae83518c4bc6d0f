------------------------------- MODULE Handoff ------------------------------
(***************************************************************************)
(* The handoff of one live browser from a replay run to an operator and    *)
(* back.  Four parts of the program meet here:                             *)
(*   - the run (cli/__main__.py, `run` inside the replay command), which   *)
(*     replays, escalates, waits for the operator and replays on;          *)
(*   - HandoffCoordinator and its in-memory store, called by concurrent    *)
(*     POST handlers of the operator console or by the scripted operator;  *)
(*   - the control half of WebSurface: its FIFO asyncio.Lock, the ceded    *)
(*     flag and the outstanding ControlToken;                              *)
(*   - the lease, whose expiry is read off a clock that runs meanwhile.    *)
(* Everything between two awaits of a coroutine is one action.  An await   *)
(* that suspends is a step into the queue of the surface's lock and, when  *)
(* the task reaches its head, the step that runs the guarded body.         *)
(* JournalAdapter.append never suspends, so appending is part of the       *)
(* action that calls it.                                                   *)
(***************************************************************************)
EXTENDS SessionLease, Sequences

CONSTANTS Handlers,   \* concurrent POST requests to the console
          Main,       \* the task of the run itself
          NoActor,    \* operator_actor = None
          MaxTime,    \* bound on the clock
          MaxActs     \* bound on automation's own actions

Tasks == Handlers \cup {Main}

ASSUME HandoffAssumption ==
    /\ Main \notin Handlers
    /\ NoActor \notin Tasks
    /\ MaxTime \in Nat
    /\ MaxActs \in Nat

NoToken == 0

VARIABLES
    now,        \* clock
    request,    \* the stored InterventionRequest
    before,     \* is the coordinator's _before entry present?
    held,       \* the coordinator's _tokens entry
    ceded,      \* WebSurface._ceded
    token,      \* WebSurface._token
    issued,     \* tokens issued so far: tells one ControlToken from another
    monitored,  \* are the page's request listeners attached?
    lock,       \* WebSurface._lock: its holder, then its waiters in order
    pc,         \* where each task is suspended
    lease,      \* the lease each task computed before it was suspended
    grasp,      \* the token each task has popped for itself
    run,        \* how far the run has come
    server,     \* the operator console's uvicorn server
    terminal,   \* has the run bound `terminal` and journaled RunEnded?
    acts,       \* automation's actions so far
    journal     \* the control events of the run's journal

coordinator == <<request, before, held>>
surface     == <<ceded, token, issued, monitored>>
tasks       == <<lock, pc, lease, grasp>>
cli         == <<run, server, terminal, acts>>
vars        == <<now, coordinator, surface, tasks, cli, journal>>

-----------------------------------------------------------------------------
Status   == {"none", "open", "operator_control", "handback_pending", "resolved",
             "aborted"}
Requests == [status : Status, lease : Leases, actor : Tasks \cup {NoActor}]
Waiting  == {"ceding", "resuming", "observing", "acting"}
RunState == {"replaying", "take", "act", "back", "waiting", "stopping",
             "reobserving", "resumed", "ending", "cleanup", "closed", "failed"}
EventType == {"EscalationRaised", "ControlTransferred", "HumanAction",
              "ControlReturned", "HumanChangeSummary", "RunEnded"}
Events   == [type : EventType, actor : Tasks \cup {NoActor}]

Event(type, actor) == [type |-> type, actor |-> actor]

Init ==
    /\ now = 0
    /\ request = [status |-> "none", lease |-> Create(0), actor |-> NoActor]
    /\ before = FALSE
    /\ held = NoToken
    /\ ceded = FALSE
    /\ token = NoToken
    /\ issued = 0
    /\ monitored = TRUE
    /\ lock = <<>>
    /\ pc = [t \in Tasks |-> "idle"]
    /\ lease = [t \in Tasks |-> Create(0)]
    /\ grasp = [t \in Tasks |-> NoToken]
    /\ run = "replaying"
    /\ server = "off"
    /\ terminal = FALSE
    /\ acts = 0
    /\ journal = <<>>

-----------------------------------------------------------------------------
(* The lock of the surface, and how a coroutine of the run goes on.        *)

Queue_NewestFirst(t, where) ==                       \* mutant: an unfair lock
    /\ lock' = IF lock = <<>> THEN <<t>>
               ELSE <<Head(lock), t>> \o Tail(lock)
    /\ pc' = [pc EXCEPT ![t] = where]

Queue(t, where) == /\ lock' = Append(lock, t)
                   /\ pc' = [pc EXCEPT ![t] = where]

Running(t, where) == lock # <<>> /\ Head(lock) = t /\ pc[t] = where

Release(t) == /\ lock' = Tail(lock)
              /\ pc' = [pc EXCEPT ![t] = "idle"]

\* Releases the lock and asks for it again behind whoever waits by then.
Requeue(t, where) == /\ lock' = Append(Tail(lock), t)
                     /\ pc' = [pc EXCEPT ![t] = where]

\* A call returns to its caller: only the run has somewhere to go.
Return(t, where) == run' = IF t = Main THEN where ELSE run

\* An exception: a handler answers 500, the run unwinds to its finally.
Raise(t) == Return(t, "cleanup")

\* t may call the coordinator: a console POST, or the script at that line.
MayCall(t, line) ==
    /\ pc[t] = "idle"
    /\ \/ t \in Handlers /\ server = "up"
       \/ t = Main /\ run = line

-----------------------------------------------------------------------------
(* HandoffCoordinator                                                      *)

TakeControl_StoresFirst(t) ==                        \* mutant
    /\ MayCall(t, "take")
    /\ CanTakeControl(request.lease, now)
    /\ lease' = [lease EXCEPT ![t] = TakeControlOf(request.lease, now)]
    /\ request' = [status |-> "operator_control", lease |-> lease'[t], actor |-> t]
    /\ Queue(t, "ceding")
    /\ UNCHANGED <<now, before, held, surface, grasp, cli, journal>>

\* take_control up to `await self.surface.cede_control()`.  An expired lease
\* makes LeaseManager.take_control raise before the ABORTED branch is reached.
TakeControl(t) ==
    /\ MayCall(t, "take")
    /\ IF CanTakeControl(request.lease, now)
       THEN /\ lease' = [lease EXCEPT ![t] = TakeControlOf(request.lease, now)]
            /\ Queue(t, "ceding")
            /\ UNCHANGED run
       ELSE /\ Raise(t)
            /\ UNCHANGED <<lock, pc, lease>>
    /\ UNCHANGED <<now, coordinator, surface, grasp, server, terminal, acts,
                   journal>>

CedeControl_Unasserted(t) ==                         \* mutant: no _assert_control
    /\ Running(t, "ceding")
    /\ issued' = issued + 1 /\ token' = issued' /\ held' = issued'
    /\ ceded' = TRUE /\ monitored' = FALSE
    /\ request' = [status |-> "operator_control", lease |-> lease[t], actor |-> t]
    /\ journal' = Append(journal, Event("ControlTransferred", t))
    /\ Release(t)
    /\ Return(t, "act")
    /\ UNCHANGED <<now, before, lease, grasp, server, terminal, acts>>

\* cede_control under the lock, and the rest of take_control.
CedeControl(t) ==
    /\ Running(t, "ceding")
    /\ ~ceded
    /\ issued' = issued + 1
    /\ token' = issued'
    /\ ceded' = TRUE
    /\ monitored' = FALSE
    /\ held' = issued'
    /\ request' = [status |-> "operator_control", lease |-> lease[t], actor |-> t]
    /\ journal' = Append(journal, Event("ControlTransferred", t))
    /\ Release(t)
    /\ Return(t, "act")
    /\ UNCHANGED <<now, before, lease, grasp, server, terminal, acts>>

CedeFails_KeepsLock(t) ==                            \* mutant: no finally
    /\ Running(t, "ceding")
    /\ pc' = [pc EXCEPT ![t] = "idle"]
    /\ Raise(t)
    /\ UNCHANGED <<now, coordinator, surface, lock, lease, grasp, server,
                   terminal, acts, journal>>

\* cede_control raises: control already ceded, or the CDP session fails
\* before or after the listeners came off.
CedeFails(t) ==
    /\ Running(t, "ceding")
    /\ monitored' \in IF ceded THEN {monitored} ELSE {monitored, FALSE}
    /\ Release(t)
    /\ Raise(t)
    /\ UNCHANGED <<now, coordinator, ceded, token, issued, lease, grasp, server,
                   terminal, acts, journal>>

\* The scripted operator drives the page and reports what it did.
RecordAction ==
    /\ run = "act"
    /\ IF request.status = "operator_control" /\ request.actor # NoActor
       THEN /\ journal' = Append(journal, Event("HumanAction", request.actor))
            /\ run' = "back"
       ELSE run' = "cleanup" /\ UNCHANGED journal
    /\ UNCHANGED <<now, coordinator, surface, tasks, server, terminal, acts>>

\* The scripted operator's own browser connection fails.
ScriptFails ==
    /\ run = "act"
    /\ run' = "cleanup"
    /\ UNCHANGED <<now, coordinator, surface, tasks, server, terminal, acts,
                   journal>>

HandBack_KeepsToken(t) ==                            \* mutant: get, not pop
    /\ MayCall(t, "back")
    /\ request.actor # NoActor /\ CanRequestHandback(request.lease, now)
    /\ LET pending == RequestHandback(request.lease, now) IN
       /\ request' = [request EXCEPT !.status = "handback_pending", !.lease = pending]
       /\ lease' = [lease EXCEPT ![t] = pending]
    /\ grasp' = [grasp EXCEPT ![t] = held]
    /\ Queue(t, "resuming")
    /\ UNCHANGED <<now, before, held, surface, cli, journal>>

\* hand_back up to `await self.surface.resume_control(token)`.
HandBack(t) ==
    /\ MayCall(t, "back")
    /\ IF request.actor # NoActor /\ CanRequestHandback(request.lease, now)
       THEN LET pending == RequestHandback(request.lease, now) IN
            /\ request' = [request EXCEPT !.status = "handback_pending",
                                          !.lease = pending]
            /\ lease' = [lease EXCEPT ![t] = pending]
            /\ grasp' = [grasp EXCEPT ![t] = held]
            /\ held' = NoToken
            /\ Queue(t, "resuming")
            /\ UNCHANGED run
       ELSE /\ Raise(t)
            /\ UNCHANGED <<request, held, tasks>>
    /\ UNCHANGED <<now, before, surface, server, terminal, acts, journal>>

ResumeControl_NoMonitor(t) ==                        \* mutant
    /\ Running(t, "resuming")
    /\ ceded /\ grasp[t] = token
    /\ ceded' = FALSE /\ token' = NoToken
    /\ grasp' = [grasp EXCEPT ![t] = NoToken]
    /\ Requeue(t, "observing")
    /\ UNCHANGED <<now, coordinator, issued, monitored, lease, cli, journal>>

\* resume_control under the lock finds the same page again; hand_back goes
\* on to `await self.surface.observe()`.
ResumeControl(t) ==
    /\ Running(t, "resuming")
    /\ ceded
    /\ grasp[t] = token
    /\ ceded' = FALSE
    /\ token' = NoToken
    /\ monitored' = TRUE
    /\ grasp' = [grasp EXCEPT ![t] = NoToken]
    /\ Requeue(t, "observing")
    /\ UNCHANGED <<now, coordinator, issued, lease, cli, journal>>

\* resume_control raises: the browser is unreachable, or the page is gone.
\* The popped token is lost with the coroutine.
ResumeFails(t) ==
    /\ Running(t, "resuming")
    /\ grasp' = [grasp EXCEPT ![t] = NoToken]
    /\ Release(t)
    /\ Raise(t)
    /\ UNCHANGED <<now, coordinator, surface, lease, server, terminal, acts,
                   journal>>

\* observe under the lock, and the rest of hand_back.  The lease may have
\* expired since request_handback: then the last line but one raises.
FinishHandBack(t) ==
    /\ Running(t, "observing")
    /\ ~ceded
    /\ before' = FALSE
    /\ journal' = journal \o << Event("ControlReturned", request.actor),
                                Event("HumanChangeSummary", request.actor) >>
    /\ IF CanResume(lease[t], now)
       THEN /\ request' = [request EXCEPT !.status = "resolved",
                                          !.lease = ResumeLease(lease[t], now)]
            /\ Return(t, "reobserving")
       ELSE /\ Raise(t)
            /\ UNCHANGED request
    /\ Release(t)
    /\ UNCHANGED <<now, held, surface, lease, grasp, server, terminal, acts>>

\* The observation after the handback raises.
ObserveFails(t) ==
    /\ Running(t, "observing")
    /\ Release(t)
    /\ Raise(t)
    /\ UNCHANGED <<now, coordinator, surface, lease, grasp, server, terminal,
                   acts, journal>>

-----------------------------------------------------------------------------
(* The run                                                                 *)

\* ReplayExecutor calls surface.act ...
StartAct ==
    /\ run \in {"replaying", "resumed"}
    /\ pc[Main] = "idle"
    /\ acts < MaxActs
    /\ Queue(Main, "acting")
    /\ UNCHANGED <<now, coordinator, surface, lease, grasp, cli, journal>>

\* ... whose body runs under the lock, unless control is ceded.
Act ==
    /\ Running(Main, "acting")
    /\ IF ceded THEN run' = "cleanup" /\ UNCHANGED acts
                ELSE acts' = acts + 1 /\ UNCHANGED run
    /\ Release(Main)
    /\ UNCHANGED <<now, coordinator, surface, lease, grasp, server, terminal,
                   journal>>

\* A hard failure with --escalate-on-failure: observe, create and pause the
\* lease, open the request, and start the script or the console.
Escalate(scripted) ==
    /\ run = "replaying"
    /\ pc[Main] = "idle"
    /\ request' = [status |-> "open", lease |-> Pause(Create(now)),
                   actor |-> NoActor]
    /\ before' = TRUE
    /\ journal' = Append(journal, Event("EscalationRaised", NoActor))
    /\ IF scripted THEN run' = "take" /\ UNCHANGED server
                   ELSE run' = "waiting" /\ server' = "up"
    /\ UNCHANGED <<now, held, surface, tasks, terminal, acts>>

\* The executor returns a result that is not escalated.
EndReplay ==
    /\ run \in {"replaying", "resumed"}
    /\ pc[Main] = "idle"
    /\ run' = "ending"
    /\ UNCHANGED <<now, coordinator, surface, tasks, server, terminal, acts,
                   journal>>

\* An exception the executor does not turn into a result.
ReplayRaises ==
    /\ run \in {"replaying", "resumed", "reobserving"}
    /\ pc[Main] = "idle"
    /\ run' = "cleanup"
    /\ UNCHANGED <<now, coordinator, surface, tasks, server, terminal, acts,
                   journal>>

LeavePolling_OnHandback ==                           \* mutant: leaves too early
    /\ run = "waiting"
    /\ request.status \in {"handback_pending", "resolved", "aborted"}
    /\ run' = "stopping"
    /\ UNCHANGED <<now, coordinator, surface, tasks, server, terminal, acts,
                   journal>>
LeavePolling_OnAbort ==                              \* mutant: misses "resolved"
    /\ run = "waiting"
    /\ request.status = "aborted"
    /\ run' = "stopping"
    /\ UNCHANGED <<now, coordinator, surface, tasks, server, terminal, acts,
                   journal>>

\* The polling loop sees a final status and asks the server to exit.
LeavePolling ==
    /\ run = "waiting"
    /\ request.status \in {"resolved", "aborted"}
    /\ run' = "stopping"
    /\ UNCHANGED <<now, coordinator, surface, tasks, server, terminal, acts,
                   journal>>

\* The polling loop finds the server gone before the handback.
ConsoleStopped ==
    /\ run = "waiting"
    /\ request.status \notin {"resolved", "aborted"}
    /\ server = "down"
    /\ run' = "cleanup"
    /\ UNCHANGED <<now, coordinator, surface, tasks, server, terminal, acts,
                   journal>>

\* `await server_task` returns.
Joined ==
    /\ run = "stopping"
    /\ server = "down"
    /\ run' = "reobserving"
    /\ UNCHANGED <<now, coordinator, surface, tasks, server, terminal, acts,
                   journal>>

\* The run observes the page itself and rechecks the failed step's
\* checkpoint before it lets the executor go on.
Reobserve(satisfied) ==
    /\ run = "reobserving"
    /\ run' = IF ceded THEN "cleanup"
              ELSE IF satisfied THEN "resumed" ELSE "ending"
    /\ UNCHANGED <<now, coordinator, surface, tasks, server, terminal, acts,
                   journal>>

RecordRunEnded ==
    /\ run = "ending"
    /\ terminal' = TRUE
    /\ journal' = Append(journal, Event("RunEnded", NoActor))
    /\ run' = "cleanup"
    /\ UNCHANGED <<now, coordinator, surface, tasks, server, acts>>

\* The finally block: surface.close refuses while control is ceded, and the
\* manifest needs the name `terminal`; either way the journal stays open.
Cleanup ==
    /\ run = "cleanup"
    /\ lock = <<>>
    /\ run' = IF ceded \/ ~terminal THEN "failed" ELSE "closed"
    /\ UNCHANGED <<now, coordinator, surface, tasks, server, terminal, acts,
                   journal>>

-----------------------------------------------------------------------------
(* The console's server and the clock                                      *)

\* uvicorn stops accepting: should_exit was set, or it was interrupted.
StopServing ==
    /\ server = "up"
    /\ server' = "exiting"
    /\ UNCHANGED <<now, coordinator, surface, tasks, run, terminal, acts,
                   journal>>

\* ... and is down once the handlers it had accepted have answered.
ServerDown ==
    /\ server = "exiting"
    /\ \A h \in Handlers : pc[h] = "idle"
    /\ server' = "down"
    /\ UNCHANGED <<now, coordinator, surface, tasks, run, terminal, acts,
                   journal>>

Tick ==
    /\ now < MaxTime
    /\ now' = now + 1
    /\ UNCHANGED <<coordinator, surface, tasks, cli, journal>>

Done ==
    /\ run \in {"closed", "failed"}
    /\ UNCHANGED vars

-----------------------------------------------------------------------------
\* A suspended call of task t goes on.
Continue(t) ==
    \/ CedeControl(t) \/ CedeFails(t)
    \/ ResumeControl(t) \/ ResumeFails(t)
    \/ FinishHandBack(t) \/ ObserveFails(t)

\* The run's own steps, those that need nobody else.
RunStep ==
    \/ Act
    \/ EndReplay
    \/ LeavePolling \/ ConsoleStopped \/ Joined
    \/ \E satisfied \in BOOLEAN : Reobserve(satisfied)
    \/ RecordRunEnded
    \/ Cleanup
    \/ TakeControl(Main) \/ RecordAction \/ HandBack(Main)

Next ==
    \/ \E t \in Tasks : TakeControl(t) \/ HandBack(t) \/ Continue(t)
    \/ RecordAction \/ ScriptFails
    \/ StartAct \/ Act
    \/ \E scripted \in BOOLEAN : Escalate(scripted)
    \/ EndReplay \/ ReplayRaises
    \/ LeavePolling \/ ConsoleStopped \/ Joined
    \/ \E satisfied \in BOOLEAN : Reobserve(satisfied)
    \/ RecordRunEnded \/ Cleanup
    \/ StopServing \/ ServerDown
    \/ Tick
    \/ Done

Spec == Init /\ [][Next]_vars

(* A coroutine that holds or waits for the lock is resumed by the event    *)
(* loop, the run takes its own next line, and a server that has been asked *)
(* to exit does.  No operator ever has to post anything, and the clock may *)
(* stand still.                                                            *)
Fairness ==
    /\ \A t \in Tasks : WF_vars(Continue(t))
    /\ WF_vars(RunStep)
    /\ WF_vars(run = "stopping" /\ StopServing)
    /\ WF_vars(ServerDown)

FairSpec == Spec /\ Fairness

-----------------------------------------------------------------------------
(* Properties                                                              *)

InJournal(type) == \E i \in DOMAIN journal : journal[i].type = type

\* Every variable of the handoff keeps the type its Python annotation gives.
TypeOK ==
    /\ now \in Nat
    /\ request \in Requests
    /\ before \in BOOLEAN
    /\ held \in Nat
    /\ ceded \in BOOLEAN
    /\ token \in Nat
    /\ issued \in Nat
    /\ monitored \in BOOLEAN
    /\ lock \in Seq(Tasks)
    /\ pc \in [Tasks -> Waiting \cup {"idle"}]
    /\ lease \in [Tasks -> Leases]
    /\ grasp \in [Tasks -> Nat]
    /\ run \in RunState
    /\ server \in {"off", "up", "exiting", "down"}
    /\ terminal \in BOOLEAN
    /\ acts \in Nat
    /\ journal \in Seq(Events)

\* The stored request, the coordinator's token and the surface agree on who
\* has the browser, whatever handlers ran in between: an operator's lease
\* comes with a ceded surface and the token that ends the cession, and a
\* request not yet taken or already resolved leaves automation in control.
LeaseMatchesBrowser ==
    /\ request.status \in {"none", "open", "resolved"} => ~ceded /\ held = NoToken
    /\ request.status = "operator_control" =>
           /\ ceded
           /\ held = token
           /\ request.lease.holder = "operator"
           /\ request.actor # NoActor
    /\ request.status = "handback_pending" =>
           /\ held = NoToken
           /\ request.lease.state = "HANDBACK_PENDING"
    /\ request.status = "resolved" => request.lease.state = "RUNNING"

\* While the browser is lent its token is in the coordinator's table, or with
\* the one hand_back that popped it and waits to present it, never with both.
\* It is lost in one way only: that hand_back failed, and the request stays
\* pending.  A hand_back that waits always has the token the surface expects.
OneTokenOwner ==
    /\ \A t \in Tasks : pc[t] = "resuming" => ceded /\ grasp[t] = token
    /\ ceded =>
           /\ \A t \in Tasks : grasp[t] = token => pc[t] = "resuming" /\ held # token
           /\ \A t, u \in Tasks : grasp[t] = token /\ grasp[u] = token => t = u
           /\ held = token \/ request.status = "handback_pending"

\* Automation never acts on a page whose request listeners are off: settle
\* would take a busy page for a quiet one.
ActsMonitored == run = "resumed" \/ pc[Main] = "acting" => monitored

\* The journal names one operator for the whole loan, in the order transfer,
\* actions, return, summary, even when several people post at once.
OneAccountableOperator ==
    LET At(type) == {i \in DOMAIN journal : journal[i].type = type} IN
    /\ \A i, j \in DOMAIN journal :
           journal[i].actor # NoActor /\ journal[j].actor # NoActor
               => journal[i].actor = journal[j].actor
    /\ \A i, j \in At("ControlTransferred") : i = j
    /\ \A j \in At("ControlReturned") :
           /\ \E i \in At("ControlTransferred") : i < j
           /\ \A i \in At("HumanAction") : i < j

\* A run whose bundle is closed in order has its RunEnded last and, if it
\* escalated, the operator's return and change summary before it.
ClosedRunIsAccounted ==
    run = "closed" =>
        /\ ~ceded
        /\ journal[Len(journal)].type = "RunEnded"
        /\ InJournal("EscalationRaised") =>
               request.status = "resolved" /\ InJournal("HumanChangeSummary")

Edges == { <<"none", "open">>, <<"open", "operator_control">>,
           <<"operator_control", "handback_pending">>,
           <<"handback_pending", "resolved">> }

\* A request moves along the edges of the documented state machine, and a
\* resolved request is final: no late take_control lends the browser again.
Advances ==
    /\ request'.status # request.status
           => <<request.status, request'.status>> \in Edges
    /\ request.status = "resolved" => ~ceded' /\ request' = request

StatusAdvances == [][Advances]_vars

\* Once the stored lease has expired nothing changes the request any more,
\* except a take_control that had found it live before its await.
ExpiredLeaseIsInert ==
    [][Expired(request.lease, now) /\ request' # request
           => \E t \in Tasks : Running(t, "ceding")]_vars

\* How far the loan has come, read off the surface and the journal.
Phase == IF ceded THEN "operator"
         ELSE IF InJournal("HumanChangeSummary") THEN "accounted"
         ELSE IF InJournal("ControlTransferred") THEN "returned"
         ELSE "before"

Control == INSTANCE ExclusiveControl WITH phase <- Phase, acts <- acts

\* The browser goes from automation to one operator and back as
\* ExclusiveControl promises: lent once, never driven by automation before
\* the handback's change summary is in the journal.
ImplementsExclusiveControl == Control!Spec

\* No call into the surface waits for ever on the lock, whatever failed
\* in the calls before it.
CallsReturn == \A t \in Tasks : pc[t] # "idle" ~> pc[t] = "idle"

\* Once a handback is resolved the run comes to its end by itself: the loop
\* sees it, the server drains, the executor returns, the bundle is finished.
ResolvedRunEnds ==
    request.status = "resolved" ~> run \in {"closed", "failed"}

\* docs/escalation.md:4-5 and README.md:89-91: an expired lease is ABORTED.
\* A run that waits for the operator of such a lease must see it.
ExpiryAborts ==
    run = "waiting" /\ Expired(request.lease, now)
        ~> request.status = "aborted" \/ run # "waiting"
=============================================================================
