---------------------------- MODULE HandoffProofs ---------------------------
(***************************************************************************)
(* For any number of concurrent console requests, any ttl_s and any        *)
(* bounds: the handoff keeps its types, keeps request, token and surface   *)
(* in agreement, moves a request along the documented edges only, and      *)
(* implements ExclusiveControl; and, under the second invariant LoanInv,   *)
(* the loan has one token owner and one operator who answers for it, a     *)
(* watched page, an inert request once its lease has expired, and a run    *)
(* whose journal ends with its account.                                    *)
(*                                                                         *)
(* The argument is about stale calls.  take_control checks the lease       *)
(* before it waits for the surface's lock and writes its own copy after.   *)
(* What makes that safe is that the lock is a queue: a take that was       *)
(* checked while the request was open is ahead of any hand_back, which     *)
(* can only be called later (TakesFirst), so it reaches the surface while  *)
(* control is still ceded and fails (StaleTakesFail).                      *)
(***************************************************************************)
EXTENDS Handoff, SequenceTheorems, TLAPS

\* Each suspended call is in the queue once, and nothing else is.
QueueOK ==
    /\ \A i \in 1 .. Len(lock) : pc[lock[i]] # "idle"
    /\ \A i, j \in 1 .. Len(lock) : lock[i] = lock[j] => i = j
    /\ \A t \in Tasks : pc[t] # "idle" => \E i \in 1 .. Len(lock) : lock[i] = t

\* Nobody asks for control behind a hand_back.
TakesFirst ==
    \A i, j \in 1 .. Len(lock) :
        i < j /\ pc[lock[i]] = "resuming" => pc[lock[j]] # "ceding"

\* A take that waits although the request is taken finds control ceded.
StaleTakesFail ==
    request.status # "open" =>
        ceded \/ \A t \in Tasks : pc[t] # "ceding"

GivingBack == {"resuming", "observing"}

\* At most one hand_back is under way, and the request says so.
OneHandBack ==
    /\ \A t \in Tasks : pc[t] \in GivingBack => request.status = "handback_pending"
    /\ \A t, u \in Tasks : pc[t] \in GivingBack /\ pc[u] \in GivingBack => t = u

\* The stored lease is the one the status stands for.
StatusLease ==
    /\ request.status = "none" => request.lease.state = "RUNNING"
    /\ request.status = "open" => request.lease.state = "PAUSED"
    /\ request.status = "operator_control" =>
           request.lease.state = "OPERATOR_CONTROL"
    /\ request.status = "handback_pending" =>
           request.lease.state = "HANDBACK_PENDING"
    /\ request.status = "resolved" => request.lease.state = "RUNNING"
    /\ request.status # "aborted"

\* What a suspended call computed before its await.
LocalLease ==
    \A t \in Tasks :
        pc[t] = "ceding" =>
            lease[t].state = "OPERATOR_CONTROL" /\ lease[t].holder = "operator"

\* Where the run is tells how far the request has come.
RunOK ==
    /\ run = "replaying" => request.status = "none"
    /\ run \in {"stopping", "reobserving", "resumed"} => request.status = "resolved"
    /\ pc[Main] = "acting" => run \in {"replaying", "resumed"}

\* What the journal tells of the loan.
JournalOK ==
    /\ InJournal("ControlTransferred") <=>
           request.status \in {"operator_control", "handback_pending", "resolved"}
    /\ InJournal("HumanChangeSummary") =>
           /\ ~ceded
           /\ request.status \in {"handback_pending", "resolved"}
           /\ \A t \in Tasks : pc[t] \notin GivingBack
    /\ request.status = "resolved" => InJournal("HumanChangeSummary")
    /\ request.status = "operator_control" => ceded

IInv ==
    /\ TypeOK
    /\ QueueOK
    /\ TakesFirst
    /\ StaleTakesFail
    /\ OneHandBack
    /\ StatusLease
    /\ LocalLease
    /\ RunOK
    /\ LeaseMatchesBrowser
    /\ JournalOK

-----------------------------------------------------------------------------
(* Sequences: what joining and leaving a queue does to its indices.        *)

\* Append leaves the old indices alone and adds one (asyncio.Lock: a new
\* waiter goes to the end).
LEMMA AppendFacts ==
    ASSUME NEW S, NEW s \in Seq(S), NEW x \in S
    PROVE  /\ Append(s, x) \in Seq(S)
           /\ Len(Append(s, x)) = Len(s) + 1
           /\ \A i \in 1 .. Len(s) : Append(s, x)[i] = s[i]
           /\ Append(s, x)[Len(s) + 1] = x
    OBVIOUS

\* Tail drops index 1 and moves the others down by one.
LEMMA TailFacts ==
    ASSUME NEW S, NEW s \in Seq(S), s # <<>>
    PROVE  /\ Tail(s) \in Seq(S)
           /\ Len(s) \in Nat \ {0}
           /\ Len(Tail(s)) = Len(s) - 1
           /\ Head(s) = s[1]
           /\ \A i \in 1 .. Len(Tail(s)) : Tail(s)[i] = s[i + 1]
    OBVIOUS

-----------------------------------------------------------------------------
(* Types                                                                   *)

\* The lease operators build leases.
LEMMA LeaseTypes ==
    ASSUME NEW l \in Leases, NEW t \in Nat
    PROVE  /\ Create(t) \in Leases
           /\ Pause(l) \in Leases
           /\ TakeControlOf(l, t) \in Leases
           /\ RequestHandback(l, t) \in Leases
           /\ ResumeLease(l, t) \in Leases
<1>1. \A m \in Leases, s \in HandoffState, h \in LeaseHolder :
          Move(m, s, h) \in Leases
  BY DEF Move, Leases
<1>2. Expire(l, t) \in Leases
  BY <1>1 DEF Expire, HandoffState, Suspended, LeaseHolder
<1>3. {"PAUSED", "OPERATOR_CONTROL", "HANDBACK_PENDING", "RUNNING"} \subseteq HandoffState
  BY DEF HandoffState, Suspended
<1>4. {"none", "operator", "automation"} \subseteq LeaseHolder
  BY DEF LeaseHolder
<1>5. t + TTL \in Nat
  BY TTLAssumption
<1>6. Create(t) \in Leases /\ ResumeLease(l, t) \in Leases
  BY <1>3, <1>4, <1>5 DEF Create, ResumeLease, Leases
<1>7. Pause(l) \in Leases
  BY <1>1, <1>3, <1>4 DEF Pause
<1>8. TakeControlOf(l, t) \in Leases /\ RequestHandback(l, t) \in Leases
  BY <1>1, <1>2, <1>3, <1>4 DEF TakeControlOf, RequestHandback
<1>. QED
  BY <1>6, <1>7, <1>8

\* Taking a place in the queue of the surface's lock, and leaving it.
LEMMA QueueTypes ==
    ASSUME TypeOK, NEW t \in Tasks, NEW w \in Waiting
    PROVE  /\ Queue(t, w) => lock' \in Seq(Tasks)
                             /\ pc' \in [Tasks -> Waiting \cup {"idle"}]
           /\ Running(t, w) /\ Release(t) =>
                  lock' \in Seq(Tasks) /\ pc' \in [Tasks -> Waiting \cup {"idle"}]
           /\ lock # <<>> /\ Requeue(t, w) =>
                  lock' \in Seq(Tasks) /\ pc' \in [Tasks -> Waiting \cup {"idle"}]
<1>1. lock \in Seq(Tasks) /\ pc \in [Tasks -> Waiting \cup {"idle"}]
  BY DEF TypeOK
<1>2. Append(lock, t) \in Seq(Tasks)
  BY <1>1, AppendFacts
<1>3. lock # <<>> => Tail(lock) \in Seq(Tasks)
  BY <1>1, TailFacts
<1>4. lock # <<>> => Append(Tail(lock), t) \in Seq(Tasks)
  BY <1>3, AppendFacts
<1>. QED
  BY <1>1, <1>2, <1>3, <1>4 DEF Queue, Running, Release, Requeue

\* Where a returning or raising call leaves the run is a state of the run.
LEMMA ReturnTypes ==
    ASSUME TypeOK, NEW t \in Tasks
    PROVE  /\ Raise(t) => run' \in RunState
           /\ Return(t, "act") => run' \in RunState
           /\ Return(t, "reobserving") => run' \in RunState
    BY DEF TypeOK, Raise, Return, RunState

\* The events a task journals are events of the journal.
LEMMA EventTypes ==
    ASSUME NEW type \in EventType, NEW actor \in Tasks \cup {NoActor}
    PROVE  /\ Event(type, actor) \in Events
           /\ \A s \in Seq(Events) : Append(s, Event(type, actor)) \in Seq(Events)
<1>1. Event(type, actor) \in Events
  BY DEF Event, Events
<1>. QED
  BY <1>1, AppendFacts

\* A suspended call changes nothing of the wrong type.
LEMMA TypeContinue ==
    ASSUME TypeOK, NEW t \in Tasks, Continue(t)
    PROVE  TypeOK'
<1>0. {"ceding", "resuming", "observing"} \subseteq Waiting
  BY DEF Waiting
<1> USE DEF TypeOK, coordinator, surface, cli, NoToken
<1>1. CASE CedeControl(t)
  <2>1. lock' \in Seq(Tasks) /\ pc' \in [Tasks -> Waiting \cup {"idle"}]
    BY <1>0, <1>1, QueueTypes DEF CedeControl
  <2>2. request' \in Requests
    BY <1>1 DEF CedeControl, Requests, Status
  <2>3. journal' \in Seq(Events)
    BY <1>1, EventTypes DEF CedeControl, EventType
  <2>4. run' \in RunState
    BY <1>1, ReturnTypes DEF CedeControl
  <2>5. issued' \in Nat /\ token' \in Nat /\ held' \in Nat
    BY <1>1 DEF CedeControl
  <2>6. ceded' \in BOOLEAN /\ monitored' \in BOOLEAN
    BY <1>1 DEF CedeControl
  <2>. QED
    BY <1>1, <2>1, <2>2, <2>3, <2>4, <2>5, <2>6 DEF CedeControl
<1>2. CASE CedeFails(t)
  <2>1. lock' \in Seq(Tasks) /\ pc' \in [Tasks -> Waiting \cup {"idle"}]
    BY <1>0, <1>2, QueueTypes DEF CedeFails
  <2>2. run' \in RunState
    BY <1>2, ReturnTypes DEF CedeFails
  <2>. QED
    BY <1>2, <2>1, <2>2 DEF CedeFails
<1>3. CASE ResumeControl(t)
  <2>1. lock' \in Seq(Tasks) /\ pc' \in [Tasks -> Waiting \cup {"idle"}]
    BY <1>0, <1>3, QueueTypes DEF ResumeControl, Running
  <2>. QED
    BY <1>3, <2>1 DEF ResumeControl
<1>4. CASE ResumeFails(t)
  <2>1. lock' \in Seq(Tasks) /\ pc' \in [Tasks -> Waiting \cup {"idle"}]
    BY <1>0, <1>4, QueueTypes DEF ResumeFails
  <2>2. run' \in RunState
    BY <1>4, ReturnTypes DEF ResumeFails
  <2>. QED
    BY <1>4, <2>1, <2>2 DEF ResumeFails
<1>5. CASE FinishHandBack(t)
  <2>1. request' \in Requests
    <3>1. ResumeLease(lease[t], now) \in Leases
      BY LeaseTypes
    <3>2. "resolved" \in Status
      BY DEF Status
    <3>3. [request EXCEPT !.status = "resolved",
                          !.lease = ResumeLease(lease[t], now)] \in Requests
      BY <3>1, <3>2 DEF Requests
    <3>. QED
      BY <1>5, <3>3 DEF FinishHandBack
  <2>2. journal' \in Seq(Events)
    <3>1. request.actor \in Tasks \cup {NoActor}
      BY DEF Requests
    <3>2. /\ Event("ControlReturned", request.actor) \in Events
          /\ Event("HumanChangeSummary", request.actor) \in Events
      BY <3>1, EventTypes DEF EventType
    <3>. QED
      BY <1>5, <3>2 DEF FinishHandBack
  <2>3. lock' \in Seq(Tasks) /\ pc' \in [Tasks -> Waiting \cup {"idle"}]
    BY <1>0, <1>5, QueueTypes DEF FinishHandBack
  <2>4. run' \in RunState
    BY <1>5, ReturnTypes DEF FinishHandBack
  <2>. QED
    BY <1>5, <2>1, <2>2, <2>3, <2>4 DEF FinishHandBack
<1>6. CASE ObserveFails(t)
  <2>1. lock' \in Seq(Tasks) /\ pc' \in [Tasks -> Waiting \cup {"idle"}]
    BY <1>0, <1>6, QueueTypes DEF ObserveFails
  <2>2. run' \in RunState
    BY <1>6, ReturnTypes DEF ObserveFails
  <2>. QED
    BY <1>6, <2>1, <2>2 DEF ObserveFails
<1>. QED
  BY <1>1, <1>2, <1>3, <1>4, <1>5, <1>6 DEF Continue

\* Neither does a call into the coordinator.
LEMMA TypeCall ==
    ASSUME TypeOK, NEW t \in Tasks, TakeControl(t) \/ HandBack(t)
    PROVE  TypeOK'
<1>0. {"ceding", "resuming"} \subseteq Waiting
  BY DEF Waiting
<1>r. request.lease \in Leases
  BY DEF TypeOK, Requests
<1> USE DEF TypeOK, coordinator, surface, tasks, cli, NoToken
<1>1. CASE TakeControl(t)
  <2>1. TakeControlOf(request.lease, now) \in Leases
    BY <1>r, LeaseTypes
  <2>2. run' \in RunState
    BY <1>1, ReturnTypes DEF TakeControl
  <2>3. lock' \in Seq(Tasks) /\ pc' \in [Tasks -> Waiting \cup {"idle"}]
    BY <1>0, <1>1, QueueTypes DEF TakeControl
  <2>. QED
    BY <1>1, <2>1, <2>2, <2>3 DEF TakeControl
<1>2. CASE HandBack(t)
  <2>1. RequestHandback(request.lease, now) \in Leases
    BY <1>r, LeaseTypes
  <2>2. request' \in Requests
    <3>1. "handback_pending" \in Status
      BY DEF Status
    <3>2. [request EXCEPT !.status = "handback_pending",
               !.lease = RequestHandback(request.lease, now)] \in Requests
      BY <2>1, <3>1 DEF Requests
    <3>. QED
      BY <1>2, <3>2 DEF HandBack
  <2>3. run' \in RunState
    BY <1>2, ReturnTypes DEF HandBack
  <2>4. lock' \in Seq(Tasks) /\ pc' \in [Tasks -> Waiting \cup {"idle"}]
    BY <1>0, <1>2, QueueTypes DEF HandBack
  <2>5. lease' \in [Tasks -> Leases]
    BY <1>2, <2>1 DEF HandBack
  <2>6. grasp' \in [Tasks -> Nat]
    BY <1>2 DEF HandBack
  <2>7. held' \in Nat
    BY <1>2 DEF HandBack
  <2>. QED
    BY <1>2, <2>2, <2>3, <2>4, <2>5, <2>6, <2>7 DEF HandBack
<1>. QED
  BY <1>1, <1>2

\* The steps of the run, its server and its clock.
RunNext ==
    \/ RecordAction \/ ScriptFails
    \/ StartAct \/ Act
    \/ \E scripted \in BOOLEAN : Escalate(scripted)
    \/ EndReplay \/ ReplayRaises
    \/ LeavePolling \/ ConsoleStopped \/ Joined
    \/ \E satisfied \in BOOLEAN : Reobserve(satisfied)
    \/ RecordRunEnded \/ Cleanup
    \/ StopServing \/ ServerDown
    \/ Tick
    \/ Done

\* Nor does a step of the run, its server or its clock.
LEMMA TypeRun ==
    ASSUME TypeOK, RunNext
    PROVE  TypeOK'
<1>0. Main \in Tasks /\ "acting" \in Waiting
  BY DEF Tasks, Waiting
<1> USE DEF TypeOK, coordinator, surface, cli, NoToken, RunState
<1>1. CASE RecordAction
  <2>1. journal' \in Seq(Events)
    <3>1. request.actor \in Tasks \cup {NoActor}
      BY DEF Requests
    <3>. QED
      BY <1>1, <3>1, EventTypes DEF RecordAction, EventType
  <2>. QED
    BY <1>1, <2>1 DEF RecordAction, tasks
<1>2. CASE StartAct
  BY <1>0, <1>2, QueueTypes DEF StartAct
<1>3. CASE Act
  <2>1. lock' \in Seq(Tasks) /\ pc' \in [Tasks -> Waiting \cup {"idle"}]
    BY <1>0, <1>3, QueueTypes DEF Act
  <2>. QED
    BY <1>3, <2>1 DEF Act
<1>4. ASSUME NEW scripted \in BOOLEAN, Escalate(scripted)
      PROVE  TypeOK'
  <2>1. Create(now) \in Leases
    BY LeaseTypes DEF Requests
  <2>2. Pause(Create(now)) \in Leases
    BY <2>1, LeaseTypes
  <2>3. request' \in Requests
    BY <1>4, <2>2 DEF Escalate, Requests, Status
  <2>4. journal' \in Seq(Events)
    BY <1>4, EventTypes DEF Escalate, EventType
  <2>. QED
    BY <1>4, <2>3, <2>4 DEF Escalate, tasks
<1>5. CASE RecordRunEnded
  BY <1>5, EventTypes DEF RecordRunEnded, EventType, tasks
<1>6. CASE Tick \/ Done \/ StopServing \/ ServerDown
  BY <1>6 DEF Tick, Done, StopServing, ServerDown, vars, tasks
<1>7. CASE ScriptFails \/ EndReplay \/ ReplayRaises \/ LeavePolling
              \/ ConsoleStopped \/ Joined \/ Cleanup
  BY <1>7 DEF ScriptFails, EndReplay, ReplayRaises, LeavePolling,
              ConsoleStopped, Joined, Cleanup, tasks
<1>8. ASSUME NEW satisfied \in BOOLEAN, Reobserve(satisfied)
      PROVE  TypeOK'
  BY <1>8 DEF Reobserve, tasks
<1>. QED
  BY <1>1, <1>2, <1>3, <1>4, <1>5, <1>6, <1>7, <1>8 DEF RunNext

\* Next is a call, a suspended call that goes on, or a step of the run.
LEMMA NextCases ==
    Next <=> \/ \E t \in Tasks : TakeControl(t) \/ HandBack(t)
             \/ \E t \in Tasks : Continue(t)
             \/ RunNext
    BY DEF Next, RunNext

\* Init is well typed.
LEMMA TypeInit == Init => TypeOK
<1>. SUFFICES ASSUME Init PROVE TypeOK
  OBVIOUS
<1>1. Create(0) \in Leases
  BY TTLAssumption
  DEF Create, Leases, HandoffState, Suspended, LeaseHolder
<1>2. lease \in [Tasks -> Leases]
  BY <1>1 DEF Init
<1>3. request \in Requests
  BY <1>1 DEF Init, Requests, Status
<1>4. lock \in Seq(Tasks) /\ journal \in Seq(Events)
  BY DEF Init
<1>5. pc \in [Tasks -> Waiting \cup {"idle"}] /\ grasp \in [Tasks -> Nat]
  BY DEF Init, NoToken
<1>. QED
  BY <1>2, <1>3, <1>4, <1>5 DEF Init, TypeOK, NoToken, RunState

\* Every variable of the handoff keeps its annotated type, for any number of
\* console requests and any ttl_s.
THEOREM TypeCorrect == Spec => []TypeOK
<1>1. TypeOK /\ [Next]_vars => TypeOK'
  <2>. SUFFICES ASSUME TypeOK, [Next]_vars PROVE TypeOK'
    OBVIOUS
  <2>1. CASE UNCHANGED vars
    BY <2>1 DEF vars, TypeOK, coordinator, surface, tasks, cli
  <2>. QED
    BY <2>1, TypeContinue, TypeCall, TypeRun, NextCases
<1>. QED
  BY <1>1, TypeInit, PTL DEF Spec

-----------------------------------------------------------------------------
(* The queue of the surface's lock and the journal                         *)

\* An idle task that asks for the lock keeps the queue in order.
LEMMA QueueJoin ==
    ASSUME TypeOK, QueueOK, NEW t \in Tasks, NEW w \in Waiting,
           pc[t] = "idle", Queue(t, w)
    PROVE  /\ QueueOK'
           /\ Len(lock') = Len(lock) + 1
           /\ \A i \in 1 .. Len(lock) : lock'[i] = lock[i] /\ lock[i] # t
           /\ lock'[Len(lock) + 1] = t
           /\ pc'[t] = w
           /\ \A u \in Tasks : u # t => pc'[u] = pc[u]
<1>1. lock \in Seq(Tasks) /\ pc \in [Tasks -> Waiting \cup {"idle"}]
  BY DEF TypeOK
<1>2. w # "idle"
  BY DEF Waiting
<1>3. /\ Len(lock') = Len(lock) + 1
      /\ \A i \in 1 .. Len(lock) : lock'[i] = lock[i]
      /\ lock'[Len(lock) + 1] = t
  BY <1>1, AppendFacts DEF Queue
<1>4. pc'[t] = w /\ \A u \in Tasks : u # t => pc'[u] = pc[u]
  BY <1>1 DEF Queue
<1>5. \A i \in 1 .. Len(lock) : lock[i] # t /\ lock[i] \in Tasks
  BY <1>1 DEF QueueOK
<1>6. Len(lock) \in Nat
  BY <1>1
<1>7. QueueOK'
  <2>1. \A i \in 1 .. Len(lock') : pc'[lock'[i]] # "idle"
    BY <1>2, <1>3, <1>4, <1>5, <1>6 DEF QueueOK
  <2>2. \A i, j \in 1 .. Len(lock') : lock'[i] = lock'[j] => i = j
    BY <1>3, <1>5, <1>6 DEF QueueOK
  <2>3. \A u \in Tasks : pc'[u] # "idle" => \E i \in 1 .. Len(lock') : lock'[i] = u
    <3>. SUFFICES ASSUME NEW u \in Tasks, pc'[u] # "idle"
                  PROVE  \E i \in 1 .. Len(lock') : lock'[i] = u
      OBVIOUS
    <3>1. CASE u = t
      BY <3>1, <1>3, <1>6
    <3>2. CASE u # t
      <4>1. PICK i \in 1 .. Len(lock) : lock[i] = u
        BY <3>2, <1>4 DEF QueueOK
      <4>. QED
        BY <4>1, <1>3, <1>6
    <3>. QED
      BY <3>1, <3>2
  <2>. QED
    BY <2>1, <2>2, <2>3 DEF QueueOK
<1>. QED
  BY <1>3, <1>4, <1>5, <1>7

\* A task that leaves the lock was its head, and the rest keeps its order.
LEMMA QueueLeave ==
    ASSUME TypeOK, QueueOK, NEW t \in Tasks, NEW w \in Waiting,
           Running(t, w), Release(t)
    PROVE  /\ QueueOK'
           /\ Len(lock) \in Nat \ {0}
           /\ Len(lock') = Len(lock) - 1
           /\ lock[1] = t
           /\ \A i \in 1 .. Len(lock') : lock'[i] = lock[i + 1] /\ lock'[i] # t
           /\ pc[t] = w /\ pc'[t] = "idle"
           /\ \A u \in Tasks : u # t => pc'[u] = pc[u]
<1>1. lock \in Seq(Tasks) /\ pc \in [Tasks -> Waiting \cup {"idle"}]
  BY DEF TypeOK
<1>2. /\ Len(lock) \in Nat \ {0}
      /\ Len(lock') = Len(lock) - 1
      /\ lock[1] = t
      /\ \A i \in 1 .. Len(lock') : lock'[i] = lock[i + 1]
  BY <1>1, TailFacts DEF Running, Release
<1>3. pc[t] = w /\ pc'[t] = "idle" /\ \A u \in Tasks : u # t => pc'[u] = pc[u]
  BY <1>1 DEF Running, Release
<1>4. \A i \in 1 .. Len(lock') : lock'[i] # t /\ lock'[i] \in Tasks
  BY <1>1, <1>2 DEF QueueOK
<1>5. QueueOK'
  <2>1. \A i \in 1 .. Len(lock') : pc'[lock'[i]] # "idle"
    BY <1>2, <1>3, <1>4 DEF QueueOK
  <2>2. \A i, j \in 1 .. Len(lock') : lock'[i] = lock'[j] => i = j
    BY <1>2 DEF QueueOK
  <2>3. \A u \in Tasks : pc'[u] # "idle" => \E i \in 1 .. Len(lock') : lock'[i] = u
    <3>. SUFFICES ASSUME NEW u \in Tasks, pc'[u] # "idle"
                  PROVE  \E i \in 1 .. Len(lock') : lock'[i] = u
      OBVIOUS
    <3>1. u # t /\ pc[u] # "idle"
      BY <1>3
    <3>2. PICK i \in 1 .. Len(lock) : lock[i] = u
      BY <3>1 DEF QueueOK
    <3>3. i # 1
      BY <3>1, <3>2, <1>2
    <3>4. i - 1 \in 1 .. Len(lock') /\ lock'[i - 1] = lock[(i - 1) + 1]
      BY <3>3, <1>2
    <3>. QED
      BY <3>2, <3>4
  <2>. QED
    BY <2>1, <2>2, <2>3 DEF QueueOK
<1>. QED
  BY <1>2, <1>3, <1>4, <1>5

\* A task that releases the lock and asks for it again goes to the end.
LEMMA QueueAgain ==
    ASSUME TypeOK, QueueOK, NEW t \in Tasks, NEW w \in Waiting, NEW v \in Waiting,
           Running(t, w), Requeue(t, v)
    PROVE  /\ QueueOK'
           /\ Len(lock) \in Nat \ {0}
           /\ Len(lock') = Len(lock)
           /\ lock[1] = t
           /\ \A i \in 1 .. Len(lock) - 1 : lock'[i] = lock[i + 1] /\ lock'[i] # t
           /\ lock'[Len(lock)] = t
           /\ pc[t] = w /\ pc'[t] = v
           /\ \A u \in Tasks : u # t => pc'[u] = pc[u]
<1>1. lock \in Seq(Tasks) /\ pc \in [Tasks -> Waiting \cup {"idle"}]
  BY DEF TypeOK
<1>2. lock # <<>> /\ Len(lock) \in Nat \ {0} /\ Head(lock) = lock[1]
  BY <1>1, TailFacts DEF Running
<1>3. /\ Tail(lock) \in Seq(Tasks)
      /\ Len(Tail(lock)) = Len(lock) - 1
      /\ \A i \in 1 .. Len(lock) - 1 : Tail(lock)[i] = lock[i + 1]
  BY <1>1, <1>2, TailFacts
<1>4. /\ Len(lock') = Len(lock)
      /\ lock[1] = t
      /\ \A i \in 1 .. Len(lock) - 1 : lock'[i] = lock[i + 1]
      /\ lock'[Len(lock)] = t
  BY <1>2, <1>3, AppendFacts DEF Running, Requeue
<1>5. pc[t] = w /\ pc'[t] = v /\ \A u \in Tasks : u # t => pc'[u] = pc[u]
  BY <1>1 DEF Running, Requeue
<1>6. \A i \in 1 .. Len(lock) - 1 : lock'[i] # t /\ lock'[i] \in Tasks
  BY <1>1, <1>2, <1>4 DEF QueueOK
<1>7. v # "idle"
  BY DEF Waiting
<1>8. QueueOK'
  <2>1. \A i \in 1 .. Len(lock') : pc'[lock'[i]] # "idle"
    <3>. SUFFICES ASSUME NEW i \in 1 .. Len(lock') PROVE pc'[lock'[i]] # "idle"
      OBVIOUS
    <3>1. CASE i = Len(lock)
      BY <3>1, <1>4, <1>5, <1>7
    <3>2. CASE i \in 1 .. Len(lock) - 1
      BY <3>2, <1>2, <1>4, <1>5, <1>6 DEF QueueOK
    <3>. QED
      BY <3>1, <3>2, <1>2, <1>4
  <2>2. \A i, j \in 1 .. Len(lock') : lock'[i] = lock'[j] => i = j
    BY <1>2, <1>4, <1>6 DEF QueueOK
  <2>3. \A u \in Tasks : pc'[u] # "idle" => \E i \in 1 .. Len(lock') : lock'[i] = u
    <3>. SUFFICES ASSUME NEW u \in Tasks, pc'[u] # "idle"
                  PROVE  \E i \in 1 .. Len(lock') : lock'[i] = u
      OBVIOUS
    <3>1. CASE u = t
      BY <3>1, <1>2, <1>4
    <3>2. CASE u # t
      <4>1. PICK i \in 1 .. Len(lock) : lock[i] = u
        BY <3>2, <1>5 DEF QueueOK
      <4>2. i # 1
        BY <3>2, <4>1, <1>4
      <4>3. i - 1 \in 1 .. Len(lock) - 1 /\ (i - 1) + 1 = i
        BY <4>2, <1>2
      <4>4. lock'[i - 1] = lock[i]
        BY <4>3, <1>4
      <4>. QED
        BY <4>1, <4>3, <4>4, <1>2, <1>4
    <3>. QED
      BY <3>1, <3>2
  <2>. QED
    BY <2>1, <2>2, <2>3 DEF QueueOK
<1>. QED
  BY <1>2, <1>4, <1>5, <1>6, <1>8

\* What one more event adds to the journal.
LEMMA JournalAppend ==
    ASSUME journal \in Seq(Events), NEW e \in Events,
           journal' = Append(journal, e)
    PROVE  \A type : InJournal(type)' <=> InJournal(type) \/ type = e.type
<1>1. /\ DOMAIN journal = 1 .. Len(journal)
      /\ DOMAIN journal' = 1 .. Len(journal) + 1
      /\ Len(journal) \in Nat
  BY AppendFacts
<1>2. /\ \A i \in 1 .. Len(journal) : journal'[i] = journal[i]
      /\ journal'[Len(journal) + 1] = e
  BY AppendFacts
<1>. QED
  BY <1>1, <1>2 DEF InJournal

-----------------------------------------------------------------------------
(* The inductive invariant, one lemma per action that disturbs it          *)

\* What a live lease tells of the request.
LEMMA LeaseChecks ==
    ASSUME TypeOK, StatusLease
    PROVE  /\ CanTakeControl(request.lease, now) => request.status = "open"
           /\ CanRequestHandback(request.lease, now) =>
                  request.status = "operator_control"
           /\ TakeControlOf(request.lease, now).state = "OPERATOR_CONTROL"
           /\ TakeControlOf(request.lease, now).holder = "operator"
           /\ RequestHandback(request.lease, now).state = "HANDBACK_PENDING"
<1>1. request.lease \in Leases /\ request.status \in Status
  BY DEF TypeOK, Requests
<1>2. \A l \in Leases : \A s, h : Move(l, s, h).state = s /\ Move(l, s, h).holder = h
  BY DEF Move, Leases
<1>3. Expire(request.lease, now) \in {request.lease, Move(request.lease, "ABORTED", "none")}
  BY DEF Expire
<1>4. Move(request.lease, "ABORTED", "none") \in Leases
  BY <1>1 DEF Move, Leases, HandoffState, LeaseHolder
<1>5. Expire(request.lease, now).state \in {request.lease.state, "ABORTED"}
  BY <1>1, <1>2, <1>3
<1>. QED
  BY <1>1, <1>2, <1>3, <1>4, <1>5
  DEF CanTakeControl, CanRequestHandback, TakeControlOf, RequestHandback,
      StatusLease, Status

\* A take that has passed its check joins the queue behind earlier takes only.
LEMMA InvTakeControl ==
    ASSUME IInv, NEW t \in Tasks, TakeControl(t)
    PROVE  IInv'
<1> USE DEF IInv, coordinator, surface, cli
<1>0. TypeOK'
  BY TypeCall
<1>r. "ceding" \in Waiting /\ Main \in Tasks
  BY DEF Waiting, Tasks
<1>1. CASE CanTakeControl(request.lease, now)
  <2>1. request.status = "open"
    BY <1>1, LeaseChecks
  <2>2. Queue(t, "ceding") /\ pc[t] = "idle"
        /\ UNCHANGED <<request, ceded, held, token, run, journal>>
    BY <1>1 DEF TakeControl, MayCall
  <2>3. /\ QueueOK'
        /\ Len(lock') = Len(lock) + 1
        /\ \A i \in 1 .. Len(lock) : lock'[i] = lock[i] /\ lock[i] # t
        /\ lock'[Len(lock) + 1] = t
        /\ pc'[t] = "ceding"
        /\ \A u \in Tasks : u # t => pc'[u] = pc[u]
    BY <1>r, <2>2, QueueJoin
  <2>4. \A u \in Tasks : pc'[u] \notin GivingBack
    BY <2>1, <2>3 DEF OneHandBack, GivingBack
  <2>5. TakesFirst'
    <3>1. \A i \in 1 .. Len(lock') : lock'[i] \in Tasks
      BY <1>0 DEF TypeOK
    <3>. QED
      BY <2>4, <3>1 DEF TakesFirst, GivingBack
  <2>6. StaleTakesFail'
    BY <2>1, <2>2 DEF StaleTakesFail
  <2>7. OneHandBack'
    BY <2>4 DEF OneHandBack
  <2>8. LocalLease'
    <3>1. lease' = [lease EXCEPT ![t] = TakeControlOf(request.lease, now)]
      BY <1>1 DEF TakeControl
    <3>2. lease'[t] = TakeControlOf(request.lease, now)
          /\ \A u \in Tasks : u # t => lease'[u] = lease[u]
      BY <3>1 DEF TypeOK
    <3>. QED
      BY <2>3, <3>2, LeaseChecks DEF LocalLease
  <2>9. RunOK'
    BY <1>r, <2>2, <2>3 DEF RunOK
  <2>10. StatusLease' /\ LeaseMatchesBrowser'
    BY <2>2 DEF StatusLease, LeaseMatchesBrowser
  <2>11. JournalOK'
    BY <2>2, <2>4 DEF JournalOK, InJournal
  <2>. QED
    BY <1>0, <2>3, <2>5, <2>6, <2>7, <2>8, <2>9, <2>10, <2>11
<1>2. CASE ~CanTakeControl(request.lease, now)
  <2>1. UNCHANGED <<request, ceded, held, token, journal, lock, pc, lease>>
    BY <1>2 DEF TakeControl
  <2>2. RunOK'
    <3>1. run' = run \/ (run' = "cleanup" /\ t = Main /\ pc[Main] = "idle")
      BY <1>2 DEF TakeControl, Raise, Return, MayCall
    <3>. QED
      BY <2>1, <3>1 DEF RunOK
  <2>. QED
    BY <1>0, <2>1, <2>2
    DEF QueueOK, TakesFirst, StaleTakesFail, OneHandBack, StatusLease,
        LocalLease, LeaseMatchesBrowser, JournalOK, InJournal
<1>. QED
  BY <1>1, <1>2

\* A hand_back that has passed its check joins behind every waiting take.
LEMMA InvHandBack ==
    ASSUME IInv, NEW t \in Tasks, HandBack(t)
    PROVE  IInv'
<1> USE DEF IInv, coordinator, surface, cli
<1>0. TypeOK'
  BY TypeCall
<1>r. "resuming" \in Waiting /\ Main \in Tasks
  BY DEF Waiting, Tasks
<1>1. CASE request.actor # NoActor /\ CanRequestHandback(request.lease, now)
  <2>1. request.status = "operator_control" /\ ceded
    BY <1>1, LeaseChecks DEF LeaseMatchesBrowser
  <2>2. /\ Queue(t, "resuming") /\ pc[t] = "idle"
        /\ UNCHANGED <<ceded, token, run, journal>>
        /\ held' = NoToken
    BY <1>1 DEF HandBack, MayCall
  <2>3. request'.status = "handback_pending"
        /\ request'.lease = RequestHandback(request.lease, now)
    BY <1>1 DEF HandBack, TypeOK, Requests
  <2>4. /\ QueueOK'
        /\ Len(lock') = Len(lock) + 1
        /\ \A i \in 1 .. Len(lock) : lock'[i] = lock[i] /\ lock[i] # t
        /\ lock'[Len(lock) + 1] = t
        /\ pc'[t] = "resuming"
        /\ \A u \in Tasks : u # t => pc'[u] = pc[u]
    BY <1>r, <2>2, QueueJoin
  <2>5. \A u \in Tasks : pc[u] \notin GivingBack
    BY <2>1 DEF OneHandBack
  <2>6. \A u \in Tasks : u # t => pc'[u] \notin GivingBack
    BY <2>4, <2>5
  <2>7. TakesFirst'
    <3>1. \A i \in 1 .. Len(lock') : lock'[i] \in Tasks
      BY <1>0 DEF TypeOK
    <3>2. Len(lock) \in Nat
      BY DEF TypeOK
    <3>3. \A i \in 1 .. Len(lock') :
              pc'[lock'[i]] = "resuming" => i = Len(lock')
      BY <2>4, <2>6, <3>1, <3>2 DEF GivingBack
    <3>. QED
      BY <3>2, <3>3, <2>4 DEF TakesFirst
  <2>8. StaleTakesFail'
    BY <2>1, <2>2 DEF StaleTakesFail
  <2>9. OneHandBack'
    BY <2>3, <2>6 DEF OneHandBack
  <2>10. LocalLease'
    <3>1. \A u \in Tasks : u # t => lease'[u] = lease[u]
      BY <1>1 DEF HandBack, TypeOK
    <3>. QED
      BY <2>4, <3>1 DEF LocalLease
  <2>11. RunOK'
    BY <1>r, <2>1, <2>2, <2>4 DEF RunOK
  <2>12. StatusLease' /\ LeaseMatchesBrowser'
    BY <2>2, <2>3, LeaseChecks DEF StatusLease, LeaseMatchesBrowser
  <2>13. JournalOK'
    BY <2>1, <2>2, <2>3 DEF JournalOK, InJournal
  <2>. QED
    BY <1>0, <2>4, <2>7, <2>8, <2>9, <2>10, <2>11, <2>12, <2>13
<1>2. CASE ~(request.actor # NoActor /\ CanRequestHandback(request.lease, now))
  <2>1. UNCHANGED <<request, ceded, held, token, journal, lock, pc, lease>>
    BY <1>2 DEF HandBack, tasks
  <2>2. RunOK'
    <3>1. run' = run \/ (run' = "cleanup" /\ t = Main /\ pc[Main] = "idle")
      BY <1>2 DEF HandBack, Raise, Return, MayCall
    <3>. QED
      BY <2>1, <3>1 DEF RunOK
  <2>. QED
    BY <1>0, <2>1, <2>2
    DEF QueueOK, TakesFirst, StaleTakesFail, OneHandBack, StatusLease,
        LocalLease, LeaseMatchesBrowser, JournalOK, InJournal
<1>. QED
  BY <1>1, <1>2

\* Leaving the queue can only shorten what TakesFirst speaks of.
LEMMA TakesFirstLeave ==
    ASSUME TypeOK, QueueOK, TakesFirst, NEW t \in Tasks, NEW w \in Waiting,
           Running(t, w), Release(t)
    PROVE  TakesFirst'
<1>1. /\ Len(lock) \in Nat \ {0}
      /\ Len(lock') = Len(lock) - 1
      /\ \A i \in 1 .. Len(lock') : lock'[i] = lock[i + 1] /\ lock'[i] # t
      /\ \A u \in Tasks : u # t => pc'[u] = pc[u]
  BY QueueLeave
<1>2. \A i \in 1 .. Len(lock) : lock[i] \in Tasks
  BY DEF TypeOK
<1>3. \A i \in 1 .. Len(lock') :
          i + 1 \in 1 .. Len(lock) /\ pc'[lock'[i]] = pc[lock[i + 1]]
  BY <1>1, <1>2
<1>. QED
  BY <1>1, <1>3 DEF TakesFirst

\* The take that reaches the surface uncontested finds the request open.
LEMMA InvCedeControl ==
    ASSUME IInv, NEW t \in Tasks, CedeControl(t)
    PROVE  IInv'
<1> USE DEF IInv
<1>0. TypeOK'
  BY TypeContinue DEF Continue
<1>r. "ceding" \in Waiting /\ Main \in Tasks
  BY DEF Waiting, Tasks
<1>1. request.status = "open" /\ ~ceded
  BY DEF CedeControl, Running, StaleTakesFail
<1>2. \A u \in Tasks : pc[u] \notin GivingBack
  BY <1>1 DEF OneHandBack
<1>3. Running(t, "ceding") /\ Release(t) /\ lease' = lease
  BY DEF CedeControl
<1>4. /\ QueueOK'
      /\ pc[t] = "ceding" /\ pc'[t] = "idle"
      /\ \A u \in Tasks : u # t => pc'[u] = pc[u]
  BY <1>r, <1>3, QueueLeave
<1>5. TakesFirst'
  BY <1>r, <1>3, TakesFirstLeave
<1>6. \A u \in Tasks : pc'[u] \notin GivingBack
  BY <1>2, <1>4 DEF GivingBack
<1>7. /\ ceded' = TRUE /\ held' = token' /\ issued' = issued + 1 /\ held' = issued'
      /\ request' = [status |-> "operator_control", lease |-> lease[t], actor |-> t]
  BY DEF CedeControl
<1>8. lease[t].state = "OPERATOR_CONTROL" /\ lease[t].holder = "operator"
  BY <1>4 DEF LocalLease
<1>9. StaleTakesFail' /\ OneHandBack'
  BY <1>6, <1>7 DEF StaleTakesFail, OneHandBack
<1>10. LocalLease'
  BY <1>3, <1>4 DEF LocalLease
<1>11. RunOK'
  <2>1. run' = run \/ run' = "act"
    BY DEF CedeControl, Return
  <2>2. pc'[Main] # "acting"
    BY <1>1, <1>4, <1>r DEF RunOK
  <2>. QED
    BY <1>1, <2>1, <2>2 DEF RunOK
<1>12. StatusLease' /\ LeaseMatchesBrowser'
  <2>1. t # NoActor
    BY HandoffAssumption
  <2>. QED
    BY <1>7, <1>8, <2>1 DEF StatusLease, LeaseMatchesBrowser
<1>13. JournalOK'
  <2>1. Event("ControlTransferred", t) \in Events
    BY EventTypes DEF EventType
  <2>2. journal' = Append(journal, Event("ControlTransferred", t))
    BY DEF CedeControl
  <2>3. /\ InJournal("ControlTransferred")'
        /\ InJournal("HumanChangeSummary")' <=> InJournal("HumanChangeSummary")
    BY <2>1, <2>2, JournalAppend DEF Event, TypeOK
  <2>. QED
    BY <1>1, <1>7, <2>3 DEF JournalOK
<1>. QED
  BY <1>0, <1>4, <1>5, <1>9, <1>10, <1>11, <1>12, <1>13

\* A call that fails only leaves the queue.
LEMMA InvFails ==
    ASSUME IInv, NEW t \in Tasks, CedeFails(t) \/ ResumeFails(t) \/ ObserveFails(t)
    PROVE  IInv'
<1> USE DEF IInv, coordinator, surface
<1>0. TypeOK'
  BY TypeContinue DEF Continue
<1>r. {"ceding", "resuming", "observing"} \subseteq Waiting /\ Main \in Tasks
  BY DEF Waiting, Tasks
<1>1. PICK w \in {"ceding", "resuming", "observing"} : Running(t, w)
  BY DEF CedeFails, ResumeFails, ObserveFails
<1>2. Release(t) /\ UNCHANGED <<request, ceded, held, token, lease, journal>>
  BY DEF CedeFails, ResumeFails, ObserveFails
<1>3. /\ QueueOK'
      /\ pc[t] = w /\ pc'[t] = "idle"
      /\ \A u \in Tasks : u # t => pc'[u] = pc[u]
  BY <1>r, <1>1, <1>2, QueueLeave
<1>4. TakesFirst'
  BY <1>r, <1>1, <1>2, TakesFirstLeave
<1>5. StaleTakesFail' /\ OneHandBack' /\ LocalLease'
  BY <1>2, <1>3 DEF StaleTakesFail, OneHandBack, LocalLease, GivingBack
<1>6. RunOK'
  <2>1. run' = run \/ (run' = "cleanup" /\ t = Main)
    BY DEF CedeFails, ResumeFails, ObserveFails, Raise, Return
  <2>2. pc'[Main] = "acting" => t # Main /\ pc[Main] = "acting"
    BY <1>r, <1>3
  <2>. QED
    BY <1>2, <2>1, <2>2 DEF RunOK
<1>7. StatusLease' /\ LeaseMatchesBrowser'
  BY <1>2 DEF StatusLease, LeaseMatchesBrowser
<1>8. JournalOK'
  BY <1>2, <1>3 DEF JournalOK, InJournal, GivingBack
<1>. QED
  BY <1>0, <1>3, <1>4, <1>5, <1>6, <1>7, <1>8

\* When control is resumed no take is waiting: it would be ahead.
LEMMA InvResumeControl ==
    ASSUME IInv, NEW t \in Tasks, ResumeControl(t)
    PROVE  IInv'
<1> USE DEF IInv, coordinator, cli
<1>0. TypeOK'
  BY TypeContinue DEF Continue
<1>r. "resuming" \in Waiting /\ "observing" \in Waiting /\ Main \in Tasks
  BY DEF Waiting, Tasks
<1>1. /\ Running(t, "resuming") /\ Requeue(t, "observing")
      /\ UNCHANGED <<request, held, lease, run, journal>>
      /\ ceded' = FALSE
  BY DEF ResumeControl
<1>2. /\ QueueOK'
      /\ Len(lock) \in Nat \ {0}
      /\ lock[1] = t
      /\ pc[t] = "resuming" /\ pc'[t] = "observing"
      /\ \A u \in Tasks : u # t => pc'[u] = pc[u]
  BY <1>r, <1>1, QueueAgain
<1>3. request.status = "handback_pending"
  BY <1>2 DEF OneHandBack, GivingBack
<1>4. \A u \in Tasks : pc[u] # "ceding"
  <2>. SUFFICES ASSUME NEW u \in Tasks, pc[u] = "ceding" PROVE FALSE
    OBVIOUS
  <2>1. PICK j \in 1 .. Len(lock) : lock[j] = u
    BY DEF QueueOK
  <2>2. j # 1
    BY <1>2, <2>1
  <2>3. 1 \in 1 .. Len(lock) /\ 1 < j
    BY <1>2, <2>2
  <2>. QED
    BY <1>2, <2>1, <2>3 DEF TakesFirst
<1>5. \A u \in Tasks : pc'[u] # "ceding"
  BY <1>2, <1>4
<1>6. TakesFirst'
  <2>1. \A i \in 1 .. Len(lock') : lock'[i] \in Tasks
    BY <1>0 DEF TypeOK
  <2>. QED
    BY <1>5, <2>1 DEF TakesFirst
<1>7. StaleTakesFail' /\ LocalLease'
  BY <1>5 DEF StaleTakesFail, LocalLease
<1>8. OneHandBack'
  BY <1>1, <1>2 DEF OneHandBack, GivingBack
<1>9. RunOK'
  BY <1>r, <1>1, <1>2 DEF RunOK
<1>10. StatusLease' /\ LeaseMatchesBrowser'
  BY <1>1, <1>3 DEF StatusLease, LeaseMatchesBrowser
<1>11. JournalOK'
  <2>1. ~InJournal("HumanChangeSummary")
    BY <1>2 DEF JournalOK, GivingBack
  <2>. QED
    BY <1>1, <1>3, <2>1 DEF JournalOK, InJournal
<1>. QED
  BY <1>0, <1>2, <1>6, <1>7, <1>8, <1>9, <1>10, <1>11

\* What the two events of a handback add to the journal.
LEMMA JournalConcat ==
    ASSUME journal \in Seq(Events), NEW d \in Events, NEW e \in Events,
           journal' = journal \o <<d, e>>
    PROVE  \A type : InJournal(type)' <=>
                         InJournal(type) \/ type = d.type \/ type = e.type
<1>1. /\ Len(journal) \in Nat
      /\ DOMAIN journal = 1 .. Len(journal)
      /\ DOMAIN journal' = 1 .. Len(journal) + 2
  OBVIOUS
<1>2. /\ \A i \in 1 .. Len(journal) : journal'[i] = journal[i]
      /\ journal'[Len(journal) + 1] = d
      /\ journal'[Len(journal) + 2] = e
  OBVIOUS
<1>3. /\ Len(journal) + 1 \in DOMAIN journal'
      /\ Len(journal) + 2 \in DOMAIN journal'
      /\ \A i \in DOMAIN journal' :
             i \in DOMAIN journal \/ i = Len(journal) + 1 \/ i = Len(journal) + 2
      /\ DOMAIN journal \subseteq DOMAIN journal'
  BY <1>1
<1>. SUFFICES ASSUME NEW type
              PROVE  InJournal(type)' <=>
                         InJournal(type) \/ type = d.type \/ type = e.type
  OBVIOUS
<1>4. InJournal(type)' => InJournal(type) \/ type = d.type \/ type = e.type
  BY <1>1, <1>2, <1>3 DEF InJournal
<1>5. InJournal(type) => InJournal(type)'
  BY <1>1, <1>2, <1>3 DEF InJournal
<1>6. type = d.type \/ type = e.type => InJournal(type)'
  BY <1>2, <1>3 DEF InJournal
<1>. QED
  BY <1>4, <1>5, <1>6

\* The hand_back under way is the only one, so the request it finishes is
\* still pending; nothing waits to take the browser again.
LEMMA InvFinishHandBack ==
    ASSUME IInv, NEW t \in Tasks, FinishHandBack(t)
    PROVE  IInv'
<1> USE DEF IInv, surface
<1>0. TypeOK'
  BY TypeContinue DEF Continue
<1>r. "observing" \in Waiting /\ Main \in Tasks
  BY DEF Waiting, Tasks
<1>1. /\ Running(t, "observing") /\ Release(t) /\ ~ceded
      /\ UNCHANGED <<held, ceded, token, lease>>
  BY DEF FinishHandBack
<1>2. /\ QueueOK'
      /\ pc[t] = "observing" /\ pc'[t] = "idle"
      /\ \A u \in Tasks : u # t => pc'[u] = pc[u]
  BY <1>r, <1>1, QueueLeave
<1>3. request.status = "handback_pending" /\ held = NoToken
  BY <1>2 DEF OneHandBack, GivingBack, LeaseMatchesBrowser
<1>4. \A u \in Tasks : pc'[u] \notin GivingBack
  <2>1. \A u \in Tasks : pc[u] \in GivingBack => u = t
    BY <1>2 DEF OneHandBack, GivingBack
  <2>. QED
    BY <1>2, <2>1 DEF GivingBack
<1>5. \A u \in Tasks : pc'[u] # "ceding"
  BY <1>1, <1>2, <1>3 DEF StaleTakesFail
<1>6. TakesFirst'
  BY <1>r, <1>1, TakesFirstLeave
<1>7. StaleTakesFail' /\ LocalLease' /\ OneHandBack'
  BY <1>4, <1>5 DEF StaleTakesFail, LocalLease, OneHandBack
<1>8. /\ request'.status \in {"handback_pending", "resolved"}
      /\ request'.status = "handback_pending" => request' = request
      /\ request'.status = "resolved" => request'.lease.state = "RUNNING"
  <2>1. CASE CanResume(lease[t], now)
    <3>1. request' = [request EXCEPT !.status = "resolved",
                                     !.lease = ResumeLease(lease[t], now)]
      BY <2>1 DEF FinishHandBack
    <3>. QED
      BY <3>1 DEF ResumeLease, TypeOK, Requests
  <2>2. CASE ~CanResume(lease[t], now)
    BY <1>3, <2>2 DEF FinishHandBack
  <2>. QED
    BY <2>1, <2>2
<1>9. RunOK'
  <2>1. pc'[Main] # "acting"
    BY <1>r, <1>2, <1>3 DEF RunOK
  <2>2. run \notin {"replaying", "stopping", "reobserving", "resumed"}
    BY <1>3 DEF RunOK
  <2>3. \/ run' = run
        \/ run' = "cleanup"
        \/ run' = "reobserving" /\ request'.status = "resolved"
    BY DEF FinishHandBack, Raise, Return, TypeOK, Requests
  <2>. QED
    BY <2>1, <2>2, <2>3 DEF RunOK
<1>10. StatusLease' /\ LeaseMatchesBrowser'
  BY <1>1, <1>3, <1>8 DEF StatusLease, LeaseMatchesBrowser
<1>11. JournalOK'
  <2>1. request.actor \in Tasks \cup {NoActor}
    BY DEF TypeOK, Requests
  <2>2. /\ Event("ControlReturned", request.actor) \in Events
        /\ Event("HumanChangeSummary", request.actor) \in Events
    BY <2>1, EventTypes DEF EventType
  <2>3. journal' = journal \o << Event("ControlReturned", request.actor),
                                 Event("HumanChangeSummary", request.actor) >>
    BY DEF FinishHandBack
  <2>4. /\ InJournal("ControlTransferred")' <=> InJournal("ControlTransferred")
        /\ InJournal("HumanChangeSummary")'
    BY <2>2, <2>3, JournalConcat DEF Event, TypeOK
  <2>. QED
    BY <1>1, <1>3, <1>4, <1>8, <2>4 DEF JournalOK
<1>. QED
  BY <1>0, <1>2, <1>6, <1>7, <1>9, <1>10, <1>11

\* A suspended call keeps the invariant.
LEMMA InvContinue ==
    ASSUME IInv, NEW t \in Tasks, Continue(t)
    PROVE  IInv'
    BY InvCedeControl, InvFails, InvResumeControl, InvFinishHandBack DEF Continue

\* Automation's own actions use the lock but change nothing of the handoff.
LEMMA InvAct ==
    ASSUME IInv, StartAct \/ Act
    PROVE  IInv'
<1> USE DEF IInv, coordinator, surface, cli
<1>0. TypeOK'
  BY TypeRun DEF RunNext
<1>r. "acting" \in Waiting /\ Main \in Tasks
  BY DEF Waiting, Tasks
<1>1. CASE StartAct
  <2>1. /\ Queue(Main, "acting") /\ pc[Main] = "idle" /\ run' = run
        /\ run \in {"replaying", "resumed"}
        /\ UNCHANGED <<request, ceded, held, token, lease, journal>>
    BY <1>1 DEF StartAct
  <2>2. /\ QueueOK'
        /\ Len(lock') = Len(lock) + 1
        /\ \A i \in 1 .. Len(lock) : lock'[i] = lock[i] /\ lock[i] # Main
        /\ lock'[Len(lock) + 1] = Main
        /\ pc'[Main] = "acting"
        /\ \A u \in Tasks : u # Main => pc'[u] = pc[u]
    BY <1>r, <2>1, QueueJoin
  <2>3. request.status \in {"none", "resolved"}
    BY <2>1 DEF RunOK
  <2>4. \A u \in Tasks : pc'[u] # "ceding" /\ pc'[u] \notin GivingBack
    BY <2>2, <2>3
    DEF StaleTakesFail, LeaseMatchesBrowser, OneHandBack, GivingBack
  <2>5. TakesFirst'
    <3>1. \A i \in 1 .. Len(lock') : lock'[i] \in Tasks
      BY <1>0 DEF TypeOK
    <3>. QED
      BY <2>4, <3>1 DEF TakesFirst
  <2>6. StaleTakesFail' /\ OneHandBack' /\ LocalLease' /\ RunOK'
    BY <2>1, <2>4 DEF StaleTakesFail, OneHandBack, LocalLease, RunOK
  <2>. QED
    BY <1>0, <2>1, <2>2, <2>4, <2>5, <2>6
    DEF StatusLease, LeaseMatchesBrowser, JournalOK, InJournal
<1>2. CASE Act
  <2>1. /\ Running(Main, "acting") /\ Release(Main)
        /\ run' \in {run, "cleanup"}
        /\ UNCHANGED <<request, ceded, held, token, lease, journal>>
    BY <1>2 DEF Act
  <2>2. /\ QueueOK'
        /\ pc'[Main] = "idle"
        /\ \A u \in Tasks : u # Main => pc'[u] = pc[u]
    BY <1>r, <2>1, QueueLeave
  <2>3. TakesFirst'
    BY <1>r, <2>1, TakesFirstLeave
  <2>4. StaleTakesFail' /\ OneHandBack' /\ LocalLease' /\ RunOK'
    BY <1>r, <2>1, <2>2
    DEF StaleTakesFail, OneHandBack, LocalLease, RunOK, GivingBack
  <2>5. StatusLease' /\ LeaseMatchesBrowser'
    BY <2>1 DEF StatusLease, LeaseMatchesBrowser
  <2>6. JournalOK'
    BY <2>1, <2>2 DEF JournalOK, InJournal, GivingBack
  <2>. QED
    BY <1>0, <2>2, <2>3, <2>4, <2>5, <2>6
<1>. QED
  BY <1>1, <1>2

\* Escalation opens the one request of the run.
LEMMA InvEscalate ==
    ASSUME IInv, NEW scripted \in BOOLEAN, Escalate(scripted)
    PROVE  IInv'
<1> USE DEF IInv, surface, tasks
<1>0. TypeOK'
  BY TypeRun DEF RunNext
<1>1. request.status = "none" /\ ~ceded /\ held = NoToken /\ pc[Main] = "idle"
  BY DEF Escalate, RunOK, LeaseMatchesBrowser
<1>2. UNCHANGED <<ceded, held, token, lock, pc, lease>>
  BY DEF Escalate
<1>3. request'.status = "open" /\ request'.lease.state = "PAUSED"
      /\ run' \in {"take", "waiting"}
  BY DEF Escalate, Pause, Move, Create
<1>4. \A u \in Tasks : pc[u] # "ceding" /\ pc[u] \notin GivingBack
  BY <1>1 DEF StaleTakesFail, OneHandBack
<1>5. QueueOK' /\ TakesFirst' /\ StaleTakesFail' /\ OneHandBack' /\ LocalLease'
  BY <1>2, <1>3, <1>4
  DEF QueueOK, TakesFirst, StaleTakesFail, OneHandBack, LocalLease
<1>6. RunOK' /\ StatusLease' /\ LeaseMatchesBrowser'
  BY <1>1, <1>2, <1>3 DEF RunOK, StatusLease, LeaseMatchesBrowser
<1>7. JournalOK'
  <2>1. journal' = Append(journal, Event("EscalationRaised", NoActor))
        /\ Event("EscalationRaised", NoActor) \in Events
    BY EventTypes DEF Escalate, EventType
  <2>2. /\ InJournal("ControlTransferred")' <=> InJournal("ControlTransferred")
        /\ InJournal("HumanChangeSummary")' <=> InJournal("HumanChangeSummary")
    BY <2>1, JournalAppend DEF Event, TypeOK
  <2>. QED
    BY <1>1, <1>3, <2>2 DEF JournalOK
<1>. QED
  BY <1>0, <1>5, <1>6, <1>7

\* The other steps of the run, the server and the clock touch neither the
\* request nor the surface nor the queue.
LEMMA InvRun ==
    ASSUME IInv, RunNext
    PROVE  IInv'
<1> USE DEF IInv, coordinator, surface, tasks, cli
<1>0. TypeOK'
  BY TypeRun
<1>1. CASE StartAct \/ Act
  BY <1>1, InvAct
<1>2. CASE \E scripted \in BOOLEAN : Escalate(scripted)
  BY <1>2, InvEscalate
<1>3. ASSUME UNCHANGED <<request, ceded, held, token, lock, pc, lease, journal>>,
             RunOK'
      PROVE  IInv'
  BY <1>0, <1>3
  DEF QueueOK, TakesFirst, StaleTakesFail, OneHandBack, StatusLease,
      LocalLease, LeaseMatchesBrowser, JournalOK, InJournal
<1>4. CASE RecordAction \/ RecordRunEnded
  <2>1. request.actor \in Tasks \cup {NoActor}
    BY DEF TypeOK, Requests
  <2>2. /\ Event("HumanAction", request.actor) \in Events
        /\ Event("RunEnded", NoActor) \in Events
    BY <2>1, EventTypes DEF EventType
  <2>3. UNCHANGED <<request, ceded, held, token, lock, pc, lease>>
    BY <1>4 DEF RecordAction, RecordRunEnded
  <2>4. RunOK'
    BY <1>4, <2>3 DEF RecordAction, RecordRunEnded, RunOK
  <2>5. \/ journal' = journal
        \/ journal' = Append(journal, Event("HumanAction", request.actor))
        \/ journal' = Append(journal, Event("RunEnded", NoActor))
    BY <1>4 DEF RecordAction, RecordRunEnded
  <2>6. /\ InJournal("ControlTransferred")' <=> InJournal("ControlTransferred")
        /\ InJournal("HumanChangeSummary")' <=> InJournal("HumanChangeSummary")
    <3>1. CASE journal' = journal
      BY <3>1 DEF InJournal
    <3>2. CASE journal' = Append(journal, Event("HumanAction", request.actor))
      BY <2>2, <3>2, JournalAppend DEF Event, TypeOK
    <3>3. CASE journal' = Append(journal, Event("RunEnded", NoActor))
      BY <2>2, <3>3, JournalAppend DEF Event, TypeOK
    <3>. QED
      BY <2>5, <3>1, <3>2, <3>3
  <2>7. JournalOK'
    BY <2>3, <2>6 DEF JournalOK
  <2>. QED
    BY <1>0, <2>3, <2>4, <2>7
    DEF QueueOK, TakesFirst, StaleTakesFail, OneHandBack, StatusLease,
        LocalLease, LeaseMatchesBrowser
<1>5. CASE ScriptFails \/ EndReplay \/ ReplayRaises \/ ConsoleStopped \/ Cleanup
  <2>1. UNCHANGED <<request, ceded, held, token, lock, pc, lease, journal>>
        /\ run' \in {"cleanup", "ending", "failed", "closed"}
        /\ pc[Main] # "acting"
    <3>1. CASE ScriptFails
      BY <3>1 DEF ScriptFails, RunOK
    <3>2. CASE EndReplay
      BY <3>2 DEF EndReplay, RunOK
    <3>3. CASE ReplayRaises
      BY <3>3 DEF ReplayRaises, RunOK
    <3>4. CASE ConsoleStopped
      BY <3>4 DEF ConsoleStopped, RunOK
    <3>5. CASE Cleanup
      BY <3>5 DEF Cleanup, RunOK
    <3>. QED
      BY <1>5, <3>1, <3>2, <3>3, <3>4, <3>5
  <2>. QED
    BY <1>3, <2>1 DEF RunOK
<1>6. CASE LeavePolling \/ Joined
  <2>1. UNCHANGED <<request, ceded, held, token, lock, pc, lease, journal>>
        /\ run' \in {"stopping", "reobserving"} /\ request.status = "resolved"
        /\ pc[Main] # "acting"
    BY <1>6 DEF LeavePolling, Joined, RunOK, StatusLease
  <2>. QED
    BY <1>3, <2>1 DEF RunOK
<1>7. ASSUME NEW satisfied \in BOOLEAN, Reobserve(satisfied)
      PROVE  IInv'
  <2>1. UNCHANGED <<request, ceded, held, token, lock, pc, lease, journal>>
        /\ run' \in {"cleanup", "resumed", "ending"}
        /\ request.status = "resolved"
        /\ pc[Main] # "acting"
    BY <1>7 DEF Reobserve, RunOK
  <2>. QED
    BY <1>3, <2>1 DEF RunOK
<1>8. CASE StopServing \/ ServerDown \/ Tick \/ Done
  <2>1. UNCHANGED <<request, ceded, held, token, lock, pc, lease, journal, run>>
    BY <1>8 DEF StopServing, ServerDown, Tick, Done, vars
  <2>. QED
    BY <1>3, <2>1 DEF RunOK
<1>. QED
  BY <1>1, <1>2, <1>4, <1>5, <1>6, <1>7, <1>8 DEF RunNext

\* The invariant holds before the first step.
LEMMA InvInit == Init => IInv
<1>. SUFFICES ASSUME Init PROVE IInv
  OBVIOUS
<1>1. \A t \in Tasks : pc[t] = "idle"
  BY DEF Init
<1>2. \A type : ~InJournal(type)
  BY DEF Init, InJournal
<1>3. QueueOK /\ TakesFirst
  BY <1>1 DEF Init, QueueOK, TakesFirst
<1>4. StaleTakesFail /\ OneHandBack /\ LocalLease /\ RunOK
  BY <1>1 DEF Init, StaleTakesFail, OneHandBack, LocalLease, RunOK, GivingBack, Tasks
<1>5. StatusLease /\ LeaseMatchesBrowser
  BY DEF Init, StatusLease, LeaseMatchesBrowser, Create
<1>6. JournalOK
  BY <1>2 DEF Init, JournalOK
<1>. QED
  BY TypeInit, <1>3, <1>4, <1>5, <1>6 DEF IInv

\* ... and every step keeps it.
LEMMA InvStep == IInv /\ [Next]_vars => IInv'
<1>. SUFFICES ASSUME IInv, [Next]_vars PROVE IInv'
  OBVIOUS
<1>1. CASE UNCHANGED vars
  BY <1>1
  DEF vars, coordinator, surface, tasks, cli, IInv, TypeOK, QueueOK, TakesFirst,
      StaleTakesFail, OneHandBack, StatusLease, LocalLease, RunOK,
      LeaseMatchesBrowser, JournalOK, InJournal
<1>. QED
  BY <1>1, InvTakeControl, InvHandBack, InvContinue, InvRun, NextCases

\* Request, coordinator token and surface agree on who has the browser, for
\* any number of console requests racing each other.
THEOREM BrowserMatchesLease == Spec => []LeaseMatchesBrowser
<1>1. IInv => LeaseMatchesBrowser
  BY DEF IInv
<1>. QED
  BY <1>1, InvInit, InvStep, PTL DEF Spec

-----------------------------------------------------------------------------
(* Action properties and refinement                                        *)

\* Each step keeps the stored status or takes a documented edge; a resolved
\* request and the automation's control after it are final.
LEMMA AdvancesStep == IInv /\ [Next]_vars => Advances \/ UNCHANGED vars
<1>. SUFFICES ASSUME IInv, Next PROVE Advances
  OBVIOUS
<1> USE DEF IInv, Advances, Edges, coordinator, surface, tasks, cli
<1>1. ASSUME UNCHANGED <<request, ceded>> PROVE Advances
  BY <1>1 DEF LeaseMatchesBrowser
<1>2. ASSUME NEW t \in Tasks, TakeControl(t) PROVE Advances
  BY <1>1, <1>2 DEF TakeControl
<1>3. ASSUME NEW t \in Tasks, HandBack(t) PROVE Advances
  <2>1. CASE request.actor # NoActor /\ CanRequestHandback(request.lease, now)
    <3>1. request.status = "operator_control"
      BY <2>1, LeaseChecks
    <3>2. request'.status = "handback_pending"
      BY <1>3, <2>1 DEF HandBack, TypeOK, Requests
    <3>. QED
      BY <3>1, <3>2
  <2>2. CASE ~(request.actor # NoActor /\ CanRequestHandback(request.lease, now))
    BY <1>1, <1>3, <2>2 DEF HandBack
  <2>. QED
    BY <2>1, <2>2
<1>4. ASSUME NEW t \in Tasks, Continue(t) PROVE Advances
  <2>1. CASE CedeControl(t)
    <3>1. request.status = "open"
      BY <2>1 DEF CedeControl, Running, StaleTakesFail
    <3>2. request'.status = "operator_control"
      BY <2>1 DEF CedeControl
    <3>. QED
      BY <3>1, <3>2
  <2>2. CASE CedeFails(t) \/ ResumeFails(t) \/ ObserveFails(t)
    BY <1>1, <2>2 DEF CedeFails, ResumeFails, ObserveFails
  <2>3. CASE ResumeControl(t)
    <3>1. request.status = "handback_pending" /\ request' = request
      BY <2>3 DEF ResumeControl, Running, OneHandBack, GivingBack
    <3>. QED
      BY <3>1
  <2>4. CASE FinishHandBack(t)
    <3>1. request.status = "handback_pending"
      BY <2>4 DEF FinishHandBack, Running, OneHandBack, GivingBack
    <3>2. request' = request \/ request'.status = "resolved"
      BY <2>4 DEF FinishHandBack, TypeOK, Requests
    <3>. QED
      BY <3>1, <3>2
  <2>. QED
    BY <1>4, <2>1, <2>2, <2>3, <2>4 DEF Continue
<1>5. ASSUME RunNext PROVE Advances
  <2>1. ASSUME NEW scripted \in BOOLEAN, Escalate(scripted) PROVE Advances
    BY <2>1 DEF Escalate, RunOK
  <2>2. ASSUME NEW satisfied \in BOOLEAN, Reobserve(satisfied) PROVE Advances
    BY <1>1, <2>2 DEF Reobserve
  <2>3. CASE RecordAction \/ ScriptFails \/ StartAct \/ Act \/ EndReplay \/ ReplayRaises
    BY <1>1, <2>3
    DEF RecordAction, ScriptFails, StartAct, Act, EndReplay, ReplayRaises
  <2>4. CASE LeavePolling \/ ConsoleStopped \/ Joined \/ RecordRunEnded \/ Cleanup
    BY <1>1, <2>4
    DEF LeavePolling, ConsoleStopped, Joined, RecordRunEnded, Cleanup
  <2>5. CASE StopServing \/ ServerDown \/ Tick \/ Done
    BY <1>1, <2>5 DEF StopServing, ServerDown, Tick, Done, vars
  <2>. QED
    BY <1>5, <2>1, <2>2, <2>3, <2>4, <2>5 DEF RunNext
<1>. QED
  BY <1>2, <1>3, <1>4, <1>5, NextCases

\* A late or repeated console request never moves a request off the
\* documented edges, and never reopens a resolved one.
THEOREM StatusOnlyAdvances == Spec => StatusAdvances
<1>1. IInv /\ [Next]_vars => [Advances]_vars
  BY AdvancesStep
<1>. QED
  BY <1>1, InvInit, InvStep, PTL DEF Spec, StatusAdvances

\* Phase and acts stand still in every step but four.
LEMMA PhaseSteps ==
    ASSUME IInv, Next
    PROVE  [Control!Next]_(Control!vars)
<1> USE DEF IInv, coordinator, surface, tasks, cli, Control!Next, Control!vars,
            Control!Drive, Control!HandOver, Control!GiveBack, Control!Account
<1>1. ASSUME UNCHANGED <<ceded, journal, acts>>
      PROVE  UNCHANGED <<Phase, acts>>
  BY <1>1 DEF Phase, InJournal
<1>2. ASSUME NEW t \in Tasks, TakeControl(t) \/ HandBack(t)
      PROVE  UNCHANGED <<Phase, acts>>
  BY <1>1, <1>2 DEF TakeControl, HandBack
<1>3. ASSUME NEW t \in Tasks, CedeControl(t)
      PROVE  Control!HandOver
  <2>1. request.status = "open" /\ ~ceded /\ ceded' = TRUE /\ acts' = acts
    BY <1>3 DEF CedeControl, Running, StaleTakesFail
  <2>2. ~InJournal("ControlTransferred") /\ ~InJournal("HumanChangeSummary")
    BY <2>1 DEF JournalOK
  <2>3. Phase = "before" /\ Phase' = "operator"
    BY <2>1, <2>2 DEF Phase
  <2>. QED
    BY <2>1, <2>3
<1>4. ASSUME NEW t \in Tasks, ResumeControl(t)
      PROVE  Control!GiveBack
  <2>1. ceded /\ ceded' = FALSE /\ UNCHANGED <<journal, acts>>
        /\ request.status = "handback_pending" /\ pc[t] \in GivingBack
    BY <1>4 DEF ResumeControl, Running, OneHandBack, GivingBack
  <2>2. InJournal("ControlTransferred")' /\ ~InJournal("HumanChangeSummary")'
    BY <2>1 DEF JournalOK, InJournal
  <2>3. Phase = "operator" /\ Phase' = "returned"
    BY <2>1, <2>2 DEF Phase
  <2>. QED
    BY <2>1, <2>3
<1>5. ASSUME NEW t \in Tasks, FinishHandBack(t)
      PROVE  Control!Account
  <2>1. ~ceded /\ UNCHANGED <<ceded, acts>>
        /\ request.status = "handback_pending" /\ pc[t] \in GivingBack
    BY <1>5 DEF FinishHandBack, Running, OneHandBack, GivingBack
  <2>2. InJournal("ControlTransferred") /\ ~InJournal("HumanChangeSummary")
    BY <2>1 DEF JournalOK
  <2>3. InJournal("HumanChangeSummary")'
    <3>1. request.actor \in Tasks \cup {NoActor}
      BY DEF TypeOK, Requests
    <3>2. /\ Event("ControlReturned", request.actor) \in Events
          /\ Event("HumanChangeSummary", request.actor) \in Events
      BY <3>1, EventTypes DEF EventType
    <3>3. journal' = journal \o << Event("ControlReturned", request.actor),
                                   Event("HumanChangeSummary", request.actor) >>
      BY <1>5 DEF FinishHandBack
    <3>. QED
      BY <3>2, <3>3, JournalConcat DEF Event, TypeOK
  <2>4. Phase = "returned" /\ Phase' = "accounted"
    BY <2>1, <2>2, <2>3 DEF Phase
  <2>. QED
    BY <2>1, <2>4
<1>6. ASSUME NEW t \in Tasks, CedeFails(t) \/ ResumeFails(t) \/ ObserveFails(t)
      PROVE  UNCHANGED <<Phase, acts>>
  BY <1>1, <1>6 DEF CedeFails, ResumeFails, ObserveFails
<1>7. ASSUME Act
      PROVE  Control!Drive \/ UNCHANGED <<Phase, acts>>
  <2>1. CASE ceded
    BY <1>1, <1>7, <2>1 DEF Act
  <2>2. CASE ~ceded
    <3>1. run \in {"replaying", "resumed"}
      BY <1>7 DEF Act, Running, RunOK
    <3>2. \/ ~InJournal("ControlTransferred") /\ ~InJournal("HumanChangeSummary")
          \/ InJournal("HumanChangeSummary")
      BY <3>1 DEF RunOK, JournalOK
    <3>3. Phase \in {"before", "accounted"}
      BY <2>2, <3>2 DEF Phase
    <3>4. Phase' = Phase
      BY <1>7 DEF Act, Phase, InJournal
    <3>. QED
      BY <1>7, <2>2, <3>3, <3>4 DEF Act
  <2>. QED
    BY <2>1, <2>2
<1>8. ASSUME NEW e \in Events, journal' = Append(journal, e),
             e.type \notin {"ControlTransferred", "HumanChangeSummary"},
             UNCHANGED <<ceded, acts>>
      PROVE  UNCHANGED <<Phase, acts>>
  <2>1. /\ InJournal("ControlTransferred")' <=> InJournal("ControlTransferred")
        /\ InJournal("HumanChangeSummary")' <=> InJournal("HumanChangeSummary")
    BY <1>8, JournalAppend DEF TypeOK
  <2>. QED
    BY <1>8, <2>1 DEF Phase
<1>9. ASSUME RecordAction \/ RecordRunEnded \/ \E scripted \in BOOLEAN : Escalate(scripted)
      PROVE  UNCHANGED <<Phase, acts>>
  <2>1. request.actor \in Tasks \cup {NoActor}
    BY DEF TypeOK, Requests
  <2>2. \A type \in EventType, actor \in Tasks \cup {NoActor} :
            Event(type, actor) \in Events /\ Event(type, actor).type = type
    BY EventTypes DEF Event
  <2>3. \/ journal' = journal
        \/ journal' = Append(journal, Event("HumanAction", request.actor))
        \/ journal' = Append(journal, Event("RunEnded", NoActor))
        \/ journal' = Append(journal, Event("EscalationRaised", NoActor))
    BY <1>9 DEF RecordAction, RecordRunEnded, Escalate
  <2>4. UNCHANGED <<ceded, acts>>
    BY <1>9 DEF RecordAction, RecordRunEnded, Escalate
  <2>5. {"HumanAction", "RunEnded", "EscalationRaised"} \subseteq EventType
    BY DEF EventType
  <2>. QED
    BY <1>1, <1>8, <2>1, <2>2, <2>3, <2>4, <2>5
<1>10. ASSUME ScriptFails \/ StartAct \/ EndReplay \/ ReplayRaises \/ LeavePolling
              \/ ConsoleStopped \/ Joined \/ Cleanup
              \/ \E satisfied \in BOOLEAN : Reobserve(satisfied)
       PROVE  UNCHANGED <<Phase, acts>>
  BY <1>1, <1>10
  DEF ScriptFails, StartAct, EndReplay, ReplayRaises, LeavePolling,
      ConsoleStopped, Joined, Cleanup, Reobserve
<1>11. ASSUME StopServing \/ ServerDown \/ Tick \/ Done
       PROVE  UNCHANGED <<Phase, acts>>
  BY <1>1, <1>11 DEF StopServing, ServerDown, Tick, Done, vars
<1>. QED
  BY <1>2, <1>3, <1>4, <1>5, <1>6, <1>7, <1>9, <1>10, <1>11, NextCases
  DEF Continue, RunNext

\* The console, the lease, the lock and the run together implement
\* ExclusiveControl: the browser is lent once, and automation acts again
\* only when the operator's changes are in the journal.
THEOREM HandoffImplementsExclusiveControl == Spec => ImplementsExclusiveControl
<1>1. Init => Control!Init
  BY DEF Init, Control!Init, Phase, InJournal
<1>2. IInv /\ [Next]_vars => [Control!Next]_(Control!vars)
  <2>1. UNCHANGED vars => UNCHANGED Control!vars
    BY DEF vars, surface, cli, Control!vars, Phase, InJournal
  <2>. QED
    BY <2>1, PhaseSteps
<1>. QED
  BY <1>1, <1>2, InvInit, InvStep, PTL DEF Spec, ImplementsExclusiveControl, Control!Spec

-----------------------------------------------------------------------------
(* What IInv leaves open: whose the token is, who answers for the loan,    *)
(* whether the page is watched, and how the run's journal ends.            *)

\* No token is held, popped or outstanding that was not issued.
TokensIssued ==
    /\ held <= issued
    /\ \A t \in Tasks : grasp[t] <= issued
    /\ ceded => token # NoToken /\ token <= issued

\* Only a cession that fails with the surface still lent to nobody takes the
\* listeners off, and by then the request is open.
MonitoredAgain == request.status # "open" /\ ~ceded => monitored

\* A hand_back has the lease that it stored.
LeaseCopied == \A t \in Tasks : pc[t] \in GivingBack => lease[t] = request.lease

Lent     == {"operator_control", "handback_pending", "resolved"}
Returned == {"handback_pending", "resolved"}

\* Everyone in the journal is the operator of the request.
OperatorKnown ==
    /\ \A i \in DOMAIN journal :
           journal[i].actor # NoActor =>
               journal[i].actor = request.actor /\ request.status \in Lent
    /\ InJournal("ControlReturned") => request.status \in Returned

\* A run that ends has nothing lent, and nobody writes behind its RunEnded.
RunAccounted ==
    /\ InJournal("EscalationRaised") => request.status # "none"
    /\ run = "ending" \/ terminal => request.status \in {"none", "resolved"}
    /\ terminal => /\ run \in {"cleanup", "closed", "failed"}
                   /\ journal # <<>>
                   /\ journal[Len(journal)].type = "RunEnded"
    /\ run = "closed" => terminal

\* The run, its server and its clock leave the loan itself alone; only the
\* escalation changes the request, and only the journal tells the rest.
LEMMA RunFrame ==
    ASSUME RunNext
    PROVE  /\ UNCHANGED <<held, surface, lease, grasp>>
           /\ (\E scripted \in BOOLEAN : Escalate(scripted)) \/ UNCHANGED request
<1> USE DEF coordinator, surface, tasks, cli
<1>1. CASE RecordAction \/ ScriptFails \/ StartAct \/ Act
  BY <1>1 DEF RecordAction, ScriptFails, StartAct, Act
<1>2. ASSUME NEW scripted \in BOOLEAN, Escalate(scripted)
      PROVE  UNCHANGED <<held, surface, lease, grasp>>
  BY <1>2 DEF Escalate
<1>3. CASE EndReplay \/ ReplayRaises \/ LeavePolling \/ ConsoleStopped \/ Joined
  BY <1>3 DEF EndReplay, ReplayRaises, LeavePolling, ConsoleStopped, Joined
<1>4. ASSUME NEW satisfied \in BOOLEAN, Reobserve(satisfied)
      PROVE  UNCHANGED <<held, surface, lease, grasp, request>>
  BY <1>4 DEF Reobserve
<1>5. CASE RecordRunEnded \/ Cleanup \/ StopServing \/ ServerDown \/ Tick \/ Done
  BY <1>5 DEF RecordRunEnded, Cleanup, StopServing, ServerDown, Tick, Done, vars
<1>. QED
  BY <1>1, <1>2, <1>3, <1>4, <1>5 DEF RunNext

\* A token moves from the surface to the table, from there to one hand_back,
\* and is gone with it.
LEMMA TokenStep ==
    ASSUME IInv, TokensIssued, OneTokenOwner, Next
    PROVE  TokensIssued' /\ OneTokenOwner'
<1> USE DEF coordinator, surface, tasks, cli, TokensIssued, OneTokenOwner
<1> DEFINE SameResuming == \A u \in Tasks : pc'[u] = "resuming" <=> pc[u] = "resuming"
<1>t. /\ held \in Nat /\ issued \in Nat /\ token \in Nat
      /\ grasp \in [Tasks -> Nat] /\ NoToken = 0
      /\ pc \in [Tasks -> Waiting \cup {"idle"}]
  BY DEF IInv, TypeOK, NoToken
<1>1. ASSUME UNCHANGED <<held, grasp, issued, token, ceded>>, SameResuming,
             ceded => request'.status = request.status
      PROVE  TokensIssued' /\ OneTokenOwner'
  BY <1>1
<1>2. ASSUME NEW t \in Tasks, TakeControl(t)
      PROVE  TokensIssued' /\ OneTokenOwner'
  <2>1. SameResuming
    BY <1>t, <1>2 DEF TakeControl, MayCall, Queue
  <2> QED
    BY <1>1, <1>2, <2>1 DEF TakeControl
<1>3. ASSUME NEW t \in Tasks, HandBack(t)
      PROVE  TokensIssued' /\ OneTokenOwner'
  <2>1. UNCHANGED <<issued, token, ceded>>
    BY <1>3 DEF HandBack
  <2>2. CASE request.actor # NoActor /\ CanRequestHandback(request.lease, now)
    <3>1. /\ request.status = "operator_control" /\ ceded /\ held = token
          /\ \A u \in Tasks : pc[u] # "resuming"
      BY <2>2, LeaseChecks DEF IInv, LeaseMatchesBrowser, OneHandBack, GivingBack
    <3>2. /\ grasp' = [grasp EXCEPT ![t] = held] /\ held' = NoToken
          /\ pc' = [pc EXCEPT ![t] = "resuming"] /\ request'.status = "handback_pending"
      BY <1>3, <2>2 DEF HandBack, Queue, IInv, TypeOK, Requests
    <3>3. \A u \in Tasks : /\ u # t => grasp'[u] # token' /\ pc'[u] # "resuming"
                           /\ u = t => grasp'[u] = token' /\ pc'[u] = "resuming"
      BY <1>t, <2>1, <3>1, <3>2
    <3> QED
      BY <1>t, <2>1, <3>1, <3>2, <3>3
  <2>3. CASE ~(request.actor # NoActor /\ CanRequestHandback(request.lease, now))
    BY <1>1, <1>3, <2>1, <2>3 DEF HandBack
  <2> QED
    BY <2>2, <2>3
<1>4. ASSUME NEW t \in Tasks, CedeControl(t)
      PROVE  TokensIssued' /\ OneTokenOwner'
  <2>1. /\ issued' = issued + 1 /\ token' = issued + 1 /\ held' = issued + 1
        /\ ~ceded /\ UNCHANGED grasp /\ pc' = [pc EXCEPT ![t] = "idle"]
    BY <1>4 DEF CedeControl, Release
  <2>2. \A u \in Tasks : grasp'[u] # token' /\ pc'[u] # "resuming"
    BY <1>t, <2>1
  <2>. QED
    BY <1>t, <2>1, <2>2
<1>5. ASSUME NEW t \in Tasks, ResumeControl(t) \/ ResumeFails(t)
      PROVE  TokensIssued' /\ OneTokenOwner'
  <2>1. grasp' = [grasp EXCEPT ![t] = NoToken] /\ UNCHANGED <<held, issued, request>>
    BY <1>5 DEF ResumeControl, ResumeFails
  <2>2. ~ceded' \/ UNCHANGED <<ceded, token>>
    BY <1>5 DEF ResumeControl, ResumeFails
  <2>3. \A u \in Tasks : grasp'[u] = grasp[u] \/ grasp'[u] = NoToken
    BY <1>t, <2>1
  <2>4. pc[t] = "resuming" /\ \A u \in Tasks : pc[u] = "resuming" => u = t
    BY <1>5 DEF ResumeControl, ResumeFails, Running, IInv, OneHandBack, GivingBack
  <2>5. \A u \in Tasks : pc'[u] # "resuming"
    BY <1>t, <1>5, <2>4 DEF ResumeControl, ResumeFails, Release, Requeue
  <2>6. TokensIssued'
    BY <1>t, <2>1, <2>2, <2>3
  <2>7. OneTokenOwner'
    BY <1>t, <2>1, <2>2, <2>3, <2>4, <2>5
  <2>. QED
    BY <2>6, <2>7
<1>6. ASSUME NEW t \in Tasks, CedeFails(t) \/ FinishHandBack(t) \/ ObserveFails(t)
      PROVE  TokensIssued' /\ OneTokenOwner'
  <2>1. SameResuming
    BY <1>t, <1>6 DEF CedeFails, FinishHandBack, ObserveFails, Running, Release
  <2>2. ceded => request' = request
    BY <1>6 DEF CedeFails, FinishHandBack, ObserveFails
  <2> QED
    BY <1>1, <1>6, <2>1, <2>2 DEF CedeFails, FinishHandBack, ObserveFails
<1>7. CASE RunNext
  <2>1. CASE StartAct \/ Act
    <3>1. \E place \in {"acting", "idle"} : pc' = [pc EXCEPT ![Main] = place]
      BY <2>1 DEF StartAct, Act, Queue, Release
    <3>2. pc[Main] # "resuming" /\ UNCHANGED request
      BY <2>1 DEF StartAct, Act, Running
    <3> QED
      BY <1>t, <1>1, <1>7, <3>1, <3>2, RunFrame
  <2>2. CASE ~(StartAct \/ Act)
    <3>1. UNCHANGED pc
      BY <1>7, <2>2
      DEF RunNext, RecordAction, ScriptFails, EndReplay, ReplayRaises, Escalate, LeavePolling,
          ConsoleStopped, Joined, Reobserve, RecordRunEnded, Cleanup, StopServing, ServerDown,
          Tick, Done, vars
    <3>2. ceded => request' = request
      BY <1>7, RunFrame DEF Escalate, IInv, RunOK, LeaseMatchesBrowser
    <3> QED
      BY <1>1, <1>7, <3>1, <3>2, RunFrame
  <2> QED
    BY <2>1, <2>2
<1>. QED
  BY <1>2, <1>3, <1>4, <1>5, <1>6, <1>7, NextCases DEF Continue

\* The listeners come off with a cession and are back when it is over.
LEMMA MonitorStep ==
    ASSUME IInv, MonitoredAgain, Next
    PROVE  MonitoredAgain'
<1> USE DEF coordinator, surface, tasks, cli, MonitoredAgain
<1>1. ASSUME UNCHANGED <<request, ceded, monitored>>
      PROVE  MonitoredAgain'
  BY <1>1
<1>2. ASSUME NEW t \in Tasks, TakeControl(t)
      PROVE  MonitoredAgain'
  BY <1>1, <1>2 DEF TakeControl
<1>3. ASSUME NEW t \in Tasks, HandBack(t)
      PROVE  MonitoredAgain'
  <2>1. CASE request.actor # NoActor /\ CanRequestHandback(request.lease, now)
    <3>1. request.status = "operator_control"
      BY <2>1, LeaseChecks DEF IInv
    <3>. QED
      BY <1>3, <3>1 DEF HandBack, IInv, JournalOK
  <2>2. CASE ~(request.actor # NoActor /\ CanRequestHandback(request.lease, now))
    BY <1>1, <1>3, <2>2 DEF HandBack
  <2>. QED
    BY <2>1, <2>2
<1>4. ASSUME NEW t \in Tasks, CedeControl(t)
      PROVE  MonitoredAgain'
  BY <1>4 DEF CedeControl
<1>5. ASSUME NEW t \in Tasks, CedeFails(t)
      PROVE  MonitoredAgain'
  <2>1. request.status # "open" => ceded
    BY <1>5 DEF CedeFails, Running, IInv, StaleTakesFail
  <2>. QED
    BY <1>5, <2>1 DEF CedeFails
<1>6. ASSUME NEW t \in Tasks, ResumeControl(t)
      PROVE  MonitoredAgain'
  BY <1>6 DEF ResumeControl
<1>7. ASSUME NEW t \in Tasks, FinishHandBack(t)
      PROVE  MonitoredAgain'
  <2>1. request.status = "handback_pending"
    BY <1>7 DEF FinishHandBack, Running, IInv, OneHandBack, GivingBack
  <2>. QED
    BY <1>7, <2>1 DEF FinishHandBack
<1>8. ASSUME NEW t \in Tasks, ResumeFails(t) \/ ObserveFails(t)
      PROVE  MonitoredAgain'
  BY <1>1, <1>8 DEF ResumeFails, ObserveFails
<1>9. CASE RunNext
  <2>1. ASSUME NEW scripted \in BOOLEAN, Escalate(scripted)
        PROVE  MonitoredAgain'
    BY <2>1 DEF Escalate
  <2>. QED
    BY <1>1, <1>9, <2>1, RunFrame
<1>. QED
  BY <1>2, <1>3, <1>4, <1>5, <1>6, <1>7, <1>8, <1>9, NextCases DEF Continue

\* While a hand_back is under way nothing else changes the stored lease.
LEMMA LeaseCopiedStep ==
    ASSUME IInv, LeaseCopied, Next
    PROVE  LeaseCopied'
<1> USE DEF coordinator, surface, tasks, cli, LeaseCopied, GivingBack
<1>t. /\ pc \in [Tasks -> Waiting \cup {"idle"}] /\ lease \in [Tasks -> Leases]
      /\ request \in Requests
  BY DEF IInv, TypeOK
<1>0. \A t \in Tasks : pc[t] \in GivingBack => request.status = "handback_pending"
  BY DEF IInv, OneHandBack
<1>1. ASSUME UNCHANGED <<request, lease>>,
             \A t \in Tasks : pc'[t] \in GivingBack => pc[t] \in GivingBack
      PROVE  LeaseCopied'
  BY <1>1
<1>2. ASSUME NEW t \in Tasks, TakeControl(t)
      PROVE  LeaseCopied'
  <2>1. \A u \in Tasks : u # t => pc'[u] = pc[u] /\ lease'[u] = lease[u]
    BY <1>t, <1>2 DEF TakeControl, Queue
  <2>2. pc'[t] \notin GivingBack
    BY <1>t, <1>2 DEF TakeControl, Queue, MayCall
  <2>. QED
    BY <1>2, <2>1, <2>2 DEF TakeControl
<1>3. ASSUME NEW t \in Tasks, HandBack(t)
      PROVE  LeaseCopied'
  <2>1. CASE request.actor # NoActor /\ CanRequestHandback(request.lease, now)
    <3>1. request.status = "operator_control"
      BY <2>1, LeaseChecks DEF IInv
    <3>2. \A u \in Tasks : u # t => pc'[u] \notin GivingBack
      BY <1>t, <1>0, <1>3, <2>1, <3>1 DEF HandBack, Queue
    <3>3. lease'[t] = request'.lease
      BY <1>t, <1>3, <2>1 DEF HandBack, Requests
    <3>. QED
      BY <3>2, <3>3
  <2>2. CASE ~(request.actor # NoActor /\ CanRequestHandback(request.lease, now))
    BY <1>1, <1>3, <2>2 DEF HandBack
  <2>. QED
    BY <2>1, <2>2
<1>4. ASSUME NEW t \in Tasks, CedeControl(t)
      PROVE  LeaseCopied'
  <2>1. request.status = "open"
    BY <1>4 DEF CedeControl, Running, IInv, StaleTakesFail
  <2>2. \A u \in Tasks : pc'[u] \notin GivingBack
    BY <1>t, <1>0, <1>4, <2>1 DEF CedeControl, Release
  <2>. QED
    BY <2>2
<1>5. ASSUME NEW t \in Tasks, FinishHandBack(t)
      PROVE  LeaseCopied'
  <2>1. \A u \in Tasks : pc'[u] \notin GivingBack
    BY <1>t, <1>5 DEF FinishHandBack, Running, Release, IInv, OneHandBack
  <2>. QED
    BY <2>1
<1>6. ASSUME NEW t \in Tasks,
             CedeFails(t) \/ ResumeControl(t) \/ ResumeFails(t) \/ ObserveFails(t)
      PROVE  LeaseCopied'
  <2>1. UNCHANGED <<request, lease>>
    BY <1>6 DEF CedeFails, ResumeControl, ResumeFails, ObserveFails
  <2>2. \A u \in Tasks : pc'[u] \in GivingBack => pc[u] \in GivingBack
    BY <1>t, <1>6
    DEF CedeFails, ResumeControl, ResumeFails, ObserveFails, Running, Release, Requeue
  <2>. QED
    BY <1>1, <2>1, <2>2
<1>7. CASE RunNext
  <2>1. \A u \in Tasks : pc'[u] \in GivingBack => pc[u] \in GivingBack
    <3>1. CASE StartAct \/ Act
      BY <1>t, <3>1 DEF StartAct, Act, Queue, Release
    <3>2. CASE ~(StartAct \/ Act)
      BY <1>7, <3>2
      DEF RunNext, RecordAction, ScriptFails, Escalate, EndReplay, ReplayRaises,
          LeavePolling, ConsoleStopped, Joined, Reobserve, RecordRunEnded, Cleanup,
          StopServing, ServerDown, Tick, Done, vars
    <3>. QED
      BY <3>1, <3>2
  <2>2. ASSUME NEW scripted \in BOOLEAN, Escalate(scripted)
        PROVE  LeaseCopied'
    <3>1. request.status = "none"
      BY <2>2 DEF Escalate, IInv, RunOK
    <3>. QED
      BY <1>0, <2>1, <3>1
  <2>. QED
    BY <1>1, <1>7, <2>1, <2>2, RunFrame
<1>. QED
  BY <1>2, <1>3, <1>4, <1>5, <1>6, <1>7, NextCases DEF Continue

\* What two events more, or one, are to the positions of the journal.
LEMMA JournalPlaces ==
    ASSUME journal \in Seq(Events), NEW d \in Events, NEW e \in Events
    PROVE  /\ Len(journal) \in Nat
           /\ DOMAIN journal = 1 .. Len(journal)
           /\ journal' = Append(journal, d) =>
                  /\ DOMAIN journal' = 1 .. Len(journal) + 1
                  /\ \A i \in 1 .. Len(journal) : journal'[i] = journal[i]
                  /\ journal'[Len(journal) + 1] = d
                  /\ Len(journal') = Len(journal) + 1
           /\ journal' = journal \o <<d, e>> =>
                  /\ DOMAIN journal' = 1 .. Len(journal) + 2
                  /\ \A i \in 1 .. Len(journal) : journal'[i] = journal[i]
                  /\ journal'[Len(journal) + 1] = d
                  /\ journal'[Len(journal) + 2] = e
    OBVIOUS

\* The two orders that OneAccountableOperator asks of the journal.
TransferredOnce ==
    \A i, j \in DOMAIN journal :
        journal[i].type = "ControlTransferred" /\ journal[j].type = "ControlTransferred"
            => i = j
ReturnedLast ==
    \A j \in DOMAIN journal :
        journal[j].type = "ControlReturned" =>
            /\ \E i \in DOMAIN journal :
                   journal[i].type = "ControlTransferred" /\ i < j
            /\ \A i \in DOMAIN journal : journal[i].type = "HumanAction" => i < j

\* With one name for everybody they are all it asks.
LEMMA AccountableParts ==
    OperatorKnown /\ TransferredOnce /\ ReturnedLast => OneAccountableOperator
<1>. SUFFICES ASSUME OperatorKnown, TransferredOnce, ReturnedLast
              PROVE  OneAccountableOperator
  OBVIOUS
<1>1. \A i, j \in DOMAIN journal :
          journal[i].actor # NoActor /\ journal[j].actor # NoActor
              => journal[i].actor = journal[j].actor
  BY DEF OperatorKnown
<1>. QED
  BY <1>1 DEF OneAccountableOperator, TransferredOnce, ReturnedLast

\* An event of nobody's, of a type that OneAccountableOperator does not order.
LEMMA OtherEvent ==
    ASSUME TypeOK, OperatorKnown, TransferredOnce, ReturnedLast,
           NEW type \in {"EscalationRaised", "RunEnded"},
           journal' = Append(journal, Event(type, NoActor)),
           request' = request \/ request.status = "none"
    PROVE  OperatorKnown' /\ TransferredOnce' /\ ReturnedLast'
<1> DEFINE e == Event(type, NoActor)
<1>1. e \in Events /\ e.type = type /\ e.actor = NoActor
  BY EventTypes DEF EventType, Event
<1>2. /\ Len(journal) \in Nat
      /\ DOMAIN journal = 1 .. Len(journal)
      /\ DOMAIN journal' = 1 .. Len(journal) + 1
      /\ \A i \in 1 .. Len(journal) : journal'[i] = journal[i]
      /\ journal'[Len(journal) + 1] = e
  BY <1>1, JournalPlaces DEF TypeOK
<1> HIDE DEF e
<1>3. OperatorKnown'
  <2>1. InJournal("ControlReturned")' <=> InJournal("ControlReturned")
    BY <1>1, JournalAppend DEF TypeOK, e
  <2>2. \A i \in DOMAIN journal : request.status = "none" => journal[i].actor = NoActor
    BY DEF OperatorKnown, Lent
  <2>. QED
    BY <1>1, <1>2, <2>1, <2>2 DEF OperatorKnown, Returned
<1>4. TransferredOnce'
  BY <1>1, <1>2 DEF TransferredOnce
<1>5. ReturnedLast'
  BY <1>1, <1>2 DEF ReturnedLast
<1>. QED
  BY <1>3, <1>4, <1>5

\* The one that takes control is the first to be named.
LEMMA AccountCede ==
    ASSUME IInv, OperatorKnown, TransferredOnce, ReturnedLast,
           NEW t \in Tasks, CedeControl(t)
    PROVE  OperatorKnown' /\ TransferredOnce' /\ ReturnedLast'
<1> DEFINE e == Event("ControlTransferred", t)
<1>1. e \in Events /\ e.type = "ControlTransferred" /\ e.actor = t
  BY EventTypes DEF EventType, Event
<1>2. /\ Len(journal) \in Nat
      /\ DOMAIN journal = 1 .. Len(journal)
      /\ DOMAIN journal' = 1 .. Len(journal) + 1
      /\ \A i \in 1 .. Len(journal) : journal'[i] = journal[i]
      /\ journal'[Len(journal) + 1] = e
  BY <1>1, JournalPlaces DEF CedeControl, IInv, TypeOK
<1>3. request.status = "open"
  BY DEF CedeControl, Running, IInv, StaleTakesFail
<1>4. /\ ~InJournal("ControlTransferred") /\ ~InJournal("ControlReturned")
      /\ \A i \in DOMAIN journal : journal[i].actor = NoActor
  BY <1>3 DEF IInv, JournalOK, OperatorKnown, Lent, Returned
<1>5. request'.status = "operator_control" /\ request'.actor = t
  BY DEF CedeControl
<1> HIDE DEF e
<1>6. ~InJournal("ControlReturned")'
  BY <1>1, <1>4, JournalAppend DEF CedeControl, IInv, TypeOK, e
<1>7. OperatorKnown'
  BY <1>1, <1>2, <1>4, <1>5, <1>6 DEF OperatorKnown, Lent
<1>8. TransferredOnce'
  BY <1>1, <1>2, <1>4 DEF TransferredOnce, InJournal
<1>9. ReturnedLast'
  BY <1>6 DEF ReturnedLast, InJournal
<1>. QED
  BY <1>7, <1>8, <1>9

\* An action of the operator is reported before the browser is given back.
LEMMA AccountAction ==
    ASSUME IInv, OperatorKnown, TransferredOnce, ReturnedLast, RecordAction
    PROVE  OperatorKnown' /\ TransferredOnce' /\ ReturnedLast'
<1>1. CASE journal' = journal
  BY <1>1 DEF RecordAction, coordinator, OperatorKnown, InJournal, TransferredOnce,
              ReturnedLast
<1>2. CASE journal' # journal
  <2> DEFINE e == Event("HumanAction", request.actor)
  <2>1. /\ request.status = "operator_control"
        /\ journal' = Append(journal, e)
        /\ UNCHANGED request
    BY <1>2 DEF RecordAction, coordinator
  <2>2. e \in Events /\ e.type = "HumanAction" /\ e.actor = request.actor
    BY EventTypes DEF EventType, Event, IInv, TypeOK, Requests
  <2>3. /\ Len(journal) \in Nat
        /\ DOMAIN journal = 1 .. Len(journal)
        /\ DOMAIN journal' = 1 .. Len(journal) + 1
        /\ \A i \in 1 .. Len(journal) : journal'[i] = journal[i]
        /\ journal'[Len(journal) + 1] = e
    BY <2>1, <2>2, JournalPlaces DEF IInv, TypeOK
  <2>4. ~InJournal("ControlReturned")'
    <3>1. ~InJournal("ControlReturned")
      BY <2>1 DEF OperatorKnown, Returned
    <3>. QED
      BY <2>1, <2>2, <3>1, JournalAppend DEF IInv, TypeOK
  <2> HIDE DEF e
  <2>5. OperatorKnown'
    BY <2>1, <2>2, <2>3, <2>4 DEF OperatorKnown, Lent
  <2>6. TransferredOnce'
    BY <2>2, <2>3 DEF TransferredOnce
  <2>7. ReturnedLast'
    BY <2>4 DEF ReturnedLast, InJournal
  <2>. QED
    BY <2>5, <2>6, <2>7
<1>. QED
  BY <1>1, <1>2

\* The return is journaled behind the transfer and every action.
LEMMA AccountFinish ==
    ASSUME IInv, OperatorKnown, TransferredOnce, ReturnedLast,
           NEW t \in Tasks, FinishHandBack(t)
    PROVE  OperatorKnown' /\ TransferredOnce' /\ ReturnedLast'
<1> DEFINE d == Event("ControlReturned", request.actor)
           e == Event("HumanChangeSummary", request.actor)
<1>1. /\ d \in Events /\ d.type = "ControlReturned" /\ d.actor = request.actor
      /\ e \in Events /\ e.type = "HumanChangeSummary" /\ e.actor = request.actor
  BY EventTypes DEF EventType, Event, IInv, TypeOK, Requests
<1>2. /\ Len(journal) \in Nat
      /\ DOMAIN journal = 1 .. Len(journal)
      /\ DOMAIN journal' = 1 .. Len(journal) + 2
      /\ \A i \in 1 .. Len(journal) : journal'[i] = journal[i]
      /\ journal'[Len(journal) + 1] = d
      /\ journal'[Len(journal) + 2] = e
  BY <1>1, JournalPlaces DEF FinishHandBack, IInv, TypeOK
<1>3. request.status = "handback_pending"
  BY DEF FinishHandBack, Running, IInv, OneHandBack, GivingBack
<1>4. PICK i \in DOMAIN journal : journal[i].type = "ControlTransferred"
  BY <1>3 DEF IInv, JournalOK, InJournal
<1>5. request'.actor = request.actor /\ request'.status \in Returned
  BY <1>3 DEF FinishHandBack, Returned, IInv, TypeOK, Requests
<1> HIDE DEF d, e
<1>6. OperatorKnown'
  BY <1>1, <1>2, <1>5 DEF OperatorKnown, Returned, Lent
<1>7. TransferredOnce'
  BY <1>1, <1>2 DEF TransferredOnce
<1>8. ReturnedLast'
  BY <1>1, <1>2, <1>4 DEF ReturnedLast
<1>. QED
  BY <1>6, <1>7, <1>8

\* Every step keeps the account of the loan.
LEMMA AccountStep ==
    ASSUME IInv, OperatorKnown, TransferredOnce, ReturnedLast, Next
    PROVE  OperatorKnown' /\ TransferredOnce' /\ ReturnedLast'
<1> USE DEF coordinator, surface, tasks, cli
<1>1. ASSUME UNCHANGED <<request, journal>>
      PROVE  OperatorKnown' /\ TransferredOnce' /\ ReturnedLast'
  BY <1>1 DEF OperatorKnown, InJournal, TransferredOnce, ReturnedLast
<1>2. ASSUME NEW t \in Tasks, TakeControl(t)
      PROVE  OperatorKnown' /\ TransferredOnce' /\ ReturnedLast'
  BY <1>1, <1>2 DEF TakeControl
<1>3. ASSUME NEW t \in Tasks, HandBack(t)
      PROVE  OperatorKnown' /\ TransferredOnce' /\ ReturnedLast'
  <2>1. CASE request.actor # NoActor /\ CanRequestHandback(request.lease, now)
    <3>1. request'.status = "handback_pending" /\ request'.actor = request.actor
      BY <1>3, <2>1 DEF HandBack, IInv, TypeOK, Requests
    <3>2. UNCHANGED journal
      BY <1>3 DEF HandBack
    <3>. QED
      BY <3>1, <3>2
      DEF OperatorKnown, Lent, Returned, InJournal, TransferredOnce, ReturnedLast
  <2>2. CASE ~(request.actor # NoActor /\ CanRequestHandback(request.lease, now))
    BY <1>1, <1>3, <2>2 DEF HandBack
  <2>. QED
    BY <2>1, <2>2
<1>4. ASSUME NEW t \in Tasks,
             CedeFails(t) \/ ResumeControl(t) \/ ResumeFails(t) \/ ObserveFails(t)
      PROVE  OperatorKnown' /\ TransferredOnce' /\ ReturnedLast'
  BY <1>1, <1>4 DEF CedeFails, ResumeControl, ResumeFails, ObserveFails
<1>5. CASE RunNext
  <2>1. ASSUME NEW scripted \in BOOLEAN, Escalate(scripted)
        PROVE  OperatorKnown' /\ TransferredOnce' /\ ReturnedLast'
    <3>1. /\ request.status = "none"
          /\ journal' = Append(journal, Event("EscalationRaised", NoActor))
      BY <2>1 DEF Escalate, IInv, RunOK
    <3>. QED
      BY <3>1, OtherEvent DEF IInv
  <2>2. CASE RecordRunEnded
    <3>1. UNCHANGED request /\ journal' = Append(journal, Event("RunEnded", NoActor))
      BY <2>2 DEF RecordRunEnded
    <3>. QED
      BY <3>1, OtherEvent DEF IInv
  <2>3. ASSUME NEW satisfied \in BOOLEAN, Reobserve(satisfied)
        PROVE  OperatorKnown' /\ TransferredOnce' /\ ReturnedLast'
    BY <1>1, <2>3 DEF Reobserve
  <2>4. CASE \/ ScriptFails \/ StartAct \/ Act \/ EndReplay \/ ReplayRaises
             \/ LeavePolling \/ ConsoleStopped \/ Joined \/ Cleanup
             \/ StopServing \/ ServerDown \/ Tick \/ Done
    BY <1>1, <2>4
    DEF ScriptFails, StartAct, Act, EndReplay, ReplayRaises, LeavePolling,
        ConsoleStopped, Joined, Cleanup, StopServing, ServerDown, Tick, Done, vars
  <2>. QED
    BY <1>5, <2>1, <2>2, <2>3, <2>4, AccountAction DEF RunNext
<1>. QED
  BY <1>2, <1>3, <1>4, <1>5, AccountCede, AccountFinish, NextCases DEF Continue

\* Nothing is under way when the run writes its RunEnded, and nothing starts.
LEMMA RunEndStep ==
    ASSUME IInv, RunAccounted, Next
    PROVE  RunAccounted'
<1> USE DEF coordinator, surface, tasks, cli
<1>a. \A actor \in Tasks \cup {NoActor}, type \in EventType :
          /\ Event(type, actor) \in Events
          /\ Event(type, actor).type = type
  BY EventTypes DEF Event
<1>b. request.actor \in Tasks \cup {NoActor} /\ NoActor \in Tasks \cup {NoActor}
  BY DEF IInv, TypeOK, Requests
<1>1. ASSUME UNCHANGED <<request, journal, terminal>>,
             run' = run \/ run' \in {"cleanup", "failed"}
      PROVE  RunAccounted'
  BY <1>1 DEF RunAccounted, InJournal
<1>2. ASSUME NEW t \in Tasks, TakeControl(t)
      PROVE  RunAccounted'
  BY <1>1, <1>2 DEF TakeControl, Raise, Return
<1>3. ASSUME NEW t \in Tasks, HandBack(t)
      PROVE  RunAccounted'
  <2>1. CASE request.actor # NoActor /\ CanRequestHandback(request.lease, now)
    <3>1. request.status = "operator_control"
      BY <2>1, LeaseChecks DEF IInv
    <3>2. request'.status = "handback_pending" /\ UNCHANGED <<run, terminal, journal>>
      BY <1>3, <2>1 DEF HandBack, IInv, TypeOK, Requests
    <3>. QED
      BY <3>1, <3>2 DEF RunAccounted, InJournal
  <2>2. CASE ~(request.actor # NoActor /\ CanRequestHandback(request.lease, now))
    BY <1>1, <1>3, <2>2 DEF HandBack, Raise, Return
  <2>. QED
    BY <2>1, <2>2
<1>4. ASSUME NEW t \in Tasks, CedeControl(t)
      PROVE  RunAccounted'
  <2>1. request.status = "open"
    BY <1>4 DEF CedeControl, Running, IInv, StaleTakesFail
  <2>2. ~terminal' /\ run' \notin {"ending", "closed"}
    BY <1>4, <2>1 DEF CedeControl, Return, RunAccounted
  <2>3. request'.status = "operator_control"
    BY <1>4 DEF CedeControl
  <2>. QED
    BY <2>2, <2>3 DEF RunAccounted
<1>5. ASSUME NEW t \in Tasks, FinishHandBack(t)
      PROVE  RunAccounted'
  <2>1. request.status = "handback_pending"
    BY <1>5 DEF FinishHandBack, Running, IInv, OneHandBack, GivingBack
  <2>2. ~terminal' /\ run' \notin {"ending", "closed"}
    BY <1>5, <2>1 DEF FinishHandBack, Raise, Return, RunAccounted
  <2>3. request'.status \in {"handback_pending", "resolved"}
    BY <1>5, <2>1 DEF FinishHandBack, IInv, TypeOK, Requests
  <2>. QED
    BY <2>2, <2>3 DEF RunAccounted
<1>6. ASSUME NEW t \in Tasks,
             CedeFails(t) \/ ResumeControl(t) \/ ResumeFails(t) \/ ObserveFails(t)
      PROVE  RunAccounted'
  BY <1>1, <1>6
  DEF CedeFails, ResumeControl, ResumeFails, ObserveFails, Raise, Return
<1>7. CASE RunNext
  <2>1. CASE RecordAction
    <3>1. ~terminal' /\ run' \notin {"ending", "closed"} /\ UNCHANGED request
      BY <2>1 DEF RecordAction, RunAccounted
    <3>2. \/ journal' = journal
          \/ journal' = Append(journal, Event("HumanAction", request.actor))
      BY <2>1 DEF RecordAction
    <3>3. InJournal("EscalationRaised")' <=> InJournal("EscalationRaised")
      <4>1. CASE journal' = journal
        BY <4>1 DEF InJournal
      <4>2. CASE journal' = Append(journal, Event("HumanAction", request.actor))
        BY <1>a, <1>b, <4>2, JournalAppend DEF EventType, IInv, TypeOK
      <4>. QED
        BY <3>2, <4>1, <4>2
    <3>. QED
      BY <3>1, <3>3 DEF RunAccounted
  <2>2. ASSUME NEW scripted \in BOOLEAN, Escalate(scripted)
        PROVE  RunAccounted'
    <3>1. ~terminal' /\ run' \notin {"ending", "closed"} /\ request'.status = "open"
      BY <2>2 DEF Escalate, RunAccounted
    <3>. QED
      BY <3>1 DEF RunAccounted
  <2>3. CASE EndReplay \/ \E satisfied \in BOOLEAN : Reobserve(satisfied)
    <3>1. /\ request.status \in {"none", "resolved"} /\ ~terminal
          /\ UNCHANGED <<request, journal, terminal>> /\ run' # "closed"
      BY <2>3 DEF EndReplay, Reobserve, RunAccounted, IInv, RunOK
    <3>. QED
      BY <3>1 DEF RunAccounted, InJournal
  <2>4. CASE RecordRunEnded
    <3>1. /\ journal' = Append(journal, Event("RunEnded", NoActor))
          /\ terminal' = TRUE /\ run' = "cleanup" /\ UNCHANGED request
          /\ request.status \in {"none", "resolved"}
      BY <2>4 DEF RecordRunEnded, RunAccounted
    <3>2. Event("RunEnded", NoActor) \in Events /\ Event("RunEnded", NoActor).type = "RunEnded"
      BY <1>a, <1>b DEF EventType
    <3>3. InJournal("EscalationRaised")' <=> InJournal("EscalationRaised")
      BY <3>1, <3>2, JournalAppend DEF IInv, TypeOK
    <3>4. journal' # <<>> /\ journal'[Len(journal')].type = "RunEnded"
      <4>1. /\ Len(journal) \in Nat /\ Len(journal') = Len(journal) + 1
            /\ journal'[Len(journal) + 1] = Event("RunEnded", NoActor)
        BY <3>1, <3>2, JournalPlaces DEF IInv, TypeOK
      <4>. QED
        BY <3>2, <4>1
    <3>. QED
      BY <3>1, <3>3, <3>4 DEF RunAccounted
  <2>5. CASE Cleanup
    BY <2>5 DEF Cleanup, RunAccounted, InJournal
  <2>6. CASE LeavePolling \/ Joined \/ StartAct \/ Act
    <3>1. /\ UNCHANGED <<request, journal, terminal>>
          /\ \/ run' \in {run, "cleanup"}
             \/ ~terminal /\ run' \in {"stopping", "reobserving"}
      BY <2>6 DEF LeavePolling, Joined, StartAct, Act, RunAccounted
    <3>. QED
      BY <1>1, <3>1 DEF RunAccounted, InJournal
  <2>7. CASE ScriptFails \/ ReplayRaises \/ ConsoleStopped
             \/ StopServing \/ ServerDown \/ Tick \/ Done
    BY <1>1, <2>7
    DEF ScriptFails, ReplayRaises, ConsoleStopped, StopServing, ServerDown, Tick,
        Done, vars
  <2>. QED
    BY <1>7, <2>1, <2>2, <2>3, <2>4, <2>5, <2>6, <2>7 DEF RunNext
<1>. QED
  BY <1>2, <1>3, <1>4, <1>5, <1>6, <1>7, NextCases DEF Continue

-----------------------------------------------------------------------------
(* The properties of the loan                                              *)

\* The invariant of the properties below.
LoanInv ==
    /\ IInv
    /\ TokensIssued /\ OneTokenOwner
    /\ MonitoredAgain
    /\ LeaseCopied
    /\ OperatorKnown /\ TransferredOnce /\ ReturnedLast
    /\ RunAccounted

\* It holds before the first step ...
LEMMA LoanInit == Init => LoanInv
<1>. SUFFICES ASSUME Init PROVE LoanInv
  OBVIOUS
<1>1. journal = <<>> /\ DOMAIN journal = {} /\ \A type : ~InJournal(type)
  BY DEF Init, InJournal
<1>2. TokensIssued /\ OneTokenOwner /\ MonitoredAgain /\ LeaseCopied
  BY DEF Init, TokensIssued, OneTokenOwner, MonitoredAgain, LeaseCopied, GivingBack, NoToken
<1>3. OperatorKnown /\ TransferredOnce /\ ReturnedLast
  BY <1>1 DEF OperatorKnown, TransferredOnce, ReturnedLast
<1>4. RunAccounted
  BY <1>1 DEF Init, RunAccounted
<1>. QED
  BY <1>2, <1>3, <1>4, InvInit DEF LoanInv

\* ... and every step keeps it.
LEMMA LoanStep == LoanInv /\ [Next]_vars => LoanInv'
<1>. SUFFICES ASSUME LoanInv, [Next]_vars PROVE LoanInv'
  OBVIOUS
<1>1. CASE UNCHANGED vars
  <2>1. IInv'
    BY <1>1, InvStep DEF LoanInv
  <2>. QED
    BY <1>1, <2>1
    DEF LoanInv, vars, coordinator, surface, tasks, cli, TokensIssued, OneTokenOwner,
        MonitoredAgain, LeaseCopied, OperatorKnown, TransferredOnce, ReturnedLast,
        RunAccounted, InJournal
<1>2. CASE Next
  BY <1>2, InvStep, TokenStep, MonitorStep, LeaseCopiedStep, AccountStep, RunEndStep
  DEF LoanInv
<1>. QED
  BY <1>1, <1>2

\* The control token has one owner, however the console requests are
\* interleaved: while the browser is lent it is in the table or with the one
\* hand_back that waits to present it, and lost only when that one has failed;
\* a resume_control can only be given the token it returns.
THEOREM TokenHasOneOwner == Spec => []OneTokenOwner
<1>1. LoanInv => OneTokenOwner
  BY DEF LoanInv
<1>. QED
  BY <1>1, LoanInit, LoanStep, PTL DEF Spec

\* Automation acts only on a page whose request listeners are attached, also
\* after cessions that failed half-way.
THEOREM ActsAreMonitored == Spec => []ActsMonitored
<1>1. LoanInv => ActsMonitored
  <2>. SUFFICES ASSUME LoanInv, run = "resumed" \/ pc[Main] = "acting"
                PROVE  monitored
    BY DEF ActsMonitored
  <2>1. request.status \in {"none", "resolved"}
    BY DEF LoanInv, IInv, RunOK
  <2>2. ~ceded
    BY <2>1 DEF LoanInv, IInv, LeaseMatchesBrowser
  <2>. QED
    BY <2>1, <2>2 DEF LoanInv, MonitoredAgain
<1>. QED
  BY <1>1, LoanInit, LoanStep, PTL DEF Spec

\* The journal names one operator, in the order transfer, actions, return,
\* for any number of operators that post at once.
THEOREM OperatorIsAccountable == Spec => []OneAccountableOperator
<1>1. LoanInv => OneAccountableOperator
  BY AccountableParts DEF LoanInv
<1>. QED
  BY <1>1, LoanInit, LoanStep, PTL DEF Spec

\* A bundle that closes in order ends with RunEnded, with nothing lent and
\* what the operator changed on record.
THEOREM ClosedRunsAreAccounted == Spec => []ClosedRunIsAccounted
<1>1. LoanInv => ClosedRunIsAccounted
  <2>. SUFFICES ASSUME LoanInv, run = "closed"
                PROVE  /\ ~ceded
                       /\ journal[Len(journal)].type = "RunEnded"
                       /\ InJournal("EscalationRaised") =>
                              /\ request.status = "resolved"
                              /\ InJournal("HumanChangeSummary")
    BY DEF ClosedRunIsAccounted
  <2>1. terminal /\ request.status \in {"none", "resolved"}
        /\ journal[Len(journal)].type = "RunEnded"
    BY DEF LoanInv, RunAccounted
  <2>2. ~ceded
    BY <2>1 DEF LoanInv, IInv, LeaseMatchesBrowser
  <2>3. InJournal("EscalationRaised") => request.status = "resolved"
    BY <2>1 DEF LoanInv, RunAccounted
  <2>. QED
    BY <2>1, <2>2, <2>3 DEF LoanInv, IInv, JournalOK
<1>. QED
  BY <1>1, LoanInit, LoanStep, PTL DEF Spec

\* A lease that is not expired in the operator's hands, or on the way back.
LEMMA LiveLeases ==
    ASSUME NEW l \in Leases, NEW t \in Nat
    PROVE  /\ CanRequestHandback(l, t) => ~Expired(l, t)
           /\ CanResume(l, t) => ~Expired(l, t)
<1>1. Expired(l, t) => Expire(l, t).state = "ABORTED"
  BY DEF Expire, Move, Leases
<1>. QED
  BY <1>1 DEF CanRequestHandback, CanResume

\* A step that changes a request whose lease has expired is that of a take.
LEMMA ExpiredStep ==
    ASSUME LoanInv, Next, Expired(request.lease, now), request' # request
    PROVE  \E t \in Tasks : Running(t, "ceding")
<1> USE DEF coordinator, surface, tasks, cli
<1>t. now \in Nat /\ request.lease \in Leases
  BY DEF LoanInv, IInv, TypeOK, Requests
<1>1. ASSUME NEW t \in Tasks, TakeControl(t) \/ HandBack(t)
      PROVE  FALSE
  BY <1>t, <1>1, LiveLeases DEF TakeControl, HandBack
<1>2. ASSUME NEW t \in Tasks, Continue(t)
      PROVE  Running(t, "ceding")
  <2>1. CASE CedeControl(t)
    BY <2>1 DEF CedeControl
  <2>2. CASE FinishHandBack(t)
    <3>1. lease[t] = request.lease
      BY <2>2 DEF FinishHandBack, Running, LoanInv, LeaseCopied, GivingBack
    <3>. QED
      BY <1>t, <2>2, <3>1, LiveLeases DEF FinishHandBack
  <2>3. CASE CedeFails(t) \/ ResumeControl(t) \/ ResumeFails(t) \/ ObserveFails(t)
    BY <2>3 DEF CedeFails, ResumeControl, ResumeFails, ObserveFails
  <2>. QED
    BY <1>2, <2>1, <2>2, <2>3 DEF Continue
<1>3. CASE RunNext
  <2>1. PICK scripted \in BOOLEAN : Escalate(scripted)
    BY <1>3, RunFrame
  <2>2. request.status = "none"
    BY <2>1 DEF Escalate, LoanInv, IInv, RunOK
  <2>3. request.lease.state = "RUNNING"
    BY <2>2 DEF LoanInv, IInv, StatusLease
  <2>. QED
    BY <2>3 DEF Expired, Suspended
<1>. QED
  BY <1>1, <1>2, <1>3, NextCases

\* Once its lease has expired a request only changes by a take_control that
\* had found it live before its await, for any ttl_s.
THEOREM ExpiredLeasesAreInert == Spec => ExpiredLeaseIsInert
<1>1. LoanInv /\ [Next]_vars =>
          [Expired(request.lease, now) /\ request' # request
               => \E t \in Tasks : Running(t, "ceding")]_vars
  BY ExpiredStep
<1>. QED
  BY <1>1, LoanInit, LoanStep, PTL DEF Spec, ExpiredLeaseIsInert
=============================================================================
