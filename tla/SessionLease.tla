---------------------------- MODULE SessionLease ----------------------------
(***************************************************************************)
(* The control lease of one live browser session: escalation/lease.py and  *)
(* the SessionLease record of escalation/models.py.  LeaseManager works on *)
(* copies, so every edge is an operator from a lease to a lease; the       *)
(* precondition that raises IllegalLeaseTransitionError is the Can*        *)
(* operator beside it.  A request and its lease carry the same             *)
(* resume_token (validator at models.py:65-69), so the token comparison of *)
(* resume cannot fail and the token is left out of the record.             *)
(***************************************************************************)
EXTENDS Integers

CONSTANT TTL      \* LeaseManager.ttl_s

ASSUME TTLAssumption == TTL \in Nat \ {0}

Suspended    == {"PAUSED", "OPERATOR_CONTROL", "HANDBACK_PENDING"}
HandoffState == Suspended \cup {"RUNNING", "ABORTED"}
LeaseHolder  == {"automation", "operator", "none"}

Leases == [state : HandoffState, holder : LeaseHolder, expires : Nat]

Move(lease, state, holder) ==
    [lease EXCEPT !.state = state, !.holder = holder]

Create(now) ==
    [state |-> "RUNNING", holder |-> "automation", expires |-> now + TTL]

Expired(lease, now) == lease.state \in Suspended /\ now >= lease.expires

Expire(lease, now) ==
    IF Expired(lease, now) THEN Move(lease, "ABORTED", "none") ELSE lease

Pause(lease) == Move(lease, "PAUSED", "none")       \* never looks at the clock

CanTakeControl(lease, now) == Expire(lease, now).state = "PAUSED"
TakeControlOf(lease, now) ==
    Move(Expire(lease, now), "OPERATOR_CONTROL", "operator")

CanRequestHandback(lease, now) == Expire(lease, now).state = "OPERATOR_CONTROL"
RequestHandback(lease, now) ==
    Move(Expire(lease, now), "HANDBACK_PENDING", "none")

CanResume_IgnoresExpiry(lease, now) == lease.state = "HANDBACK_PENDING" \* mutant
CanResume(lease, now) == Expire(lease, now).state = "HANDBACK_PENDING"
ResumeLease(lease, now) ==
    [state |-> "RUNNING", holder |-> "automation", expires |-> now + TTL]
=============================================================================
