----------------------------- MODULE WebSurface -----------------------------
(***************************************************************************)
(* How PlaywrightWebSurface (surface/web.py) acts on a page that moves by  *)
(* itself: resolve a target, check it again, perform the action, and       *)
(* settle.  The caller's task is at one await of one call at a time, the   *)
(* page and its network go on meanwhile, and so does the clock.            *)
(*                                                                         *)
(* The page is the hash of its accessibility tree.  A request and a frame  *)
(* that is loading are treated alike by the handlers of the surface        *)
(* (_requests and _navigating), so both are a "request" here.  The lock is *)
(* held from the first to the last await of a call: control can be ceded   *)
(* and resumed between calls only; module Handoff says how.                *)
(***************************************************************************)
EXTENDS Integers

CONSTANTS Pages,         \* hashes of the page
          Requests,      \* what the page may have in flight
          Candidates,    \* indices of the locator ladder
          Window,        \* StepTiming.stability_window_ms
          Poll,          \* StepTiming.poll_interval_ms
          Timeout,       \* StepTiming.timeout_ms
          MaxTime,       \* bound on the clock
          None           \* no target, no observation

ASSUME SurfaceAssumption ==
    /\ None \notin Pages
    /\ Window \in Nat /\ Poll \in Nat \ {0} /\ Timeout \in Nat \ {0}
    /\ MaxTime \in Nat

VARIABLES
    now,           \* the event loop's clock
    page,          \* what the page is
    inflight,      \* the requests it has in flight
    ceded,         \* does the operator have the browser?
    requests,      \* _requests and _navigating: those the surface knows of
    last_activity, \* _last_activity
    pulse,         \* _pulse: has a handler fired since it was cleared?
    target,        \* the ResolvedTarget the caller holds, or None
    handles,       \* is the target in _handles?
    pc,            \* the await the call is at
    before,        \* what act() observed first
    deadline, stable_since, next_poll, last, current,   \* locals of _settle
    stale,         \* has control been ceded since the target was resolved?
    missed         \* requests in flight when the listeners were attached again

network == <<inflight, requests, last_activity, pulse, missed>>
locals  == <<deadline, stable_since, next_poll, last, current>>
call    == <<target, handles, stale, before>>
vars    == <<now, page, ceded, network, call, pc, locals>>

-----------------------------------------------------------------------------
Acting   == {"before", "rebind", "dispatch"}
Settling == {"first", "wait", "sample", "compare"}
Results  == {"idle", "blocked", "raised", "settled", "timeout"}

Later(s, t) == IF s > t THEN s ELSE t

Init ==
    /\ now = 0 /\ page \in Pages
    /\ inflight = {} /\ requests = {} /\ last_activity = 0 /\ pulse = FALSE
    /\ missed = {}
    /\ ceded = FALSE
    /\ target = None /\ handles = FALSE /\ stale = FALSE /\ before = None
    /\ pc = "idle"
    /\ deadline = 0 /\ stable_since = 0 /\ next_poll = 0
    /\ last = None /\ current = None

\* The call returns or raises: the lock is released and its locals are gone.
Finish(result) ==
    /\ pc' = result
    /\ deadline' = 0 /\ stable_since' = 0 /\ next_poll' = 0
    /\ last' = None /\ current' = None

\* The lock is free and control is not ceded.
Callable == pc \in Results /\ ~ceded

-----------------------------------------------------------------------------
(* resolve and act                                                         *)

\* _candidate_locator, _actionable: the first candidate of the ladder for which
\* the page has an element to act upon, the only one unless told otherwise.
Winners == Candidates \cup {None}

\* The winner, if any, is remembered under a fresh handle.
Resolve ==
    /\ Callable
    /\ \E index \in Winners \ {None} : target' = [hash |-> page, index |-> index]
    /\ handles' = TRUE /\ stale' = FALSE
    /\ UNCHANGED <<now, page, ceded, network, before, pc, locals>>

\* act() begins; a Navigate or a Scroll comes without a target, and so does
\* settle(), an act() without an effect here.
Begin(targeted) ==
    /\ Callable
    /\ targeted => target # None
    /\ pc' = IF targeted THEN "before" ELSE "dispatch"
    /\ UNCHANGED <<now, page, ceded, network, call, locals>>

\* The handle is known and names the page as it is, or the call is blocked.
Observe ==
    /\ pc = "before"
    /\ IF handles /\ target.hash = page
       THEN before' = page /\ pc' = "rebind"
       ELSE pc' = "blocked" /\ UNCHANGED before
    /\ UNCHANGED <<now, page, ceded, network, target, handles, stale, locals>>

\* The ladder is resolved again, to the same candidate on the same page.
Rebind ==
    /\ pc = "rebind"
    /\ \E index \in Winners :
           pc' = IF index = target.index /\ page = before THEN "dispatch" ELSE "blocked"
    /\ before' = None
    /\ UNCHANGED <<now, page, ceded, network, target, handles, stale, locals>>

\* An observation or the resolution raises.
CallFails ==
    /\ pc \in {"before", "rebind"}
    /\ pc' = "raised"
    /\ before' = None
    /\ UNCHANGED <<now, page, ceded, network, target, handles, stale, locals>>

\* The action reaches the page, which may change; the call goes on to
\* settle, returns without settling, or raises with or without the effect.
Dispatch ==
    /\ pc = "dispatch"
    /\ page' \in Pages
    /\ \/ /\ pc' = "first"
          /\ now + Timeout <= MaxTime
          /\ deadline' = now + Timeout
          /\ stable_since' = now
          /\ next_poll' = now + Poll
          /\ UNCHANGED <<last, current>>
       \/ /\ pc' \in {"idle", "raised"}
          /\ UNCHANGED locals
    /\ UNCHANGED <<now, ceded, network, call>>

-----------------------------------------------------------------------------
(* _settle                                                                 *)

\* The first observation; when it fails it is tried again.
FirstSample ==
    /\ pc = "first"
    /\ last' = page
    /\ pulse' = FALSE
    /\ pc' = "wait"
    /\ UNCHANGED <<now, page, ceded, inflight, requests, last_activity, missed,
                   call, deadline, stable_since, next_poll, current>>

\* A handler or the poll timer wakes the task up.
Wake ==
    /\ pc = "wait"
    /\ pulse \/ now >= next_poll
    /\ stable_since' = IF requests # {} THEN now ELSE stable_since
    /\ IF now < next_poll THEN pulse' = FALSE /\ UNCHANGED pc
                          ELSE pc' = "sample" /\ UNCHANGED pulse
    /\ UNCHANGED <<now, page, ceded, inflight, requests, last_activity, missed, call,
                   deadline, next_poll, last, current>>

Quiet_OnWaking(since) ==                             \* mutant: events between wakings
    /\ requests = {}
    /\ now - since >= Window

\* Nothing is in flight, and nothing has happened for the window.
Quiet(since) ==
    /\ requests = {}
    /\ now - Later(since, last_activity) >= Window

\* The next observation; the page goes on while it is being put together.
Sample ==
    /\ pc = "sample"
    /\ pc' = "compare"
    /\ current' = page
    /\ UNCHANGED <<now, page, ceded, network, call, deadline, stable_since, next_poll,
                   last>>

\* The page has settled, or is polled again.
Compare ==
    /\ pc = "compare"
    /\ LET since == IF current # last THEN now ELSE stable_since
       IN IF current = last /\ Quiet(since)
          THEN Finish("settled") /\ UNCHANGED pulse
          ELSE /\ pc' = "wait"
               /\ last' = current
               /\ current' = None
               /\ stable_since' = since
               /\ next_poll' = now + Poll
               /\ pulse' = FALSE
               /\ UNCHANGED deadline
    /\ UNCHANGED <<now, page, ceded, inflight, requests, last_activity, missed, call>>

\* An observation fails: that is an error unless the page is busy.
SampleFails ==
    /\ pc = "sample"
    /\ IF requests = {}
       THEN Finish("raised") /\ UNCHANGED pulse
       ELSE /\ pc' = "wait"
            /\ next_poll' = now + Poll
            /\ pulse' = FALSE
            /\ UNCHANGED <<deadline, stable_since, last, current>>
    /\ UNCHANGED <<now, page, ceded, inflight, requests, last_activity, missed, call>>

Expire_FirstUnbounded ==                             \* mutant: the first sample may hang
    /\ pc \in Settling \ {"first"}
    /\ now >= deadline
    /\ Finish("timeout")
    /\ UNCHANGED <<now, page, ceded, network, call>>

\* asyncio.timeout_at cancels whatever _settle waits for: SettleTimeout.
Expire ==
    /\ pc \in Settling
    /\ now >= deadline
    /\ Finish("timeout")
    /\ UNCHANGED <<now, page, ceded, network, call>>

-----------------------------------------------------------------------------
(* Control                                                                 *)

Cede_KeepsHandles ==                                 \* mutant: _handles not cleared
    /\ Callable
    /\ ceded' = TRUE
    /\ stale' = TRUE
    /\ UNCHANGED <<now, page, network, target, handles, before, pc, locals>>

\* cede_control: the listeners come off, the handles are forgotten.
Cede ==
    /\ Callable
    /\ ceded' = TRUE
    /\ handles' = FALSE /\ stale' = TRUE
    /\ UNCHANGED <<now, page, network, target, before, pc, locals>>

\* resume_control: the listeners of the same page are attached again.
Resume ==
    /\ ceded
    /\ ceded' = FALSE
    /\ requests' = {}
    /\ missed' = inflight
    /\ UNCHANGED <<now, page, inflight, last_activity, pulse, call, pc, locals>>

-----------------------------------------------------------------------------
(* The page, its network and the clock                                     *)

PageMoves ==
    /\ page' \in Pages
    /\ UNCHANGED <<now, ceded, network, call, pc, locals>>

Heard == last_activity' = now /\ pulse' = TRUE

\* _request_start, _navigation_start; nobody listens while control is ceded.
RequestStart(r) ==
    /\ r \notin inflight
    /\ inflight' = inflight \cup {r}
    /\ IF ceded THEN UNCHANGED <<requests, last_activity, pulse>>
                ELSE requests' = requests \cup {r} /\ Heard
    /\ UNCHANGED <<now, page, ceded, missed, call, pc, locals>>

\* _request_end, _navigation_end.
RequestEnd(r) ==
    /\ r \in inflight
    /\ inflight' = inflight \ {r}
    /\ missed' = missed \ {r}
    /\ IF ceded THEN UNCHANGED <<requests, last_activity, pulse>>
                ELSE requests' = requests \ {r} /\ Heard
    /\ UNCHANGED <<now, page, ceded, call, pc, locals>>

Tick ==
    /\ now < MaxTime
    /\ now' = now + 1
    /\ UNCHANGED <<page, ceded, network, call, pc, locals>>

-----------------------------------------------------------------------------
Settle == FirstSample \/ Wake \/ Sample \/ Compare \/ SampleFails \/ Expire

Next ==
    \/ Resolve \/ \E targeted \in BOOLEAN : Begin(targeted)
    \/ Observe \/ Rebind \/ CallFails \/ Dispatch
    \/ Settle
    \/ Cede \/ Resume
    \/ PageMoves \/ Tick
    \/ \E r \in Requests : RequestStart(r) \/ RequestEnd(r)

Spec == Init /\ [][Next]_vars

\* The loop's clock runs and its timers fire; no observation need ever
\* complete.
FairSpec == Spec /\ WF_vars(Tick) /\ WF_vars(Expire)

-----------------------------------------------------------------------------
(* Properties                                                              *)

\* The surface's and the call's variables keep their types.
TypeOK ==
    /\ now \in 0 .. MaxTime
    /\ page \in Pages
    /\ inflight \in SUBSET Requests /\ requests \in SUBSET Requests
    /\ missed \in SUBSET Requests
    /\ last_activity \in 0 .. MaxTime
    /\ pulse \in BOOLEAN /\ ceded \in BOOLEAN
    /\ target \in [hash : Pages, index : Candidates] \cup {None}
    /\ handles \in BOOLEAN /\ stale \in BOOLEAN
    /\ before \in Pages \cup {None}
    /\ pc \in Acting \cup Settling \cup Results
    /\ deadline \in 0 .. MaxTime /\ stable_since \in 0 .. MaxTime
    /\ next_poll \in Nat
    /\ last \in IF pc \in {"wait", "sample", "compare"} THEN Pages ELSE {None}
    /\ current \in IF pc = "compare" THEN Pages ELSE {None}

Settles == pc = "compare" /\ pc' = "settled"

\* When act() calls the page settled, nothing is in flight but what was when
\* the operator gave the browser back, which no listener has seen begin; and no
\* handler has fired within the window, between two samples or during one.
SettledIsQuiet ==
    [][Settles => /\ inflight \subseteq missed
                  /\ now - last_activity >= Window]_vars

\* A target resolved before a handoff is never acted upon after it, even if
\* the operator leaves the page exactly as it was.
NoStaleTarget == pc = "rebind" => ~stale

\* Every call that settles returns, or raises SettleTimeout when its deadline
\* has passed, whatever observation hangs.
SettleEnds == pc \in Settling ~> pc \in Results
=============================================================================
