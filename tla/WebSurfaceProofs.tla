-------------------------- MODULE WebSurfaceProofs --------------------------
(***************************************************************************)
(* For any page, ladder, timing and number of handoffs: what settle and a  *)
(* resolved target can be relied upon for.                                 *)
(*                                                                         *)
(* The argument: between its calls the surface knows every request in      *)
(* flight but those it missed when it got the browser back (Known); a      *)
(* handle in the table is younger than the last cession, and no cession    *)
(* falls into a call, which holds the lock (Fresh).                        *)
(***************************************************************************)
EXTENDS WebSurface, TLAPS

\* Control is ceded between calls only.
Held == ceded => pc \in Results

\* Every request in flight is known, or was missed.
Known == ~ceded => inflight \subseteq requests \cup missed

\* A target in the table was resolved after the last handoff.
Fresh == /\ handles => ~stale
         /\ pc = "rebind" => handles

IInv == TypeOK /\ Held /\ Known /\ Fresh

-----------------------------------------------------------------------------
\* The surface starts idle, with nothing in flight.
LEMMA InductiveInit == Init => IInv
<1>. SUFFICES ASSUME Init PROVE IInv
  OBVIOUS
<1>1. 0 \in 0 .. MaxTime /\ 0 \in Nat
  BY SurfaceAssumption
<1>2. target = None /\ pc = "idle" /\ before = None /\ last = None /\ current = None
  BY DEF Init
<1>3. TypeOK
  BY <1>1, <1>2 DEF Init, TypeOK, Acting, Settling, Results
<1>. QED
  BY <1>2, <1>3 DEF Init, IInv, Held, Known, Fresh, Results

\* The calls of the surface preserve the types.
LEMMA CallTypes ==
    ASSUME TypeOK, Resolve \/ (\E targeted \in BOOLEAN : Begin(targeted))
                   \/ Observe \/ Rebind \/ CallFails \/ Dispatch
    PROVE  TypeOK'
<1>1. CASE Resolve
  <2>1. target' \in [hash : Pages, index : Candidates]
    BY <1>1 DEF Resolve, Winners, TypeOK
  <2>. QED
    BY <1>1, <2>1 DEF Resolve, TypeOK, network, locals
<1>2. CASE \E targeted \in BOOLEAN : Begin(targeted)
  BY <1>2 DEF Begin, TypeOK, network, locals, call, Callable, Acting, Results, Settling
<1>3. CASE Observe
  BY <1>3 DEF Observe, TypeOK, network, locals, Acting, Results
<1>4. CASE Rebind
  BY <1>4 DEF Rebind, TypeOK, network, locals, Acting, Results
<1>5. CASE Dispatch
  <2>1. now \in Nat /\ MaxTime \in Nat /\ Timeout \in Nat /\ Poll \in Nat
    BY SurfaceAssumption DEF TypeOK
  <2>. QED
    BY <1>5, <2>1 DEF Dispatch, TypeOK, network, locals, call, Acting, Settling, Results
<1>6. CASE CallFails
  BY <1>6 DEF CallFails, TypeOK, network, locals, Results
<1>. QED
  BY <1>1, <1>2, <1>3, <1>4, <1>5, <1>6

\* The end of a call leaves no locals behind.
LEMMA FinishTypes ==
    ASSUME NEW result \in Results, Finish(result)
    PROVE  /\ pc' \in Results
           /\ deadline' \in 0 .. MaxTime /\ stable_since' \in 0 .. MaxTime
           /\ next_poll' \in Nat
           /\ last' = None /\ current' = None
  BY SurfaceAssumption DEF Finish

\* So does settling,
LEMMA SettleTypes ==
    ASSUME TypeOK, Settle
    PROVE  TypeOK'
<1>0. /\ now \in Nat /\ now \in 0 .. MaxTime /\ Poll \in Nat
      /\ now + Poll \in Nat
  BY SurfaceAssumption DEF TypeOK
<1>1. CASE FirstSample
  BY <1>0, <1>1 DEF FirstSample, TypeOK, call, Settling
<1>2. CASE Wake
  BY <1>0, <1>2 DEF Wake, TypeOK, call, Settling
<1>3. CASE Compare
  <2>1. CASE pc' = "settled"
    <3>1. Finish("settled") /\ UNCHANGED pulse
      BY <1>3, <2>1 DEF Compare
    <3>. QED
      BY <1>3, <2>1, <3>1, FinishTypes DEF Compare, TypeOK, call, Results
  <2>2. CASE pc' # "settled"
    BY <1>0, <1>3, <2>2 DEF Compare, Finish, TypeOK, call, Settling
  <2>. QED
    BY <2>1, <2>2
<1>4. CASE SampleFails
  <2>1. CASE requests = {}
    <3>1. Finish("raised") /\ UNCHANGED pulse
      BY <1>4, <2>1 DEF SampleFails
    <3>. QED
      BY <1>4, <3>1, FinishTypes DEF SampleFails, Finish, TypeOK, call, Results
  <2>2. CASE requests # {}
    BY <1>0, <1>4, <2>2 DEF SampleFails, TypeOK, call, Settling
  <2>. QED
    BY <2>1, <2>2
<1>5. CASE Expire
  <2>1. Finish("timeout")
    BY <1>5 DEF Expire
  <2>. QED
    BY <1>5, <2>1, FinishTypes DEF Expire, Finish, TypeOK, call, network, Results
<1>6. CASE Sample
  BY <1>6 DEF Sample, TypeOK, call, network, Settling
<1>. QED
  BY <1>1, <1>2, <1>3, <1>4, <1>5, <1>6 DEF Settle

\* and what happens around the calls.
LEMMA WorldTypes ==
    ASSUME TypeOK, \/ Cede \/ Resume \/ PageMoves \/ Tick
                   \/ \E r \in Requests : RequestStart(r) \/ RequestEnd(r)
    PROVE  TypeOK'
<1>1. CASE Cede
  BY <1>1 DEF Cede, TypeOK, network, locals
<1>2. CASE Resume
  BY <1>2 DEF Resume, TypeOK, call, locals
<1>3. CASE PageMoves
  BY <1>3 DEF PageMoves, TypeOK, network, call, locals
<1>4. CASE Tick
  BY <1>4, SurfaceAssumption DEF Tick, TypeOK, network, call, locals
<1>5. CASE \E r \in Requests : RequestStart(r)
  BY <1>5 DEF RequestStart, Heard, TypeOK, call, locals
<1>6. CASE \E r \in Requests : RequestEnd(r)
  BY <1>6 DEF RequestEnd, Heard, TypeOK, call, locals
<1>. QED
  BY <1>1, <1>2, <1>3, <1>4, <1>5, <1>6

\* Every step of the surface and of its world preserves the invariant.
LEMMA InductiveStep == IInv /\ [Next]_vars => IInv'
<1>. SUFFICES ASSUME IInv, [Next]_vars PROVE IInv'
  OBVIOUS
<1>1. CASE UNCHANGED vars
  BY <1>1 DEF IInv, TypeOK, Held, Known, Fresh, vars, network, call, locals
<1>2. CASE Next
  <2>1. TypeOK'
    BY <1>2, CallTypes, SettleTypes, WorldTypes DEF IInv, Next
  <2>2. Held'
    <3>1. CASE \/ Resolve \/ \E targeted \in BOOLEAN : Begin(targeted)
      BY <3>1 DEF IInv, Held, Resolve, Begin, Callable
    <3>2. CASE Observe \/ Rebind \/ CallFails \/ Dispatch \/ Settle
      BY <3>2 DEF IInv, Held, Observe, Rebind, CallFails, Dispatch, Settle, FirstSample, Wake,
         Sample, Compare, SampleFails, Expire, Settling, Results
    <3>3. CASE \/ Cede \/ Resume \/ PageMoves \/ Tick
               \/ \E r \in Requests : RequestStart(r) \/ RequestEnd(r)
      BY <3>3 DEF IInv, Held, Cede, Resume, PageMoves, Tick, RequestStart, RequestEnd,
         Callable
    <3>. QED
      BY <1>2, <3>1, <3>2, <3>3 DEF Next
  <2>3. Known'
    <3>1. CASE ~Resume /\ ~(\E r \in Requests : RequestStart(r) \/ RequestEnd(r))
      <4>1. UNCHANGED <<inflight, requests, missed>> /\ (ceded' = ceded \/ ceded')
        BY <1>2, <3>1 DEF Next, Resolve, Begin, Observe, Rebind, CallFails, Dispatch, Settle,
           FirstSample, Wake, Sample, Compare, SampleFails, Expire, Cede, PageMoves, Tick,
           network
      <4>. QED
        BY <4>1 DEF IInv, Known
    <3>2. CASE Resume
      BY <3>2 DEF Resume, Known
    <3>3. CASE \E r \in Requests : RequestStart(r)
      BY <3>3 DEF IInv, Known, RequestStart
    <3>4. CASE \E r \in Requests : RequestEnd(r)
      BY <3>4 DEF IInv, Known, RequestEnd
    <3>. QED
      BY <3>1, <3>2, <3>3, <3>4
  <2>4. Fresh'
    <3>1. CASE Resolve \/ Cede
      BY <3>1 DEF IInv, Fresh, Resolve, Cede, Callable, Results
    <3>2. CASE Observe
      BY <3>2 DEF IInv, Fresh, Observe
    <3>3. CASE ~(Resolve \/ Cede \/ Observe)
      <4>1. UNCHANGED <<handles, stale>>
        BY <1>2, <3>3 DEF Next, Begin, Rebind, CallFails, Dispatch, Settle, FirstSample, Wake,
           Sample, Compare, SampleFails, Expire, Resume, PageMoves, Tick, RequestStart,
           RequestEnd, call
      <4>2. pc' = pc \/ pc' # "rebind"
        BY <1>2, <3>3 DEF Next, Begin, Rebind, CallFails, Dispatch, Settle, FirstSample, Wake,
           Sample, Compare, SampleFails, Expire, Finish, Resume, PageMoves, Tick,
           RequestStart, RequestEnd
      <4>. QED
        BY <4>1, <4>2 DEF IInv, Fresh
    <3>. QED
      BY <3>1, <3>2, <3>3
  <2>. QED
    BY <2>1, <2>2, <2>3, <2>4 DEF IInv
<1>. QED
  BY <1>1, <1>2

\* The surface never leaves the invariant.
THEOREM Invariant == Spec => []IInv
  BY InductiveInit, InductiveStep, PTL DEF Spec

\* The surface keeps its types, whatever the page does.
THEOREM TypeCorrect == Spec => []TypeOK
  BY Invariant, PTL DEF IInv

\* settle ends with nothing in flight but what began in the operator's hands,
\* when no handler has fired for the whole window.
THEOREM SettlesQuietly == Spec => SettledIsQuiet
<1>1. IInv /\ [Next]_vars => [Settles => /\ inflight \subseteq missed
                                        /\ now - last_activity >= Window]_vars
  <2>. SUFFICES ASSUME IInv, Next, Settles
                PROVE  inflight \subseteq missed /\ now - last_activity >= Window
    OBVIOUS
  <2>1. Compare
    BY DEF Settles, Next, Resolve, Begin, Callable, Results, Observe, Rebind,
       CallFails, Dispatch, Settle, FirstSample, Wake, Sample, SampleFails, Expire, Finish, Cede, Resume,
       PageMoves, Tick, RequestStart, RequestEnd
  <2>2. Quiet(stable_since)
    BY <2>1 DEF Compare, Settles
  <2>3. inflight \subseteq missed
    BY <2>2 DEF Quiet, IInv, Known, Held, Settles, Results
  <2>4. now \in Int /\ last_activity \in Int /\ stable_since \in Int /\ Window \in Int
    BY SurfaceAssumption DEF IInv, TypeOK
  <2>5. now - last_activity >= Window
    BY <2>2, <2>4 DEF Quiet, Later
  <2>. QED
    BY <2>3, <2>5
<1>. QED
  BY <1>1, Invariant, PTL DEF Spec, SettledIsQuiet

\* A target resolved before a handoff is never acted upon after it.
THEOREM NoStaleTargets == Spec => []NoStaleTarget
<1>1. IInv => NoStaleTarget
  BY DEF IInv, Fresh, NoStaleTarget
<1>. QED
  BY <1>1, Invariant, PTL
=============================================================================
