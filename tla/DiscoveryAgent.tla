--------------------------- MODULE DiscoveryAgent ---------------------------
(***************************************************************************)
(* One `cua discover` run: the nodes and edges of the LangGraph in         *)
(* discovery/graph.py and, around it, _discover and                        *)
(* _scripted_discovery_handoff (cli/__main__.py), which resume the graph   *)
(* once after an operator's confirmation and close the run's journal.      *)
(*                                                                         *)
(* One action per node.  The page and the planner belong to the world: any *)
(* observation, any decision.  A page is abstracted to the hash its        *)
(* observation has; a move of the planner to its action-target pair, its   *)
(* kind and what the policy's rules make of it.                            *)
(***************************************************************************)
EXTENDS PolicyEngine, Sequences

CONSTANTS Pages,         \* observation hashes
          Keys,          \* action-target pairs
          Outputs,       \* the names a reading may give its output
          Moves,         \* what the planner may propose
          Usage,         \* tokens a call of the planner may cost
          Policy,        \* the policy configuration
          Operators,     \* may a run have --scripted-operator?
          DeadEndLimit,  \* dead_end_limit
          None

Kinds == {"read", "navigate", "other"}
Move == [key : Keys, output : Outputs \cup {None}, kind : Kinds, site : Sites]

ASSUME DiscoveryAssumption ==
    /\ None \notin Pages \cup Outputs
    /\ Moves \subseteq Move
    /\ Usage \subseteq Nat
    /\ Operators \subseteq BOOLEAN
    /\ DeadEndLimit \in Nat \ {0}
    /\ Policy.limits \in [{"steps", "llm_calls", "tokens"} -> Nat]
    /\ Policy.limits.steps > 0

VARIABLES
    scripted,     \* --scripted-operator: stops interrupt the graph
    pc,           \* the node to run next
    status,       \* DiscoveryState.status
    observation,  \* DiscoveryState.last_observation
    pending,      \* pending_action, its target, the decision's goal_reached
    verdict,      \* the verdict of pending_policy
    budget,       \* DiscoveryState.budget
    history,      \* the turns: their action, did the page change?
    still,        \* DiscoveryState.consecutive_no_change
    resumed,      \* has the graph been resumed?
    ended,        \* RunEnded records of the journal
    escalated,    \* EscalationRaised records of the journal
    fresh,        \* is last_observation the page as nobody has changed it?
    submitted,    \* irreversible actions the agent performed
    confirmed     \* irreversible actions the operator performed

where == <<scripted, resumed>>
memory == <<observation, pending, budget, history, still>>
journal == <<ended, escalated>>
ghost == <<fresh, submitted, confirmed>>
vars == <<pc, status, verdict, memory, where, journal, ghost>>

-----------------------------------------------------------------------------
Stops == {"budget_exhausted", "dead_end", "policy_denied",
          "human_help_requested", "surface_error"}
Statuses == {"running", "goal_reached"} \cup Stops
Nodes == {"observe", "decide", "check_policy", "act", "verify",
          "terminal", "raise_escalation", "interrupt_handoff"}

Turn == [key : Keys \cup {None}, output : Outputs \cup {None}, changed : BOOLEAN]
NoMove == [key |-> None, output |-> None, kind |-> "other", site |-> "refused", goal |-> FALSE]

Init ==
    /\ scripted \in Operators
    /\ pc = "observe" /\ status = "running"
    /\ observation = None /\ pending = NoMove /\ verdict = "none"
    /\ budget = [steps |-> 0, llm_calls |-> 0, tokens |-> 0]
    /\ history = <<>> /\ still = 0
    /\ resumed = FALSE
    /\ ended = <<>> /\ escalated = 0
    /\ fresh = FALSE /\ submitted = 0 /\ confirmed = 0

\* The conditional edges: on to the next node while the run is running.
Route(next) ==
    pc' = IF status' = "running" THEN next
          ELSE IF scripted /\ status' # "goal_reached" THEN "raise_escalation"
          ELSE "terminal"

Request(site) == [site |-> site, phase |-> "discovery", budget |-> budget]

-----------------------------------------------------------------------------
(* The nodes                                                               *)

Observe_Hides ==                                     \* mutant: a failure is not an error
    /\ pc = "observe"
    /\ \/ /\ observation' \in Pages
          /\ fresh' = TRUE
       \/ UNCHANGED <<observation, fresh>>
    /\ pc' = "decide"
    /\ UNCHANGED <<status, pending, verdict, budget, history, still, where,
                   journal, submitted, confirmed>>

\* A failed observation sets the status; the edge to decide is unconditional.
Observe ==
    /\ pc = "observe"
    /\ \/ /\ observation' \in Pages
          /\ fresh' = TRUE
          /\ UNCHANGED status
       \/ /\ status' = "surface_error"
          /\ UNCHANGED <<observation, fresh>>
    /\ pc' = "decide"
    /\ UNCHANGED <<pending, verdict, budget, history, still, where,
                   journal, submitted, confirmed>>

\* Ask the planner.  A call is counted when it is made, after the fact.
Decide ==
    /\ pc = "decide"
    /\ IF observation = None
       THEN status' = "surface_error" /\ UNCHANGED <<pending, budget>>
       ELSE /\ \E tokens \in Usage :
                 budget' = [budget EXCEPT !.llm_calls = @ + 1,
                                          !.tokens = @ + tokens]
            /\ \/ /\ status' \in {"human_help_requested", "surface_error"}
                  /\ UNCHANGED pending
               \/ \E move \in Moves, goal \in BOOLEAN :
                    /\ pending' = [key |-> move.key, output |-> move.output,
                                   kind |-> move.kind, site |-> move.site, goal |-> goal]
                    /\ UNCHANGED status
    /\ Route("check_policy")
    /\ UNCHANGED <<observation, verdict, history, still, where, journal, ghost>>

\* The decision of the policy, journaled, and the edge it calls for.
CheckPolicy ==
    /\ pc = "check_policy"
    /\ verdict' = Verdict(Policy, Request(pending.site))
    /\ status' = CASE verdict' = "allow" -> status
                   [] verdict' = "escalate" -> "human_help_requested"
                   [] verdict' = "deny" -> IF OverBudget(Policy.limits, budget)
                                           THEN "budget_exhausted"
                                           ELSE "policy_denied"
    /\ Route("act")
    /\ UNCHANGED <<memory, where, journal, ghost>>

\* The independent recheck, the attempt, and its result.  A failed attempt
\* may still have changed the page; it is not counted as a step.
Act ==
    /\ pc = "act"
    /\ IF Verdict(Policy, Request(pending.site)) # "allow"
       THEN status' = "policy_denied" /\ UNCHANGED <<budget, fresh, submitted>>
       ELSE /\ \/ /\ budget' = [budget EXCEPT !.steps = @ + 1]
                  /\ UNCHANGED status
               \/ status' = "surface_error" /\ UNCHANGED budget
            /\ fresh' = FALSE
            /\ submitted' = submitted + (IF pending.site = "irreversible" THEN 1 ELSE 0)
    /\ Route("verify")
    /\ UNCHANGED <<observation, pending, verdict, history, still, where,
                   journal, confirmed>>

\* 1 + how many of the last two turns made the same action-target pair.
Repeated(turns, key) ==
    LET n == Len(turns)
        same(i) == IF i \in 1 .. n /\ turns[i].key = key THEN 1 ELSE 0
    IN 1 + same(n) + same(n - 1)

DeadEnd_Late(turns, key, stuck) ==                   \* mutant: off by one
    stuck > DeadEndLimit \/ Repeated(turns, key) >= 3

DeadEnd(turns, key, stuck) ==
    stuck >= DeadEndLimit \/ Repeated(turns, key) >= 3

\* Observe again; recheck the URL a navigation landed on, the budget
\* included; record the turn; see the goal or the dead end.
Verify ==
    /\ pc = "verify"
    /\ \E page \in Pages, landed \in Sites :
         /\ observation' = page
         /\ IF /\ pending.kind = "navigate"
               /\ Verdict(Policy, Request(landed)) # "allow"
            THEN status' = "policy_denied" /\ UNCHANGED <<history, still>>
            ELSE LET changed == page # observation
                     stuck == IF changed THEN 0 ELSE still + 1
                 IN /\ still' = stuck
                    /\ history' = Append(history, [key |-> pending.key,
                                                   output |-> pending.output,
                                                   changed |-> changed])
                    /\ status' = IF pending.kind = "read" /\ pending.goal
                                 THEN "goal_reached"
                                 ELSE IF DeadEnd(history, pending.key, stuck)
                                 THEN "dead_end" ELSE status
    /\ fresh' = TRUE
    /\ Route("decide")
    /\ UNCHANGED <<pending, verdict, budget, where, journal, submitted, confirmed>>

\* The terminal node of the graph.
Terminal ==
    /\ pc = "terminal"
    /\ escalated' = escalated + (IF status = "goal_reached" THEN 0 ELSE 1)
    /\ ended' = Append(ended, IF status = "goal_reached"
                              THEN "success" ELSE "hard_failure")
    /\ pc' = "over"
    /\ UNCHANGED <<status, verdict, memory, where, ghost>>

RaiseEscalation ==
    /\ pc = "raise_escalation"
    /\ escalated' = escalated + 1
    /\ pc' = "interrupt_handoff"
    /\ UNCHANGED <<status, verdict, memory, where, ended, ghost>>

-----------------------------------------------------------------------------
(* The command around the graph                                            *)

Fail_Silently ==                                     \* mutant: nothing is recorded
    /\ pc' = "closed"
    /\ UNCHANGED ended

\* except Exception: RunEnded, and the error is raised again.
Fail ==
    /\ pc' = "closed"
    /\ ended' = Append(ended, "hard_failure")

\* The graph has run to its end and nothing of the try raised.
Leave ==
    /\ pc = "over"
    /\ pc' = "closed"
    /\ UNCHANGED <<status, verdict, memory, where, journal, ghost>>

\* The planner, the locator ladder, or the observation of verify raises; or,
\* when the terminal node has recorded its end, the checkpoints or the span.
Raise ==
    /\ \/ pc = "decide" /\ observation # None
       \/ /\ pc = "act"
          /\ Verdict(Policy, Request(pending.site)) = "allow"
       \/ pc \in {"verify", "over"}
    /\ Fail
    /\ UNCHANGED <<status, verdict, memory, where, escalated, ghost>>

Confirm_Again ==                                     \* mutant: every interrupt is confirmed
    /\ pc = "interrupt_handoff"
    /\ verdict = "escalate"
    /\ confirmed' = confirmed + 1
    /\ fresh' = FALSE
    /\ \/ resumed' = TRUE /\ status' = "running" /\ pc' = "observe" /\ UNCHANGED ended
       \/ Fail /\ UNCHANGED <<status, resumed>>
    /\ UNCHANGED <<scripted, verdict, memory, escalated, submitted>>

\* _scripted_discovery_handoff: the operator submits the page the policy
\* escalated, hands back, and the graph is resumed at observe.  When one of
\* its calls fails, before or after the submission, the run ends.
Confirm ==
    /\ pc = "interrupt_handoff"
    /\ ~resumed /\ verdict = "escalate"
    /\ confirmed' = confirmed + 1
    /\ fresh' = FALSE
    /\ \/ resumed' = TRUE /\ status' = "running" /\ pc' = "observe" /\ UNCHANGED ended
       \/ Fail /\ UNCHANGED <<status, resumed>>
    /\ UNCHANGED <<scripted, verdict, memory, escalated, submitted>>

Refuse_Waits ==                                      \* mutant: a second interrupt is kept
    /\ pc = "interrupt_handoff"
    /\ ~resumed /\ Fail
    /\ UNCHANGED <<status, verdict, memory, where, escalated, ghost>>

\* The first interrupt is not an escalation or its lease expires, or the
\* state of a second interrupt does not validate.
Refuse ==
    /\ pc = "interrupt_handoff"
    /\ Fail
    /\ UNCHANGED <<status, verdict, memory, where, escalated, ghost>>

Node == Observe \/ Decide \/ CheckPolicy \/ Act \/ Verify \/ Terminal \/ RaiseEscalation
Next == Node \/ Leave \/ Raise \/ Confirm \/ Refuse

Spec == Init /\ [][Next]_vars

\* ainvoke runs the graph to its end: whatever node is due runs or raises,
\* and the scripted operator answers or fails.
FairSpec == Spec /\ WF_vars(Next)

-----------------------------------------------------------------------------
(* Properties                                                              *)

\* The run's state keeps its types.
TypeOK ==
    /\ scripted \in BOOLEAN
    /\ pc \in Nodes \cup {"over", "closed"}
    /\ status \in Statuses
    /\ observation \in Pages \cup {None}
    /\ pending \in [key : Keys \cup {None}, output : Outputs \cup {None},
                    kind : Kinds, site : Sites, goal : BOOLEAN]
    /\ verdict \in {"none", "allow", "deny", "escalate"}
    /\ budget \in [{"steps", "llm_calls", "tokens"} -> Nat]
    /\ history \in Seq(Turn) /\ still \in Nat
    /\ resumed \in BOOLEAN
    /\ ended \in Seq({"success", "hard_failure"}) /\ escalated \in Nat
    /\ fresh \in BOOLEAN /\ submitted \in Nat /\ confirmed \in Nat

\* The graph or the command journals the end of a run once, whichever node or
\* call fails, and truly: a success is the end of the runs that reached their
\* goal.  Only what fails after the terminal node adds a second end, a failure.
\* With it come at most the two escalations of a resumed run.
EndsOnce ==
    /\ pc \in Nodes => ended = <<>>
    /\ pc = "over" => Len(ended) = 1
    /\ pc = "closed" => Len(ended) \in {1, 2}
    /\ ended # <<>> => (ended[1] = "success" <=> status = "goal_reached")
    /\ Len(ended) = 2 => ended[2] = "hard_failure"
    /\ escalated <= IF resumed THEN 2 ELSE 1

\* The steps of a run keep to their limit and its calls of the planner exceed
\* theirs by one, handoff included; the tokens by those of one call.
SpendingIsBounded ==
    /\ budget.steps <= Policy.limits.steps
    /\ budget.llm_calls <= Policy.limits.llm_calls + 1
    /\ \/ budget.tokens <= Policy.limits.tokens
       \/ \E tokens \in Usage : budget.tokens <= Policy.limits.tokens + tokens

\* Under human confirmation the agent performs no irreversible action, before
\* or after the handoff, and the operator at most one.
HumanConfirmsOnce ==
    Policy.irreversible = "require_human_confirmation" =>
        submitted = 0 /\ confirmed <= 1

\* An action reaches the page as the planner saw it: nobody has acted, no
\* observation has failed since.
ActsOnWhatItSaw == pc = "act" => fresh

\* The last turns made no progress: DeadEndLimit of them changed nothing, or
\* three made the same action-target pair.
Stuck(turns) ==
    LET n == Len(turns)
    IN \/ /\ n >= DeadEndLimit
          /\ \A i \in n - DeadEndLimit + 1 .. n : ~turns[i].changed
       \/ /\ n >= 3
          /\ \A i \in n - 2 .. n : turns[i].key = turns[n].key

\* The counters say dead_end exactly when the recorded turns do, and no run
\* goes on from there.
DeadEndIsExact ==
    /\ status = "dead_end" => Stuck(history)
    /\ pc \in {"check_policy", "act", "verify"} => ~Stuck(history)

\* Every run comes to its end.
RunCloses == <>(pc = "closed")
=============================================================================
