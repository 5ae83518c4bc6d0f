-------------------------- MODULE DiscoveryProofs --------------------------
(***************************************************************************)
(* Proofs about DiscoveryAgent and RecordedRun, for every policy, planner, *)
(* page and journal.                                                       *)
(*                                                                         *)
(* IInv says what holds at each node: the budget is within its limits      *)
(* until the planner is asked again, the page is fresh until somebody acts *)
(* on it, and the two counters of the dead end count what the recorded     *)
(* turns show.  The handoff is the hard case: it re-enters the graph with  *)
(* everything but the status kept, so each part also says what a pending   *)
(* escalation keeps.                                                       *)
(*                                                                         *)
(* RecordedInv adds what the journal tells of the run so far: its records  *)
(* (Telling), and the dictionaries a pass of the compiler over them would  *)
(* have (Compiling).  Its steps go through the records: each kind of       *)
(* record adds so much to a journal and its dictionaries (the Tells...     *)
(* lemmas), each action appends records of some kinds (the Telling...      *)
(* lemmas).  What the pass makes of a whole journal is proved along the    *)
(* journal, from record to record (the ...Next lemmas).                    *)
(***************************************************************************)
EXTENDS RecordedRun, FiniteSetTheorems, SequenceTheorems, WellFoundedInduction, TLAPS

Within == /\ budget.llm_calls <= Policy.limits.llm_calls
          /\ budget.tokens <= Policy.limits.tokens

\* A first escalation by the policy waits for the operator.
Escalating == verdict = "escalate" /\ ~resumed

AtNodes ==
    /\ pc \in {"observe", "check_policy", "act", "verify"} => status = "running"
    /\ status = "goal_reached" => pc \in {"terminal", "over", "closed"}
    /\ Escalating =>
           pc \in {"terminal", "over", "raise_escalation", "interrupt_handoff", "closed"}
    /\ pc = "interrupt_handoff" => escalated = IF resumed THEN 2 ELSE 1
    /\ pc \notin {"over", "interrupt_handoff", "closed"} => escalated = IF resumed THEN 1 ELSE 0

Spending ==
    /\ pc = "act" => budget.steps + 1 <= Policy.limits.steps
    /\ pc \in {"observe", "decide", "act", "verify"} => Within
    /\ Escalating => Within

Humans ==
    /\ pc # "closed" /\ ~resumed => confirmed = 0
    /\ confirmed <= 1
    /\ Policy.irreversible = "require_human_confirmation" => submitted = 0

Seen ==
    /\ pc \in {"check_policy", "act"} => fresh
    /\ pc = "decide" /\ status = "running" => fresh

\* `still` counts the last turns that changed nothing.
CountsIn(turns, count) ==
    LET n == Len(turns)
    IN /\ count <= n
       /\ \A i \in n - count + 1 .. n : ~turns[i].changed
       /\ count < n => turns[n - count].changed

Counts == CountsIn(history, still)

Alive ==
    /\ pc \in {"observe", "check_policy", "act", "verify"} => ~Stuck(history)
    /\ pc = "decide" /\ status = "running" => ~Stuck(history)
    /\ Escalating => ~Stuck(history)
    /\ status = "dead_end" => Stuck(history)

IInv == /\ TypeOK /\ AtNodes /\ EndsOnce /\ Spending /\ SpendingIsBounded
        /\ Humans /\ Seen /\ Counts /\ Alive

-----------------------------------------------------------------------------
(* What one step keeps                                                     *)

\* The policy answers with one of three verdicts and, over budget, denies.
LEMMA Verdicts ==
    ASSUME NEW site, Policy.limits \in [{"steps", "llm_calls", "tokens"} -> Nat],
           budget \in [{"steps", "llm_calls", "tokens"} -> Nat]
    PROVE  /\ Verdict(Policy, Request(site)) \in {"allow", "deny", "escalate"}
           /\ Verdict(Policy, Request(site)) # "deny" =>
                  /\ budget.steps + 1 <= Policy.limits.steps
                  /\ Within
           /\ Policy.irreversible = "require_human_confirmation" /\ site = "irreversible" =>
                  Verdict(Policy, Request(site)) # "allow"
<1>1. Verdict(Policy, Request(site)) \in {"allow", "deny", "escalate"}
  BY DEF Verdict, Irreversible
<1>2. ASSUME ~OverBudget(Policy.limits, budget)
      PROVE  budget.steps + 1 <= Policy.limits.steps /\ Within
  BY <1>2 DEF OverBudget, Within
<1>3. Verdict(Policy, Request(site)) # "deny" => ~OverBudget(Policy.limits, budget)
  BY DEF Verdict, Request
<1>4. Policy.irreversible = "require_human_confirmation" /\ site = "irreversible" =>
          Verdict(Policy, Request(site)) # "allow"
  BY DEF Verdict, Irreversible, Request, Risks
<1> QED
  BY <1>1, <1>2, <1>3, <1>4

\* Every action keeps the types.
LEMMA TypeStep ==
    ASSUME TypeOK, [Next]_vars
    PROVE  TypeOK'
<1>1. CASE Observe
  <2>1. UNCHANGED <<scripted, pending, verdict, budget, history, still, resumed, ended, escalated, submitted, confirmed>>
    BY <1>1 DEF Observe, where, memory, journal, ghost
  <2>2. pc' \in Nodes /\ status' \in Statuses
    BY <1>1 DEF Observe, TypeOK, Nodes, Statuses, Stops
  <2>3. observation' \in Pages \cup {None}
    BY <1>1 DEF Observe, TypeOK
  <2>4. fresh' \in BOOLEAN
    BY <1>1 DEF Observe, TypeOK
  <2> QED
    BY <2>1, <2>2, <2>3, <2>4 DEF TypeOK
<1>2. CASE Decide
  <2>1. UNCHANGED <<scripted, observation, verdict, history, still, resumed, ended, escalated, fresh, submitted, confirmed>>
    BY <1>2 DEF Decide, Route, where, memory, journal, ghost
  <2>2. status' \in Statuses
    BY <1>2 DEF Decide, TypeOK, Statuses, Stops
  <2>3. pc' \in Nodes
    BY <1>2 DEF Decide, Route, Nodes
  <2>4. pending' \in [key : Keys \cup {None}, output : Outputs \cup {None},
                      kind : Kinds, site : Sites, goal : BOOLEAN]
    <3>1. CASE pending' = pending
      BY <3>1 DEF TypeOK
    <3>2. CASE pending' # pending
      <4>1. PICK move \in Moves, goal \in BOOLEAN :
                pending' = [key |-> move.key, output |-> move.output,
                            kind |-> move.kind, site |-> move.site, goal |-> goal]
        BY <1>2, <3>2 DEF Decide
      <4>2. move \in Move
        BY DiscoveryAssumption
      <4>3. /\ move.key \in Keys /\ move.output \in Outputs \cup {None}
            /\ move.kind \in Kinds /\ move.site \in Sites
        BY <4>2 DEF Move
      <4> QED
        BY ONLY <4>1, <4>3
    <3> QED
      BY <3>1, <3>2
  <2>5. budget' \in [{"steps", "llm_calls", "tokens"} -> Nat]
    <3>1. budget \in [{"steps", "llm_calls", "tokens"} -> Nat]
      BY DEF TypeOK
    <3>2. CASE observation = None
      BY <1>2, <3>1, <3>2 DEF Decide
    <3>3. CASE observation # None
      <4>1. PICK tokens \in Usage :
                budget' = [budget EXCEPT !.llm_calls = @ + 1, !.tokens = @ + tokens]
        BY <1>2, <3>3 DEF Decide
      <4>2. tokens \in Nat
        BY DiscoveryAssumption
      <4> QED
        <5>1. budget.llm_calls + 1 \in Nat /\ budget.tokens + tokens \in Nat
          BY <3>1, <4>2
        <5>2. budget' = [f \in {"steps", "llm_calls", "tokens"} |->
                             IF f = "tokens" THEN budget.tokens + tokens
                             ELSE IF f = "llm_calls" THEN budget.llm_calls + 1
                             ELSE budget[f]]
          BY <3>1, <4>1
        <5> QED
          BY <3>1, <5>1, <5>2
    <3> QED
      BY <3>2, <3>3
  <2> QED
    BY <2>1, <2>2, <2>3, <2>4, <2>5 DEF TypeOK
<1>3. CASE CheckPolicy
  <2>1. UNCHANGED <<scripted, observation, pending, budget, history, still, resumed, ended, escalated, fresh, submitted, confirmed>>
    BY <1>3 DEF CheckPolicy, Route, where, memory, journal, ghost
  <2>2. verdict' \in {"allow", "deny", "escalate"}
    BY <1>3, Verdicts, DiscoveryAssumption DEF CheckPolicy, TypeOK
  <2>3. status' \in Statuses
    BY <1>3, <2>2 DEF CheckPolicy, TypeOK, Statuses, Stops
  <2>4. pc' \in Nodes
    BY <1>3 DEF CheckPolicy, Route, Nodes
  <2> QED
    BY <2>1, <2>2, <2>3, <2>4 DEF TypeOK
<1>4. CASE Act
  <2>1. UNCHANGED <<scripted, observation, pending, verdict, history, still, resumed, ended, escalated, confirmed>>
    BY <1>4 DEF Act, Route, where, memory, journal, ghost
  <2>2. status' \in Statuses
    BY <1>4 DEF Act, TypeOK, Statuses, Stops
  <2>3. pc' \in Nodes
    BY <1>4 DEF Act, Route, Nodes
  <2>4. budget' \in [{"steps", "llm_calls", "tokens"} -> Nat]
    BY <1>4 DEF Act, TypeOK
  <2>5. fresh' \in BOOLEAN
    BY <1>4 DEF Act, TypeOK
  <2>6. submitted' \in Nat
    BY <1>4 DEF Act, TypeOK
  <2> QED
    BY <2>1, <2>2, <2>3, <2>4, <2>5, <2>6 DEF TypeOK
<1>5. CASE Verify
  <2>1. UNCHANGED <<scripted, pending, verdict, budget, resumed, ended, escalated, submitted, confirmed>>
    BY <1>5 DEF Verify, Route, where, memory, journal, ghost
  <2>2. status' \in Statuses
    BY <1>5 DEF Verify, TypeOK, Statuses, Stops
  <2>3. pc' \in Nodes
    BY <1>5 DEF Verify, Route, Nodes
  <2>4. observation' \in Pages \cup {None}
    BY <1>5 DEF Verify, TypeOK
  <2>5. fresh' \in BOOLEAN
    BY <1>5 DEF Verify, TypeOK
  <2>6. still' \in Nat
    BY <1>5 DEF Verify, TypeOK
  <2>7. history' \in Seq(Turn)
    <3>1. /\ history \in Seq(Turn)
          /\ pending.key \in Keys \cup {None} /\ pending.output \in Outputs \cup {None}
      BY DEF TypeOK
    <3>2. history' = history \/ \E page \in Pages :
              history' = Append(history, [key |-> pending.key, output |-> pending.output,
                                          changed |-> page # observation])
      BY <1>5 DEF Verify
    <3>3. \A page : [key |-> pending.key, output |-> pending.output,
                    changed |-> page # observation] \in Turn
      BY <3>1 DEF Turn
    <3>4. history' = history \/ \E turn \in Turn : history' = Append(history, turn)
      BY <3>2, <3>3
    <3> QED
      BY <3>1, <3>4
  <2> QED
    BY <2>1, <2>2, <2>3, <2>4, <2>5, <2>6, <2>7 DEF TypeOK
<1>6. CASE Terminal
  BY <1>6 DEF TypeOK, Nodes, Terminal, where, memory, journal, ghost
<1>7. CASE RaiseEscalation
  BY <1>7 DEF TypeOK, Nodes, RaiseEscalation, where, memory, journal, ghost
<1>8. CASE Raise
  BY <1>8 DEF TypeOK, Nodes, Raise, Fail, where, memory, journal, ghost
<1>9. CASE Confirm
  <2>1. UNCHANGED <<scripted, observation, pending, verdict, budget, history, still, escalated, submitted>>
    BY <1>9 DEF Confirm, Fail, where, memory, journal, ghost
  <2>2. status' \in Statuses
    BY <1>9 DEF Confirm, TypeOK, Statuses, Stops
  <2>3. pc' \in Nodes \cup {"closed"}
    BY <1>9 DEF Confirm, Fail, Nodes
  <2>4. resumed' \in BOOLEAN /\ fresh' \in BOOLEAN
    BY <1>9 DEF Confirm, TypeOK
  <2>5. ended' \in Seq({"success", "hard_failure"})
    <3>1. ended' = ended \/ ended' = Append(ended, "hard_failure")
      BY <1>9 DEF Confirm, Fail
    <3>2. ended \in Seq({"success", "hard_failure"})
      BY DEF TypeOK
    <3> QED
      BY <3>1, <3>2
  <2>6. confirmed' \in Nat
    BY <1>9 DEF Confirm, TypeOK
  <2> QED
    BY <2>1, <2>2, <2>3, <2>4, <2>5, <2>6 DEF TypeOK
<1>10. CASE Refuse
  BY <1>10 DEF TypeOK, Nodes, Refuse, Fail, where, memory, journal, ghost
<1>11. CASE UNCHANGED vars
  BY <1>11 DEF TypeOK, vars, where, memory, journal, ghost
<1>12. CASE Leave
  BY <1>12 DEF TypeOK, Leave, where, memory, journal, ghost
<1> QED
  BY <1>1, <1>2, <1>3, <1>4, <1>5, <1>6, <1>7, <1>8, <1>9, <1>10, <1>11, <1>12 DEF Next, Node

\* A node other than decide runs only while the run is running; an escalation
\* is counted once per stop.
LEMMA AtNodesStep ==
    ASSUME TypeOK, AtNodes, [Next]_vars
    PROVE  AtNodes'
<1> USE DEF TypeOK, AtNodes, Escalating, Statuses, Stops
<1>1. CASE Observe
  BY <1>1 DEF Observe, where, memory, journal, ghost
<1>2. CASE Decide
  BY <1>2 DEF Decide, Route, where, memory, journal, ghost
<1>3. CASE CheckPolicy
  BY <1>3 DEF CheckPolicy, Route, where, memory, journal, ghost
<1>4. CASE Act
  BY <1>4 DEF Act, Route, where, memory, journal, ghost
<1>5. CASE Verify
  BY <1>5 DEF Verify, Route, where, memory, journal, ghost
<1>6. CASE Terminal
  BY <1>6 DEF Terminal, where, memory, journal, ghost
<1>7. CASE RaiseEscalation
  BY <1>7 DEF RaiseEscalation, where, memory, journal, ghost
<1>8. CASE Raise
  BY <1>8 DEF Raise, Fail, where, memory, journal, ghost
<1>9. CASE Confirm
  BY <1>9 DEF Confirm, Fail, where, memory, journal, ghost
<1>10. CASE Refuse
  BY <1>10 DEF Refuse, Fail, where, memory, journal, ghost
<1>11. CASE UNCHANGED vars
  BY <1>11 DEF vars, where, memory, journal, ghost
<1>12. CASE Leave
  BY <1>12 DEF Leave, where, memory, journal, ghost
<1> QED
  BY <1>1, <1>2, <1>3, <1>4, <1>5, <1>6, <1>7, <1>8, <1>9, <1>10, <1>11, <1>12 DEF Next, Node

\* Only the terminal node and a failure record the end, and after both no node
\* runs.
LEMMA EndsStep ==
    ASSUME TypeOK, AtNodes, EndsOnce, [Next]_vars
    PROVE  EndsOnce'
<1> USE DEF TypeOK, AtNodes, EndsOnce, Nodes
<1>1. CASE Observe
  BY <1>1 DEF Observe, where, memory, journal, ghost
<1>2. CASE Decide
  BY <1>2 DEF Decide, Route, where, memory, journal, ghost
<1>3. CASE CheckPolicy
  BY <1>3 DEF CheckPolicy, Route, where, memory, journal, ghost
<1>4. CASE Act
  BY <1>4 DEF Act, Route, where, memory, journal, ghost
<1>5. CASE Verify
  BY <1>5 DEF Verify, Route, where, memory, journal, ghost
<1>6. CASE Terminal
  BY <1>6 DEF Terminal, where, memory, journal, ghost
<1>7. CASE RaiseEscalation
  BY <1>7 DEF RaiseEscalation, where, memory, journal, ghost
<1>8. CASE Raise
  BY <1>8 DEF Raise, Fail, where, memory, journal, ghost
<1>9. CASE Confirm
  BY <1>9 DEF Confirm, Fail, where, memory, journal, ghost
<1>10. CASE Refuse
  BY <1>10 DEF Refuse, Fail, where, memory, journal, ghost
<1>11. CASE UNCHANGED vars
  BY <1>11 DEF vars, where, memory, journal, ghost
<1>12. CASE Leave
  BY <1>12 DEF Leave, where, memory, journal, ghost
<1> QED
  BY <1>1, <1>2, <1>3, <1>4, <1>5, <1>6, <1>7, <1>8, <1>9, <1>10, <1>11, <1>12 DEF Next, Node

\* The planner is asked only within the limits, and an action performed only
\* when the next step is within its own.
LEMMA SpendingStep ==
    ASSUME TypeOK, AtNodes, Spending, SpendingIsBounded, [Next]_vars
    PROVE  (Spending /\ SpendingIsBounded)'
<1> USE DEF TypeOK, AtNodes, Spending, SpendingIsBounded, Within, Escalating, Statuses, Stops
<1>1. CASE Observe
  BY <1>1 DEF Observe, where, memory, journal, ghost
<1>2. CASE Decide
  <2>1. observation # None => \E tokens \in Usage :
            budget' = [budget EXCEPT !.llm_calls = @ + 1, !.tokens = @ + tokens]
    BY <1>2 DEF Decide
  <2>2. observation = None => budget' = budget
    BY <1>2 DEF Decide
  <2>3. pc = "decide" /\ pc' \notin {"observe", "decide", "act", "verify"}
    BY <1>2 DEF Decide, Route
  <2>4. UNCHANGED <<verdict, resumed>>
    BY <1>2 DEF Decide, where, ghost, journal
  <2>5. CASE observation = None
    BY <2>2, <2>3, <2>4, <2>5
  <2>6. CASE observation # None
    <3>1. PICK tokens \in Usage :
              budget' = [budget EXCEPT !.llm_calls = @ + 1, !.tokens = @ + tokens]
      BY <2>1, <2>6
    <3>2. tokens \in Nat
      BY DiscoveryAssumption
    <3>3. /\ Policy.limits.llm_calls \in Nat /\ Policy.limits.tokens \in Nat
          /\ budget.steps \in Nat /\ budget.llm_calls \in Nat /\ budget.tokens \in Nat
      BY DiscoveryAssumption
    <3>4. /\ budget'.steps = budget.steps
          /\ budget'.llm_calls = budget.llm_calls + 1
          /\ budget'.tokens = budget.tokens + tokens
      BY <3>1
    <3>5. Within /\ pc = "decide"
      BY <2>3
    <3>6. SpendingIsBounded'
      BY <3>2, <3>3, <3>4, <3>5
    <3>7. ~Escalating'
      BY <2>4, <3>5
    <3> QED
      BY <2>3, <3>6, <3>7
  <2> QED
    BY <2>5, <2>6
<1>3. CASE CheckPolicy
  <2>1. verdict' = Verdict(Policy, Request(pending.site))
    BY <1>3 DEF CheckPolicy
  <2>2. verdict' # "deny" => budget.steps + 1 <= Policy.limits.steps /\ Within
    BY <2>1, Verdicts, DiscoveryAssumption
  <2>3. /\ UNCHANGED <<budget, resumed>>
        /\ pc' \notin {"observe", "decide", "verify"}
    BY <1>3 DEF CheckPolicy, Route, memory, where
  <2>4. pc' = "act" => verdict' # "deny"
    BY <1>3 DEF CheckPolicy, Route
  <2> QED
    BY <2>2, <2>3, <2>4
<1>4. CASE Act
  <2>1. /\ pc = "act" /\ pc' \notin {"observe", "decide", "act"}
        /\ UNCHANGED <<verdict, resumed>>
    BY <1>4 DEF Act, Route, where
  <2>2. budget' = budget \/ budget' = [budget EXCEPT !.steps = @ + 1]
    BY <1>4 DEF Act
  <2> QED
    BY <2>1, <2>2, DiscoveryAssumption
<1>5. CASE Verify
  BY <1>5 DEF Verify, Route, where, memory, journal, ghost
<1>6. CASE Terminal
  BY <1>6 DEF Terminal, where, memory, journal, ghost
<1>7. CASE RaiseEscalation
  BY <1>7 DEF RaiseEscalation, where, memory, journal, ghost
<1>8. CASE Raise
  BY <1>8 DEF Raise, Fail, where, memory, journal, ghost
<1>9. CASE Confirm
  BY <1>9 DEF Confirm, Fail, where, memory, journal, ghost
<1>10. CASE Refuse
  BY <1>10 DEF Refuse, Fail, where, memory, journal, ghost
<1>11. CASE UNCHANGED vars
  BY <1>11 DEF vars, where, memory, journal, ghost
<1>12. CASE Leave
  BY <1>12 DEF Leave, where, memory, journal, ghost
<1> QED
  BY <1>1, <1>2, <1>3, <1>4, <1>5, <1>6, <1>7, <1>8, <1>9, <1>10, <1>11, <1>12 DEF Next, Node

\* The operator confirms in the one resumption only.
LEMMA HumansStep ==
    ASSUME TypeOK, AtNodes, Humans, [Next]_vars
    PROVE  Humans'
<1> USE DEF TypeOK, AtNodes, Humans, Nodes
<1>1. CASE Observe
  BY <1>1 DEF Observe, where, memory, journal, ghost
<1>2. CASE Decide
  BY <1>2 DEF Decide, Route, where, memory, journal, ghost
<1>3. CASE CheckPolicy
  BY <1>3 DEF CheckPolicy, Route, where, memory, journal, ghost
<1>4. CASE Act
  <2>1. /\ pc = "act" /\ pc' # "closed"
        /\ UNCHANGED <<resumed, confirmed>>
    BY <1>4 DEF Act, Route, where
  <2>2. CASE Verdict(Policy, Request(pending.site)) # "allow"
    BY <1>4, <2>1, <2>2 DEF Act
  <2>3. CASE Verdict(Policy, Request(pending.site)) = "allow"
    <3>1. Policy.irreversible = "require_human_confirmation" => pending.site # "irreversible"
      BY <2>3, Verdicts, DiscoveryAssumption
    <3>2. submitted' = submitted + (IF pending.site = "irreversible" THEN 1 ELSE 0)
      BY <1>4, <2>3 DEF Act
    <3> QED
      BY <2>1, <3>1, <3>2
  <2> QED
    BY <2>2, <2>3
<1>5. CASE Verify
  BY <1>5 DEF Verify, Route, where, memory, journal, ghost
<1>6. CASE Terminal
  BY <1>6 DEF Terminal, where, memory, journal, ghost
<1>7. CASE RaiseEscalation
  BY <1>7 DEF RaiseEscalation, where, memory, journal, ghost
<1>8. CASE Raise
  BY <1>8 DEF Raise, Fail, where, memory, journal, ghost
<1>9. CASE Confirm
  BY <1>9 DEF Confirm, Fail, where, memory, journal, ghost
<1>10. CASE Refuse
  BY <1>10 DEF Refuse, Fail, where, memory, journal, ghost
<1>11. CASE UNCHANGED vars
  BY <1>11 DEF vars, where, memory, journal, ghost
<1>12. CASE Leave
  BY <1>12 DEF Leave, where, memory, journal, ghost
<1> QED
  BY <1>1, <1>2, <1>3, <1>4, <1>5, <1>6, <1>7, <1>8, <1>9, <1>10, <1>11, <1>12 DEF Next, Node

\* A running run decides on a page it has just observed.
LEMMA SeenStep ==
    ASSUME TypeOK, AtNodes, Seen, [Next]_vars
    PROVE  Seen'
<1> USE DEF TypeOK, AtNodes, Seen, Statuses, Stops
<1>1. CASE Observe
  BY <1>1 DEF Observe, where, memory, journal, ghost
<1>2. CASE Decide
  BY <1>2 DEF Decide, Route, where, memory, journal, ghost
<1>3. CASE CheckPolicy
  BY <1>3 DEF CheckPolicy, Route, where, memory, journal, ghost
<1>4. CASE Act
  BY <1>4 DEF Act, Route, where, memory, journal, ghost
<1>5. CASE Verify
  BY <1>5 DEF Verify, Route, where, memory, journal, ghost
<1>6. CASE Terminal
  BY <1>6 DEF Terminal, where, memory, journal, ghost
<1>7. CASE RaiseEscalation
  BY <1>7 DEF RaiseEscalation, where, memory, journal, ghost
<1>8. CASE Raise
  BY <1>8 DEF Raise, Fail, where, memory, journal, ghost
<1>9. CASE Confirm
  BY <1>9 DEF Confirm, Fail, where, memory, journal, ghost
<1>10. CASE Refuse
  BY <1>10 DEF Refuse, Fail, where, memory, journal, ghost
<1>11. CASE UNCHANGED vars
  BY <1>11 DEF vars, where, memory, journal, ghost
<1>12. CASE Leave
  BY <1>12 DEF Leave, where, memory, journal, ghost
<1> QED
  BY <1>1, <1>2, <1>3, <1>4, <1>5, <1>6, <1>7, <1>8, <1>9, <1>10, <1>11, <1>12 DEF Next, Node

-----------------------------------------------------------------------------
(* The dead end                                                            *)

\* The counter says what the turns say.
LEMMA StillIsStuck ==
    ASSUME NEW turns \in Seq(Turn), NEW count \in Nat, CountsIn(turns, count)
    PROVE  Stuck(turns) <=> \/ count >= DeadEndLimit
                            \/ /\ Len(turns) >= 3
                               /\ \A i \in Len(turns) - 2 .. Len(turns) :
                                      turns[i].key = turns[Len(turns)].key
<1> DEFINE n == Len(turns)
<1>1. n \in Nat /\ DeadEndLimit \in Nat \ {0}
  BY DiscoveryAssumption
<1>2. ASSUME count >= DeadEndLimit
      PROVE  n >= DeadEndLimit /\ \A i \in n - DeadEndLimit + 1 .. n : ~turns[i].changed
  <2>1. count <= n /\ \A i \in n - count + 1 .. n : ~turns[i].changed
    BY DEF CountsIn
  <2>2. \A i \in n - DeadEndLimit + 1 .. n : i \in n - count + 1 .. n
    BY <1>1, <1>2
  <2> QED
    BY <1>1, <1>2, <2>1, <2>2
<1>3. ASSUME n >= DeadEndLimit, \A i \in n - DeadEndLimit + 1 .. n : ~turns[i].changed,
             count < DeadEndLimit
      PROVE  FALSE
  <2>1. count < n => turns[n - count].changed
    BY DEF CountsIn
  <2>2. count < n /\ n - count \in n - DeadEndLimit + 1 .. n
    BY <1>1, <1>3
  <2> QED
    BY <1>3, <2>1, <2>2
<1> QED
  BY <1>1, <1>2, <1>3 DEF Stuck

\* What verify appends, and what it sets the counter to.
LEMMA VerifyTurns ==
    ASSUME TypeOK, Verify
    PROVE  \/ UNCHANGED <<history, still>> /\ status' = "policy_denied"
           \/ \E turn \in Turn :
                /\ turn.key = pending.key
                /\ history' = Append(history, turn)
                /\ still' = IF turn.changed THEN 0 ELSE still + 1
                /\ status' = "dead_end" /\ status = "running" =>
                       DeadEnd(history, pending.key, still')
                /\ status' \in {"running", "policy_denied"} /\ status = "running" =>
                       ~DeadEnd(history, pending.key, still')
<1>1. PICK page \in Pages, landed \in Sites :
          IF pending.kind = "navigate" /\ Verdict(Policy, Request(landed)) # "allow"
          THEN status' = "policy_denied" /\ UNCHANGED <<history, still>>
          ELSE /\ still' = IF page # observation THEN 0 ELSE still + 1
               /\ history' = Append(history, [key |-> pending.key, output |-> pending.output,
                                             changed |-> page # observation])
               /\ status' = IF pending.kind = "read" /\ pending.goal THEN "goal_reached"
                            ELSE IF DeadEnd(history, pending.key,
                                            IF page # observation THEN 0 ELSE still + 1)
                            THEN "dead_end" ELSE status
  BY DEF Verify
<1> DEFINE turn == [key |-> pending.key, output |-> pending.output,
                    changed |-> page # observation]
<1>2. pending.key \in Keys \cup {None} /\ pending.output \in Outputs \cup {None}
  BY DEF TypeOK
<1>3. turn \in Turn /\ turn.key = pending.key /\ (turn.changed <=> page # observation)
  BY <1>2 DEF Turn
<1>4. CASE UNCHANGED <<history, still>> /\ status' = "policy_denied"
  BY <1>4
<1>5. CASE ~(UNCHANGED <<history, still>> /\ status' = "policy_denied")
  <2>1. still' = IF turn.changed THEN 0 ELSE still + 1
    BY <1>1, <1>3, <1>5
  <2>2. history' = Append(history, turn)
    BY <1>1, <1>5
  <2>3. status' = IF pending.kind = "read" /\ pending.goal THEN "goal_reached"
                  ELSE IF DeadEnd(history, pending.key, still') THEN "dead_end" ELSE status
    BY <1>1, <1>5
  <2>4. status' = "dead_end" /\ status = "running" => DeadEnd(history, pending.key, still')
    BY <2>3
  <2>5. status' \in {"running", "policy_denied"} /\ status = "running" =>
            ~DeadEnd(history, pending.key, still')
    BY <2>3
  <2> HIDE DEF turn
  <2> QED
    BY <1>3, <2>1, <2>2, <2>4, <2>5
<1> QED
  BY <1>4, <1>5

\* Verify keeps the count of the turns that changed nothing.
LEMMA CountsStep ==
    ASSUME TypeOK, Counts, [Next]_vars
    PROVE  Counts'
<1>1. CASE Verify
  <2> DEFINE n == Len(history)
  <2>1. history \in Seq(Turn) /\ still \in Nat /\ n \in Nat
    BY DEF TypeOK
  <2>2. CASE UNCHANGED <<history, still>>
    BY <2>2 DEF Counts, CountsIn
  <2>3. CASE \E turn \in Turn : /\ history' = Append(history, turn)
                                /\ still' = IF turn.changed THEN 0 ELSE still + 1
    <3>1. PICK turn \in Turn : /\ history' = Append(history, turn)
                               /\ still' = IF turn.changed THEN 0 ELSE still + 1
      BY <2>3
    <3>2. /\ Len(history') = n + 1 /\ history'[n + 1] = turn
          /\ \A i \in 1 .. n : history'[i] = history[i]
      BY <2>1, <3>1
    <3>3. CASE turn.changed
      <4>1. still' = 0
        BY <3>1, <3>3
      <4> QED
        BY <2>1, <3>2, <3>3, <4>1 DEF Counts, CountsIn
    <3>4. CASE ~turn.changed
      <4>1. still' = still + 1
        BY <3>1, <3>4
      <4>2. still <= n /\ \A i \in n - still + 1 .. n : ~history[i].changed
        BY DEF Counts, CountsIn
      <4>3. still < n => history[n - still].changed
        BY DEF Counts, CountsIn
      <4>4. still' <= n + 1
        BY <2>1, <4>1, <4>2
      <4>5. \A i \in (n + 1) - still' + 1 .. n + 1 : ~history'[i].changed
        <5>1. SUFFICES ASSUME NEW i \in (n + 1) - still' + 1 .. n + 1
                       PROVE  ~history'[i].changed
          OBVIOUS
        <5>2. i = n + 1 \/ (i \in n - still + 1 .. n /\ i \in 1 .. n)
          BY <2>1, <4>1, <4>2
        <5> QED
          BY <3>2, <3>4, <4>2, <5>2
      <4>6. still' < n + 1 => history'[(n + 1) - still'].changed
        <5>1. SUFFICES ASSUME still' < n + 1
                       PROVE  history'[(n + 1) - still'].changed
          OBVIOUS
        <5>2. still < n /\ (n + 1) - still' = n - still /\ n - still \in 1 .. n
          BY <2>1, <4>1, <5>1
        <5> QED
          BY <3>2, <4>3, <5>2
      <4> QED
        BY <3>2, <4>4, <4>5, <4>6 DEF Counts, CountsIn
    <3> QED
      BY <3>3, <3>4
  <2> QED
    BY <1>1, <2>2, <2>3, VerifyTurns
<1>2. CASE ~Verify
  <2>1. UNCHANGED <<history, still>>
    BY <1>2 DEF Next, Node, vars, Observe, Decide, CheckPolicy, Act, Terminal, RaiseEscalation,
        Leave, Raise, Confirm, Refuse, memory
  <2> QED
    BY <2>1 DEF Counts, CountsIn
<1> QED
  BY <1>1, <1>2

\* Verify stops the run at the first turn that gets stuck.
LEMMA VerifyStuck ==
    ASSUME TypeOK, Counts, Counts', TypeOK', AtNodes, Alive, Verify
    PROVE  /\ status' = "dead_end" => Stuck(history)'
           /\ status' = "running" => ~Stuck(history)'
<1> DEFINE n == Len(history)
<1>1. history \in Seq(Turn) /\ still \in Nat /\ n \in Nat
  BY DEF TypeOK
<1>2. status = "running" /\ ~Stuck(history) /\ pc = "verify"
  BY DEF AtNodes, Alive, Verify
<1>3. CASE UNCHANGED <<history, still>> /\ status' = "policy_denied"
  BY <1>3
<1>4. CASE \E turn \in Turn :
                /\ turn.key = pending.key
                /\ history' = Append(history, turn)
                /\ status' = "dead_end" => DeadEnd(history, pending.key, still')
                /\ status' \in {"running", "policy_denied"} =>
                       ~DeadEnd(history, pending.key, still')
  <2>1. PICK turn \in Turn :
                /\ turn.key = pending.key
                /\ history' = Append(history, turn)
                /\ status' = "dead_end" => DeadEnd(history, pending.key, still')
                /\ status' \in {"running", "policy_denied"} =>
                       ~DeadEnd(history, pending.key, still')
    BY <1>4
  <2>2. /\ Len(history') = n + 1 /\ history'[n + 1] = turn
        /\ \A i \in 1 .. n : history'[i] = history[i]
    BY <1>1, <2>1
  <2>3. Repeated(history, pending.key) >= 3 <=>
            n >= 2 /\ history[n].key = pending.key /\ history[n - 1].key = pending.key
    BY <1>1 DEF Repeated
  <2>4. Repeated(history, pending.key) >= 3 <=>
            /\ Len(history') >= 3
            /\ \A i \in Len(history') - 2 .. Len(history') :
                   history'[i].key = history'[Len(history')].key
    <3>1. n >= 2 => \A i \in (n + 1) - 2 .. n + 1 : i = n + 1 \/ i = n \/ i = n - 1
      BY <1>1
    <3>2. n >= 2 => /\ n \in 1 .. n /\ n - 1 \in 1 .. n
                    /\ n \in (n + 1) - 2 .. n + 1 /\ n - 1 \in (n + 1) - 2 .. n + 1
      BY <1>1
    <3>3. n + 1 >= 3 <=> n >= 2
      BY <1>1
    <3> QED
      BY <2>1, <2>2, <2>3, <3>1, <3>2, <3>3
  <2>5. Stuck(history)' <=> DeadEnd(history, pending.key, still')
    <3>1. history' \in Seq(Turn) /\ still' \in Nat
      BY DEF TypeOK
    <3>2. Stuck(history)' <=> \/ still' >= DeadEndLimit
                     \/ /\ Len(history') >= 3
                        /\ \A i \in Len(history') - 2 .. Len(history') :
                               history'[i].key = history'[Len(history')].key
      BY <3>1, StillIsStuck DEF Counts
    <3> QED
      BY <2>4, <3>2 DEF DeadEnd
  <2> QED
    BY <2>1, <2>5
<1> QED
  BY <1>2, <1>3, <1>4, VerifyTurns

\* A run that goes on, or waits for the operator, is not stuck.
LEMMA AliveStep ==
    ASSUME TypeOK, TypeOK', AtNodes, AtNodes', Counts, Counts', Alive, [Next]_vars
    PROVE  Alive'
<1> USE DEF Alive, AtNodes, Escalating
<1>1. CASE Verify
  <2>1. /\ status' = "dead_end" => Stuck(history)'
        /\ status' = "running" => ~Stuck(history)'
    BY <1>1, VerifyStuck
  <2>2. ~Escalating'
    BY <1>1 DEF Verify, where
  <2> QED
    BY <2>1, <2>2
<1>2. ASSUME UNCHANGED <<history, still>> PROVE Stuck(history)' <=> Stuck(history)
  BY <1>2
<1>3. CASE Observe
  BY <1>2, <1>3 DEF Observe, where, memory
<1>4. CASE Decide
  <2>1. pc = "decide" /\ UNCHANGED <<history, verdict, resumed>>
    BY <1>4 DEF Decide, where
  <2>2. status' = status \/ status' \in {"human_help_requested", "surface_error"}
    BY <1>4 DEF Decide
  <2>3. /\ pc' \notin {"observe", "decide", "act", "verify"}
        /\ pc' = "check_policy" => status' = "running"
    BY <1>4 DEF Decide, Route
  <2>4. ~Escalating'
    BY <2>1
  <2> QED
    BY <2>1, <2>2, <2>3, <2>4
<1>5. CASE CheckPolicy
  <2>1. ~Stuck(history) /\ history' = history
    BY <1>5 DEF CheckPolicy, memory
  <2>2. status' # "dead_end"
    <3>1. verdict' \in {"allow", "deny", "escalate"} /\ status = "running"
      BY <1>5, Verdicts, DiscoveryAssumption DEF CheckPolicy, TypeOK
    <3> QED
      BY <1>5, <3>1 DEF CheckPolicy
  <2> QED
    BY <2>1, <2>2
<1>6. CASE Act
  BY <1>2, <1>6 DEF Act, Route, where, memory
<1>7. CASE Terminal
  BY <1>2, <1>7 DEF Terminal, where, memory
<1>8. CASE RaiseEscalation
  BY <1>2, <1>8 DEF RaiseEscalation, where, memory
<1>9. CASE Raise
  BY <1>2, <1>9 DEF Raise, Fail, where, memory
<1>10. CASE Confirm
  BY <1>2, <1>10 DEF Confirm, Fail, where, memory
<1>11. CASE Refuse
  BY <1>2, <1>11 DEF Refuse, Fail, where, memory
<1>12. CASE UNCHANGED vars
  BY <1>2, <1>12 DEF vars, where, memory
<1>13. CASE Leave
  BY <1>2, <1>13 DEF Leave, where, memory
<1> QED
  BY <1>1, <1>3, <1>4, <1>5, <1>6, <1>7, <1>8, <1>9, <1>10, <1>11, <1>12, <1>13 DEF Next, Node

-----------------------------------------------------------------------------
(* The theorems                                                            *)

\* A run starts in the invariant.
LEMMA InductiveInit ==
    ASSUME Init
    PROVE  IInv
<1> USE DEF Init
<1>1. TypeOK
  <2>1. scripted \in BOOLEAN /\ resumed \in BOOLEAN /\ fresh \in BOOLEAN
    BY DiscoveryAssumption
  <2>2. pc \in Nodes \cup {"over", "closed"} /\ status \in Statuses
    BY DEF Nodes, Statuses
  <2>3. pending \in [key : Keys \cup {None}, output : Outputs \cup {None},
                     kind : Kinds, site : Sites, goal : BOOLEAN]
    <3>1. pending = [key |-> None, output |-> None, kind |-> "other",
                     site |-> "refused", goal |-> FALSE]
      BY DEF NoMove
    <3>2. None \in Keys \cup {None} /\ None \in Outputs \cup {None}
      OBVIOUS
    <3>3. "other" \in Kinds
      BY DEF Kinds
    <3>4. "refused" \in Sites
      BY DEF Sites
    <3>5. FALSE \in BOOLEAN
      OBVIOUS
    <3> QED
      BY ONLY <3>1, <3>2, <3>3, <3>4, <3>5
  <2>4. budget \in [{"steps", "llm_calls", "tokens"} -> Nat]
    OBVIOUS
  <2>5. history \in Seq(Turn) /\ ended \in Seq({"success", "hard_failure"})
    OBVIOUS
  <2>6. /\ observation \in Pages \cup {None}
        /\ verdict \in {"none", "allow", "deny", "escalate"}
        /\ still \in Nat /\ escalated \in Nat /\ submitted \in Nat /\ confirmed \in Nat
    OBVIOUS
  <2> HIDE DEF Init
  <2> QED
    BY <2>1, <2>2, <2>3, <2>4, <2>5, <2>6 DEF TypeOK
<1>2. AtNodes /\ EndsOnce
  BY DEF AtNodes, EndsOnce, Escalating
<1>3. Spending /\ SpendingIsBounded
  BY DiscoveryAssumption DEF Spending, SpendingIsBounded, Within, Escalating
<1>4. Humans /\ Seen
  BY DEF Humans, Seen
<1>5. Counts
  BY DEF Counts, CountsIn
<1>6. Alive
  BY DiscoveryAssumption DEF Alive, Escalating, Stuck
<1> QED
  BY <1>1, <1>2, <1>3, <1>4, <1>5, <1>6 DEF IInv

\* Every step keeps the invariant.
LEMMA InductiveStep ==
    ASSUME IInv, [Next]_vars
    PROVE  IInv'
<1>1. TypeOK'
  BY TypeStep DEF IInv
<1>2. AtNodes'
  BY AtNodesStep DEF IInv
<1>3. EndsOnce'
  BY EndsStep DEF IInv
<1>4. Spending' /\ SpendingIsBounded'
  BY SpendingStep DEF IInv
<1>5. Humans'
  BY HumansStep DEF IInv
<1>6. Seen'
  BY SeenStep DEF IInv
<1>7. Counts'
  BY CountsStep DEF IInv
<1>8. Alive'
  BY <1>1, <1>2, <1>7, AliveStep DEF IInv
<1> QED
  BY <1>1, <1>2, <1>3, <1>4, <1>5, <1>6, <1>7, <1>8 DEF IInv

\* The invariant holds of every discovery run.
THEOREM Invariant == Spec => []IInv
<1>1. Init => IInv
  BY InductiveInit
<1>2. IInv /\ [Next]_vars => IInv'
  BY InductiveStep
<1> QED
  BY <1>1, <1>2, PTL DEF Spec

\* The state of a discovery run keeps its types.
THEOREM TypeCorrect == Spec => []TypeOK
<1>1. IInv => TypeOK
  BY DEF IInv
<1> QED
  BY <1>1, Invariant, PTL

\* Whichever node or call fails, handoff or not, the end of a run is journaled
\* once, as a success if and only if it reached its goal; the one second end is
\* the failure of what follows the terminal node.
THEOREM JournalEndsOnce == Spec => []EndsOnce
<1>1. IInv => EndsOnce
  BY DEF IInv
<1> QED
  BY <1>1, Invariant, PTL

\* For any limits and any planner: steps keep to their limit, calls and tokens
\* exceed theirs by one call at most, although the planner is asked before the
\* budget is looked at and the handoff resets nothing.
THEOREM SpendingBounded == Spec => []SpendingIsBounded
<1>1. IInv => SpendingIsBounded
  BY DEF IInv
<1> QED
  BY <1>1, Invariant, PTL

\* Under human confirmation the agent never performs an irreversible action
\* and a run's operator at most one.
THEOREM HumanInTheLoop == Spec => []HumanConfirmsOnce
<1>1. IInv => HumanConfirmsOnce
  BY DEF IInv, Humans, HumanConfirmsOnce
<1> QED
  BY <1>1, Invariant, PTL

\* Nothing the agent performs was decided from a page that has moved on.
THEOREM FreshActions == Spec => []ActsOnWhatItSaw
<1>1. IInv => ActsOnWhatItSaw
  BY DEF IInv, Seen, ActsOnWhatItSaw
<1> QED
  BY <1>1, Invariant, PTL

\* A run is a dead end exactly when its recorded turns show it, for every limit
\* of turns that change nothing.
THEOREM DeadEndExact == Spec => []DeadEndIsExact
<1>1. IInv => DeadEndIsExact
  BY DEF IInv, Alive, DeadEndIsExact
<1> QED
  BY <1>1, Invariant, PTL

-----------------------------------------------------------------------------
(* The recorded run: what its journal says at any time                     *)

\* The records that neither the manifest nor the compiler's pass looks at,
\* and the one that tells the target.
Silent == {"ControlTransferred", "HumanAction", "ControlReturned", "HumanChangeSummary",
           "CheckpointEvaluated", "EscalationRaised", "ManifestRegenerated"}

Rules == {"default.deny", "navigation.read-and-control", DataEntry,
          "account.confirm-submit", "redirect"}
Entries ==
    [type : Silent \cup {"TargetMetadataReconstructed"}]
    \cup [type : {"Observed"}, page : Pages, id : Nat]
    \cup [type : {"ModelDecided"}, step : Nat]
    \cup [type : {"PolicyDecision"}, page : Pages \cup {None},
          verdict : {"allow", "deny", "escalate"}, rule : Rules]
    \cup [type : {"ActionAttempted"}, page : Pages \cup {None}, step : Nat,
          key : Keys \cup {None}, kind : Kinds, output : Outputs \cup {None},
          legible : BOOLEAN]
    \cup [type : {"ActionResult"}, kind : Kinds, valued : BOOLEAN]
    \cup [type : {"RunEnded"}, result : {"success", "hard_failure"}]

\* The ends of the run are journaled with it, and after a first one, unless
\* there is a second, only amendments follow.
EndTold ==
    /\ ended = <<>> => OfType(trace, "RunEnded") = {}
    /\ Len(ended) = 1 =>
           \E e \in DOMAIN trace :
               /\ OfType(trace, "RunEnded") = {e}
               /\ ended = <<trace[e].result>>
               /\ \A i \in e + 1 .. Len(trace) : trace[i].type \in Amendments
    /\ Len(ended) = 2 =>
           \E e, f \in DOMAIN trace : e < f /\ OfType(trace, "RunEnded") = {e, f}

\* A decision was journaled for every call of the planner that was counted; a
\* call that raises may have been journaled, too.
CallsTold ==
    Cardinality(OfType(trace, "ModelDecided")) \in
        budget.llm_calls .. budget.llm_calls + (IF pc = "closed" THEN 1 ELSE 0)

EscalationTold ==
    verdict = "escalate" \/ confirmed > 0 => Decisions(trace, "escalate") # {}

\* The move under way names an output if it is a reading.
Proposed ==
    pc \in {"check_policy", "act", "verify"} =>
        pending.kind = "read" <=> pending.output # None

ReadTurns(turns) == {i \in DOMAIN turns : turns[i].output # None}

\* A reading is journaled before its turn is recorded.
ReadingsTold ==
    Cardinality(ReadTurns(history))
        + (IF pc = "verify" /\ pending.kind = "read" THEN 1 ELSE 0)
    <= Cardinality(ReadResults(trace))

\* No two attempts are of one decision.
AttemptsDiffer ==
    /\ \A i \in Attempts : trace[i].step \in 1 .. budget.llm_calls
    /\ \A i, j \in Attempts : trace[i].step = trace[j].step => i = j
    /\ pc \in {"check_policy", "act"} =>
           budget.llm_calls > 0 /\ \A i \in Attempts : trace[i].step # budget.llm_calls

\* An attempt names an output if it is a reading, and a redacting journal
\* leaves no reading legible.
ReadingsNamed ==
    \A i \in Attempts :
        /\ trace[i].kind = "read" <=> trace[i].output # None
        /\ redacting /\ trace[i].kind = "read" => ~trace[i].legible

Telling == /\ trace \in Seq(Entries) /\ EndTold /\ CallsTold /\ EscalationTold
           /\ Proposed /\ ReadingsTold /\ AttemptsDiffer /\ ReadingsNamed

\* The dictionaries of a pass over the journal so far.
Dicts == Pass(trace)

\* The run has not failed, or can still be taken up.
Going == \/ pc \in {"observe", "decide", "check_policy", "act", "verify"}
         \/ Escalating /\ pc # "closed"
         \/ status = "goal_reached"

\* The lookups of the compiler find what they look for.
Found ==
    /\ observation # None => observation \in DOMAIN Dicts.observed
    /\ pc \in {"check_policy", "act", "verify"} =>
           observation # None /\ budget.llm_calls \in Dicts.decisions
    /\ \A n \in DOMAIN Dicts.actions :
           /\ Dicts.actions[n].page \in DOMAIN Dicts.observed
           /\ Dicts.actions[n].step \in Dicts.decisions
           /\ Dicts.actions[n].step \in 1 .. budget.llm_calls
           /\ pc \in {"check_policy", "act"} => Dicts.actions[n].step # budget.llm_calls
    /\ Reconstructed => Dicts.metadata

\* As long as the run is going, the actions of the pass are the turns of the
\* agent and the one under way.
Matched ==
    Going =>
        /\ Len(Dicts.actions) = Len(history) + (IF pc = "verify" THEN 1 ELSE 0)
        /\ \A n \in DOMAIN history :
               LET action == Dicts.actions[n]
               IN /\ action.key = history[n].key /\ action.output = history[n].output
                  /\ action.step \in DOMAIN Dicts.post_roots
                  /\ (action.page # Dicts.post_roots[action.step]) = history[n].changed
                  /\ pc = "verify" => action.step # budget.llm_calls
        /\ pc = "verify" =>
               LET action == Dicts.actions[Len(Dicts.actions)]
               IN /\ action.step = budget.llm_calls /\ Dicts.last_step = budget.llm_calls
                  /\ action.key = pending.key /\ action.output = pending.output
                  /\ action.page = observation
        /\ pc # "verify" => Dicts.last_step = 0

\* What reaches the goal is a reading, and has a turn.
GoalTold ==
    status = "goal_reached" => history # <<>> /\ history[Len(history)].output # None

Compiling == Found /\ Matched /\ GoalTold

RecordedInv == IInv /\ Telling /\ Compiling

-----------------------------------------------------------------------------
(* One pass over a journal.  A natural number is reached from 0 one by     *)
(* one: that any set of them has a least one makes it a fact about sets,   *)
(* and so a pass over a journal of any length can be reasoned about.       *)

\* The order of the natural numbers as a relation.
Below == {ss \in Nat \X Nat : ss[1] < ss[2]}

\* A nonempty set of natural numbers has a least element.
LEMMA LeastNatural ==
    ASSUME NEW T \in SUBSET Nat, T # {}
    PROVE  \E m \in T : \A k \in T : m <= k
<1>1. IsWellFoundedOn(Below, Nat)
  BY NatLessThanWellFounded DEF OpToRel, Below
<1>2. PICK m \in T : \A k \in T : <<k, m>> \notin Below
  BY <1>1, WFMin
<1>3. ASSUME NEW k \in T PROVE m <= k
  <2>1. <<k, m>> \in Nat \X Nat /\ <<k, m>>[1] = k /\ <<k, m>>[2] = m
    OBVIOUS
  <2>2. ~(<<k, m>>[1] < <<k, m>>[2])
    BY <1>2, <2>1 DEF Below
  <2> QED
    BY <2>1, <2>2
<1> QED
  BY <1>3

\* A set that has 0, and with a number the next one, has them all.
LEMMA NaturalsReached ==
    ASSUME NEW S, 0 \in S, \A n \in Nat : n \in S => n + 1 \in S
    PROVE  Nat \subseteq S
<1> SUFFICES ASSUME Nat \ S # {} PROVE FALSE
  OBVIOUS
<1>1. PICK m \in Nat \ S : \A k \in Nat \ S : m <= k
  BY LeastNatural
<1>2. m - 1 \in Nat /\ m - 1 \in S
  BY <1>1
<1> QED
  BY <1>1, <1>2

\* d has the dictionaries after each of the first m records.
Passes(d, s, m) == d = [n \in 0 .. m |-> IF n = 0 THEN Blank ELSE Read(d[n - 1], s[n])]

\* There are such dictionaries.
LEMMA PassesExist ==
    ASSUME NEW s
    PROVE  \A m \in Nat : \E d : Passes(d, s, m)
<1> DEFINE P(m) == \E d : Passes(d, s, m)
           S == {m \in Nat : P(m)}
<1>1. P(0)
  <2> DEFINE d == [n \in 0 .. 0 |-> Blank]
  <2>1. Passes(d, s, 0)
    BY DEF Passes
  <2> QED
    BY <2>1
<1>2. ASSUME NEW m \in Nat, P(m) PROVE P(m + 1)
  <2>1. PICK d : Passes(d, s, m)
    BY <1>2
  <2> DEFINE e == [n \in 0 .. m + 1 |-> IF n = m + 1 THEN Read(d[m], s[m + 1]) ELSE d[n]]
  <2>2. \A n \in 0 .. m : d[n] = IF n = 0 THEN Blank ELSE Read(d[n - 1], s[n])
    BY <2>1 DEF Passes
  <2>3. \A n \in 0 .. m + 1 : e[n] = IF n = 0 THEN Blank ELSE Read(e[n - 1], s[n])
    BY <2>2
  <2>4. Passes(e, s, m + 1)
    BY <2>3 DEF Passes
  <2> QED
    BY <2>4
<1> HIDE DEF P
<1>3. 0 \in S
  BY <1>1
<1>4. \A n \in Nat : n \in S => n + 1 \in S
  BY <1>2
<1> HIDE DEF S
<1>5. Nat \subseteq S
  BY <1>3, <1>4, NaturalsReached
<1> QED
  BY <1>5 DEF S, P

\* ... and they are the only ones.
LEMMA PassesUnique ==
    ASSUME NEW s, NEW l \in Nat, NEW d, NEW e, Passes(d, s, l), Passes(e, s, l)
    PROVE  \A m \in 0 .. l : d[m] = e[m]
<1> DEFINE P(m) == m <= l => d[m] = e[m]
           S == {m \in Nat : P(m)}
<1>1. \A n \in 0 .. l : d[n] = IF n = 0 THEN Blank ELSE Read(d[n - 1], s[n])
  BY DEF Passes
<1>2. \A n \in 0 .. l : e[n] = IF n = 0 THEN Blank ELSE Read(e[n - 1], s[n])
  BY DEF Passes
<1>3. P(0)
  BY <1>1, <1>2
<1>4. ASSUME NEW m \in Nat, P(m) PROVE P(m + 1)
  BY <1>1, <1>2, <1>4
<1> HIDE DEF P
<1>5. 0 \in S
  BY <1>3
<1>6. \A n \in Nat : n \in S => n + 1 \in S
  BY <1>4
<1> HIDE DEF S
<1>7. Nat \subseteq S
  BY <1>5, <1>6, NaturalsReached
<1> QED
  BY <1>7 DEF S, P

\* A pass goes from record to record.
LEMMA PassGoesOn ==
    ASSUME NEW s, Len(s) \in Nat
    PROVE  \E d : /\ d[0] = Blank
                  /\ \A n \in 1 .. Len(s) : d[n] = Read(d[n - 1], s[n])
                  /\ Pass(s) = d[Len(s)]
<1> DEFINE d == CHOOSE dicts : Passes(dicts, s, Len(s))
<1>1. Passes(d, s, Len(s))
  BY PassesExist
<1>2. Pass(s) = d[Len(s)]
  BY DEF Pass, Passes
<1> HIDE DEF d
<1>3. \A n \in 0 .. Len(s) : d[n] = IF n = 0 THEN Blank ELSE Read(d[n - 1], s[n])
  BY <1>1 DEF Passes
<1> QED
  BY <1>2, <1>3

\* A record that is appended is read last.
LEMMA PassAppend ==
    ASSUME NEW E, NEW s \in Seq(E), NEW x \in E
    PROVE  Pass(Append(s, x)) = Read(Pass(s), x)
<1> DEFINE t == Append(s, x)
<1>1. /\ Len(t) = Len(s) + 1 /\ t[Len(s) + 1] = x /\ Len(s) \in Nat
      /\ \A n \in 1 .. Len(s) : t[n] = s[n]
  OBVIOUS
<1> HIDE DEF t
<1> DEFINE d == CHOOSE dicts : Passes(dicts, s, Len(s))
<1>2. Passes(d, s, Len(s))
  BY <1>1, PassesExist
<1>3. Pass(s) = d[Len(s)]
  BY DEF Pass, Passes
<1> HIDE DEF d
<1>4. \A n \in 0 .. Len(s) : d[n] = IF n = 0 THEN Blank ELSE Read(d[n - 1], s[n])
  BY <1>2 DEF Passes
<1> DEFINE e == [n \in 0 .. Len(s) + 1 |-> IF n = Len(s) + 1 THEN Read(d[Len(s)], x) ELSE d[n]]
<1>5. \A n \in 0 .. Len(s) + 1 : e[n] = IF n = 0 THEN Blank ELSE Read(e[n - 1], t[n])
  BY <1>1, <1>4
<1>6. Passes(e, t, Len(t))
  BY <1>1, <1>5 DEF Passes
<1> DEFINE g == CHOOSE dicts : Passes(dicts, t, Len(t))
<1>7. Passes(g, t, Len(t))
  BY <1>6
<1>8. Pass(t) = g[Len(t)]
  BY DEF Pass, Passes
<1>9. e[Len(s) + 1] = Read(d[Len(s)], x)
  BY <1>1
<1> HIDE DEF g, e
<1>10. g[Len(t)] = e[Len(t)]
  <2>1. Len(t) \in Nat /\ Len(t) \in 0 .. Len(t)
    BY <1>1
  <2>2. \A m \in 0 .. Len(t) : g[m] = e[m]
    BY <1>6, <1>7, <2>1, PassesUnique
  <2> QED
    BY <2>1, <2>2
<1> QED
  BY <1>1, <1>3, <1>8, <1>9, <1>10 DEF t

-----------------------------------------------------------------------------
(* What one record adds                                                    *)

IsDicts(d) ==
    /\ d = [observed |-> d.observed, decisions |-> d.decisions, policies |-> d.policies,
            post_roots |-> d.post_roots, actions |-> d.actions, last_step |-> d.last_step,
            metadata |-> d.metadata]
    /\ d.actions \in Seq(Entries)

\* What each dictionary has after one more record.
ReadsOne(d, r, e) ==
    /\ IsDicts(e)
    /\ e.observed = IF r.type = "Observed" THEN Put(d.observed, r.page, r.id) ELSE d.observed
    /\ e.decisions = IF r.type = "ModelDecided" THEN d.decisions \cup {r.step} ELSE d.decisions
    /\ e.policies = IF r.type = "PolicyDecision" /\ r.verdict = "allow"
                    THEN Put(d.policies, r.page, r.rule) ELSE d.policies
    /\ e.post_roots = IF r.type = "Observed" /\ d.last_step # 0
                      THEN Put(d.post_roots, d.last_step, r.page) ELSE d.post_roots
    /\ e.actions = IF r.type = "ActionAttempted" THEN Append(d.actions, r) ELSE d.actions
    /\ e.last_step = IF r.type = "Observed" THEN 0
                     ELSE IF r.type = "ActionAttempted" THEN r.step ELSE d.last_step
    /\ e.metadata = IF r.type = "TargetMetadataReconstructed" THEN TRUE ELSE d.metadata

LEMMA ReadOne ==
    ASSUME NEW d, IsDicts(d), NEW r \in Entries
    PROVE  ReadsOne(d, r, Read(d, r))
<1> DEFINE e == Read(d, r)
<1>1. CASE r.type = "Observed"
  <2>1. e = [observed |-> Put(d.observed, r.page, r.id), decisions |-> d.decisions,
             policies |-> d.policies,
             post_roots |-> IF d.last_step = 0 THEN d.post_roots
                            ELSE Put(d.post_roots, d.last_step, r.page),
             actions |-> d.actions, last_step |-> 0, metadata |-> d.metadata]
    BY <1>1 DEF Read, IsDicts
  <2> QED
    BY <1>1, <2>1 DEF ReadsOne, IsDicts
<1>2. CASE r.type = "ModelDecided"
  <2>1. e = [observed |-> d.observed, decisions |-> d.decisions \cup {r.step},
             policies |-> d.policies, post_roots |-> d.post_roots,
             actions |-> d.actions, last_step |-> d.last_step, metadata |-> d.metadata]
    BY <1>2 DEF Read, IsDicts
  <2> QED
    BY <1>2, <2>1 DEF ReadsOne, IsDicts
<1>3. CASE r.type = "PolicyDecision" /\ r.verdict = "allow"
  <2>1. e = [observed |-> d.observed, decisions |-> d.decisions,
             policies |-> Put(d.policies, r.page, r.rule), post_roots |-> d.post_roots,
             actions |-> d.actions, last_step |-> d.last_step, metadata |-> d.metadata]
    BY <1>3 DEF Read, IsDicts
  <2> QED
    BY <1>3, <2>1 DEF ReadsOne, IsDicts
<1>4. CASE r.type = "ActionAttempted"
  <2>1. e = [observed |-> d.observed, decisions |-> d.decisions,
             policies |-> d.policies, post_roots |-> d.post_roots,
             actions |-> Append(d.actions, r), last_step |-> r.step, metadata |-> d.metadata]
    BY <1>4 DEF Read, IsDicts
  <2>2. Append(d.actions, r) \in Seq(Entries)
    BY DEF IsDicts
  <2> QED
    BY <1>4, <2>1, <2>2 DEF ReadsOne, IsDicts
<1>5. CASE r.type = "TargetMetadataReconstructed"
  <2>1. e = [observed |-> d.observed, decisions |-> d.decisions,
             policies |-> d.policies, post_roots |-> d.post_roots,
             actions |-> d.actions, last_step |-> d.last_step, metadata |-> TRUE]
    BY <1>5 DEF Read, IsDicts
  <2> QED
    BY <1>5, <2>1 DEF ReadsOne, IsDicts
<1>6. CASE /\ r.type \notin {"Observed", "ModelDecided", "ActionAttempted",
                             "TargetMetadataReconstructed"}
           /\ ~(r.type = "PolicyDecision" /\ r.verdict = "allow")
  <2>1. e = d
    BY <1>6 DEF Read
  <2> QED
    BY <1>6, <2>1 DEF ReadsOne, IsDicts
<1> QED
  BY <1>1, <1>2, <1>3, <1>4, <1>5, <1>6

\* Any pass gives dictionaries.
LEMMA PassIsDicts ==
    ASSUME NEW s \in Seq(Entries)
    PROVE  IsDicts(Pass(s))
<1>1. PICK d : /\ d[0] = Blank
               /\ \A n \in 1 .. Len(s) : d[n] = Read(d[n - 1], s[n])
               /\ Pass(s) = d[Len(s)]
  BY PassGoesOn
<1>2. \A n \in 1 .. Len(s) : s[n] \in Entries
  BY ElementOfSeq
<1> DEFINE P(m) == m <= Len(s) => IsDicts(d[m])
           S == {m \in Nat : P(m)}
<1>3. P(0)
  BY <1>1 DEF Blank, IsDicts
<1>4. ASSUME NEW m \in Nat, P(m) PROVE P(m + 1)
  <2> SUFFICES ASSUME m + 1 <= Len(s) PROVE IsDicts(d[m + 1])
    OBVIOUS
  <2>1. d[m + 1] = Read(d[m], s[m + 1]) /\ s[m + 1] \in Entries /\ IsDicts(d[m])
    BY <1>1, <1>2, <1>4
  <2> QED
    BY <2>1, ReadOne DEF ReadsOne
<1> HIDE DEF P
<1>5. 0 \in S
  BY <1>3
<1>6. \A n \in Nat : n \in S => n + 1 \in S
  BY <1>4
<1> HIDE DEF S
<1>7. Nat \subseteq S
  BY <1>5, <1>6, NaturalsReached
<1>8. P(Len(s))
  BY <1>7 DEF S
<1> QED
  BY <1>1, <1>8 DEF P

\* What a journal tells: calls of the planner and readings.
Called(s) == Cardinality(OfType(s, "ModelDecided"))
Answered(s) == Cardinality(ReadResults(s))

\* t is s and tells more: so many ends, calls, readings, attempts and targets.
More(s, t, ends, calls, readings, attempts, targets) ==
    /\ t \in Seq(Entries)
    /\ Len(s) <= Len(t) /\ \A i \in 1 .. Len(s) : t[i] = s[i]
    /\ OfType(t, "RunEnded") = OfType(s, "RunEnded") \cup ends
    /\ Called(t) = Called(s) + calls
    /\ Answered(t) = Answered(s) + readings
    /\ OfType(t, "ActionAttempted") = OfType(s, "ActionAttempted") \cup attempts
    /\ OfType(t, "TargetMetadataReconstructed") =
           OfType(s, "TargetMetadataReconstructed") \cup targets
    /\ Decisions(s, "escalate") \subseteq Decisions(t, "escalate")

\* Positions are a finite set.
LEMMA Tallies ==
    ASSUME NEW s \in Seq(Entries)
    PROVE  /\ IsFiniteSet(OfType(s, "ModelDecided")) /\ Called(s) \in Nat
           /\ IsFiniteSet(ReadResults(s)) /\ Answered(s) \in Nat
           /\ IsFiniteSet(Decisions(s, "escalate"))
           /\ IsFiniteSet(OfType(s, "ActionAttempted"))
<1>1. IsFiniteSet(1 .. Len(s)) /\ DOMAIN s = 1 .. Len(s)
  BY FS_Interval
<1>2. /\ OfType(s, "ModelDecided") \subseteq 1 .. Len(s)
      /\ ReadResults(s) \subseteq 1 .. Len(s)
      /\ Decisions(s, "escalate") \subseteq 1 .. Len(s)
      /\ OfType(s, "ActionAttempted") \subseteq 1 .. Len(s)
  BY <1>1 DEF OfType, ReadResults, Decisions
<1>3. /\ IsFiniteSet(OfType(s, "ModelDecided"))
      /\ IsFiniteSet(ReadResults(s))
      /\ IsFiniteSet(Decisions(s, "escalate"))
      /\ IsFiniteSet(OfType(s, "ActionAttempted"))
  BY <1>1, <1>2, FS_Subset
<1> QED
  BY <1>3, FS_CardinalityType DEF Called, Answered

\* One record more.
LEMMA OneMore ==
    ASSUME NEW s \in Seq(Entries), NEW r \in Entries
    PROVE  /\ More(s, Append(s, r),
                   IF r.type = "RunEnded" THEN {Len(s) + 1} ELSE {},
                   IF r.type = "ModelDecided" THEN 1 ELSE 0,
                   IF r.type = "ActionResult" /\ r.kind = "read" THEN 1 ELSE 0,
                   IF r.type = "ActionAttempted" THEN {Len(s) + 1} ELSE {},
                   IF r.type = "TargetMetadataReconstructed" THEN {Len(s) + 1} ELSE {})
           /\ r.type = "PolicyDecision" /\ r.verdict = "escalate" =>
                  Decisions(Append(s, r), "escalate") # {}
           /\ Len(Append(s, r)) = Len(s) + 1 /\ Append(s, r)[Len(s) + 1] = r
           /\ ReadsOne(Pass(s), r, Pass(Append(s, r)))
<1> DEFINE t == Append(s, r)
           m == Len(s) + 1
<1>1. /\ t \in Seq(Entries) /\ Len(t) = m /\ t[m] = r /\ Len(s) \in Nat
      /\ \A n \in 1 .. Len(s) : t[n] = s[n]
      /\ DOMAIN s = 1 .. Len(s) /\ DOMAIN t = 1 .. m
  OBVIOUS
<1>2. ReadsOne(Pass(s), r, Pass(t))
  BY PassAppend, PassIsDicts, ReadOne
<1> HIDE DEF t
<1>3. \A type : OfType(t, type) = OfType(s, type) \cup (IF r.type = type THEN {m} ELSE {})
  BY <1>1 DEF OfType
<1>4. /\ Decisions(s, "escalate") \subseteq Decisions(t, "escalate")
      /\ r.type = "PolicyDecision" /\ r.verdict = "escalate" => m \in Decisions(t, "escalate")
  BY <1>1 DEF Decisions, OfType
<1>5. ReadResults(t) = ReadResults(s) \cup
          (IF r.type = "ActionResult" /\ r.kind = "read" THEN {m} ELSE {})
  BY <1>1 DEF ReadResults, OfType
<1>6. m \notin OfType(s, "ModelDecided") /\ m \notin ReadResults(s)
  BY <1>1 DEF OfType, ReadResults
<1>7. Called(t) = Called(s) + (IF r.type = "ModelDecided" THEN 1 ELSE 0)
  <2>1. CASE r.type = "ModelDecided"
    <3>1. OfType(t, "ModelDecided") = OfType(s, "ModelDecided") \cup {m}
      BY <1>3, <2>1
    <3> QED
      BY <1>6, <2>1, <3>1, Tallies, FS_AddElement DEF Called
  <2>2. CASE r.type # "ModelDecided"
    <3>1. OfType(t, "ModelDecided") = OfType(s, "ModelDecided")
      BY <1>3, <2>2
    <3> QED
      BY <2>2, <3>1, Tallies DEF Called
  <2> QED
    BY <2>1, <2>2
<1>8. Answered(t) = Answered(s) + (IF r.type = "ActionResult" /\ r.kind = "read" THEN 1 ELSE 0)
  <2>1. CASE r.type = "ActionResult" /\ r.kind = "read"
    <3>1. ReadResults(t) = ReadResults(s) \cup {m}
      BY <1>5, <2>1
    <3> QED
      BY <1>6, <2>1, <3>1, Tallies, FS_AddElement DEF Answered
  <2>2. CASE ~(r.type = "ActionResult" /\ r.kind = "read")
    <3>1. ReadResults(t) = ReadResults(s)
      BY <1>5, <2>2
    <3> QED
      BY <2>2, <3>1, Tallies DEF Answered
  <2> QED
    BY <2>1, <2>2
<1>9. /\ OfType(t, "RunEnded") =
             OfType(s, "RunEnded") \cup (IF r.type = "RunEnded" THEN {m} ELSE {})
      /\ OfType(t, "ActionAttempted") =
             OfType(s, "ActionAttempted") \cup (IF r.type = "ActionAttempted" THEN {m} ELSE {})
      /\ OfType(t, "TargetMetadataReconstructed") =
             OfType(s, "TargetMetadataReconstructed")
                 \cup (IF r.type = "TargetMetadataReconstructed" THEN {m} ELSE {})
  BY <1>3
<1>10. More(s, t, IF r.type = "RunEnded" THEN {m} ELSE {},
            IF r.type = "ModelDecided" THEN 1 ELSE 0,
            IF r.type = "ActionResult" /\ r.kind = "read" THEN 1 ELSE 0,
            IF r.type = "ActionAttempted" THEN {m} ELSE {},
            IF r.type = "TargetMetadataReconstructed" THEN {m} ELSE {})
  BY <1>1, <1>4, <1>7, <1>8, <1>9 DEF More
<1> QED
  BY <1>1, <1>2, <1>4, <1>10 DEF t

\* Two parts of a journal tell what each of them tells.
LEMMA MoreAndMore ==
    ASSUME NEW s \in Seq(Entries), NEW t, NEW u,
           NEW e, NEW c \in Nat, NEW r \in Nat, NEW a, NEW m, More(s, t, e, c, r, a, m),
           NEW ee, NEW cc \in Nat, NEW rr \in Nat, NEW aa, NEW mm, More(t, u, ee, cc, rr, aa, mm)
    PROVE  More(s, u, e \cup ee, c + cc, r + rr, a \cup aa, m \cup mm)
<1>1. t \in Seq(Entries) /\ u \in Seq(Entries)
  BY DEF More
<1>2. Called(s) \in Nat /\ Answered(s) \in Nat
  BY Tallies
<1>3. Called(u) = Called(s) + (c + cc) /\ Answered(u) = Answered(s) + (r + rr)
  BY <1>2 DEF More
<1>4. Len(s) <= Len(u) /\ \A i \in 1 .. Len(s) : u[i] = s[i]
  BY <1>1 DEF More
<1> QED
  BY <1>1, <1>3, <1>4 DEF More

-----------------------------------------------------------------------------
(* What the records of each kind tell                                      *)

\* The dictionaries but for the rules, which no lookup has to find.
Same(d, e) ==
    /\ IsDicts(e) /\ DOMAIN e.observed = DOMAIN d.observed /\ e.decisions = d.decisions
    /\ e.post_roots = d.post_roots /\ e.actions = d.actions /\ e.last_step = d.last_step
    /\ e.metadata = d.metadata

SeesPage(d, page, e) ==
    /\ IsDicts(e) /\ DOMAIN e.observed = DOMAIN d.observed \cup {page}
    /\ e.decisions = d.decisions
    /\ e.post_roots = IF d.last_step = 0 THEN d.post_roots
                      ELSE Put(d.post_roots, d.last_step, page)
    /\ e.actions = d.actions /\ e.last_step = 0 /\ e.metadata = d.metadata

Decides(d, step, e) ==
    /\ IsDicts(e) /\ DOMAIN e.observed = DOMAIN d.observed
    /\ e.decisions = d.decisions \cup {step}
    /\ e.post_roots = d.post_roots /\ e.actions = d.actions /\ e.last_step = d.last_step
    /\ e.metadata = d.metadata

Tries(d, attempt, e) ==
    /\ IsDicts(e) /\ DOMAIN e.observed = DOMAIN d.observed /\ e.decisions = d.decisions
    /\ e.post_roots = d.post_roots /\ e.actions = Append(d.actions, attempt)
    /\ e.last_step = attempt.step /\ e.metadata = d.metadata

LEMMA TellsObserved ==
    ASSUME NEW s \in Seq(Entries), NEW page \in Pages, NEW id \in Nat
    PROVE  LET t == Append(s, Observed(page, id))
           IN More(s, t, {}, 0, 0, {}, {}) /\ SeesPage(Pass(s), page, Pass(t))
<1> DEFINE r == Observed(page, id)
           t == Append(s, r)
<1>1. /\ r \in Entries /\ r.type = "Observed" /\ r.page = page
  BY DEF Entries, Observed
<1> HIDE DEF r
<1>2. More(s, t, {}, 0, 0, {}, {}) /\ ReadsOne(Pass(s), r, Pass(t))
  BY <1>1, OneMore
<1>3. SeesPage(Pass(s), page, Pass(t))
  BY <1>1, <1>2 DEF ReadsOne, SeesPage, Put
<1> QED
  BY <1>2, <1>3 DEF r

LEMMA TellsDecided ==
    ASSUME NEW s \in Seq(Entries), NEW step \in Nat
    PROVE  LET t == Append(s, Decided(step))
           IN More(s, t, {}, 1, 0, {}, {}) /\ Decides(Pass(s), step, Pass(t))
<1> DEFINE r == Decided(step)
           t == Append(s, r)
<1>1. /\ r \in Entries /\ r.type = "ModelDecided" /\ r.step = step
  BY DEF Entries, Decided
<1> HIDE DEF r
<1>2. More(s, t, {}, 1, 0, {}, {}) /\ ReadsOne(Pass(s), r, Pass(t))
  BY <1>1, OneMore
<1>3. Decides(Pass(s), step, Pass(t))
  BY <1>1, <1>2 DEF ReadsOne, Decides
<1> QED
  BY <1>2, <1>3 DEF r

LEMMA TellsJudged ==
    ASSUME NEW s \in Seq(Entries), NEW page \in Pages \cup {None},
           NEW decided \in {"allow", "deny", "escalate"}, NEW rule \in Rules
    PROVE  LET t == Append(s, Judged(page, decided, rule))
           IN /\ More(s, t, {}, 0, 0, {}, {}) /\ Same(Pass(s), Pass(t))
              /\ decided = "escalate" => Decisions(t, "escalate") # {}
<1> DEFINE r == Judged(page, decided, rule)
           t == Append(s, r)
<1>1. r \in Entries
  BY DEF Entries, Judged
<1>2. r.type = "PolicyDecision" /\ r.page = page /\ r.verdict = decided
  BY DEF Judged
<1> HIDE DEF r
<1>3. /\ More(s, t, {}, 0, 0, {}, {}) /\ ReadsOne(Pass(s), r, Pass(t))
      /\ decided = "escalate" => Decisions(t, "escalate") # {}
  BY <1>1, <1>2, OneMore
<1>4. Same(Pass(s), Pass(t))
  BY <1>2, <1>3 DEF ReadsOne, Same
<1> QED
  BY <1>3, <1>4 DEF r

LEMMA TellsAttempted ==
    ASSUME NEW s \in Seq(Entries), NEW r \in Entries, r.type = "ActionAttempted"
    PROVE  LET t == Append(s, r)
           IN /\ More(s, t, {}, 0, 0, {Len(s) + 1}, {}) /\ Tries(Pass(s), r, Pass(t))
              /\ t[Len(s) + 1] = r
<1> DEFINE t == Append(s, r)
<1>1. /\ More(s, t, {}, 0, 0, {Len(s) + 1}, {}) /\ ReadsOne(Pass(s), r, Pass(t))
      /\ t[Len(s) + 1] = r
  BY OneMore
<1>2. Tries(Pass(s), r, Pass(t))
  BY <1>1 DEF ReadsOne, Tries
<1> QED
  BY <1>1, <1>2

LEMMA TellsPerformed ==
    ASSUME NEW s \in Seq(Entries), NEW move, move.kind \in Kinds, NEW valued \in BOOLEAN
    PROVE  LET t == Append(s, Performed(move, valued))
           IN /\ More(s, t, {}, 0, IF move.kind = "read" THEN 1 ELSE 0, {}, {})
              /\ Same(Pass(s), Pass(t))
<1> DEFINE r == Performed(move, valued)
           t == Append(s, r)
<1>1. r \in Entries
  BY DEF Entries, Performed
<1>2. r.type = "ActionResult" /\ r.kind = move.kind
  BY DEF Performed
<1> HIDE DEF r
<1>3. /\ More(s, t, {}, 0, IF move.kind = "read" THEN 1 ELSE 0, {}, {})
      /\ ReadsOne(Pass(s), r, Pass(t))
  BY <1>1, <1>2, OneMore
<1>4. Same(Pass(s), Pass(t))
  BY <1>2, <1>3 DEF ReadsOne, Same
<1> QED
  BY <1>3, <1>4 DEF r

LEMMA TellsEnd ==
    ASSUME NEW s \in Seq(Entries), NEW result \in {"success", "hard_failure"}
    PROVE  LET t == Append(s, [type |-> "RunEnded", result |-> result])
           IN /\ More(s, t, {Len(s) + 1}, 0, 0, {}, {}) /\ Same(Pass(s), Pass(t))
              /\ Len(t) = Len(s) + 1 /\ t[Len(s) + 1].result = result
<1> DEFINE r == [type |-> "RunEnded", result |-> result]
           t == Append(s, r)
<1>1. r \in Entries
  BY DEF Entries
<1>2. r.type = "RunEnded" /\ r.result = result
  OBVIOUS
<1> HIDE DEF r
<1>3. /\ More(s, t, {Len(s) + 1}, 0, 0, {}, {})
      /\ ReadsOne(Pass(s), r, Pass(t))
      /\ Len(t) = Len(s) + 1 /\ t[Len(s) + 1] = r
  BY <1>1, <1>2, OneMore
<1>4. Same(Pass(s), Pass(t))
  BY <1>2, <1>3 DEF ReadsOne, Same
<1> QED
  BY <1>2, <1>3, <1>4 DEF r

LEMMA TellsOther ==
    ASSUME NEW s \in Seq(Entries), NEW type \in Silent
    PROVE  LET t == Append(s, Other(type))
           IN /\ More(s, t, {}, 0, 0, {}, {}) /\ Same(Pass(s), Pass(t))
              /\ Len(t) = Len(s) + 1 /\ t[Len(s) + 1].type = type
<1> DEFINE r == Other(type)
           t == Append(s, r)
<1>1. r \in Entries
  BY DEF Entries, Other
<1>2. /\ r.type = type
      /\ type \notin {"RunEnded", "ModelDecided", "ActionResult", "ActionAttempted",
                      "Observed", "PolicyDecision", "TargetMetadataReconstructed"}
  BY DEF Silent, Other
<1> HIDE DEF r
<1>3. /\ More(s, t, {}, 0, 0, {}, {}) /\ ReadsOne(Pass(s), r, Pass(t))
      /\ Len(t) = Len(s) + 1 /\ t[Len(s) + 1] = r
  BY <1>1, <1>2, OneMore
<1>4. Same(Pass(s), Pass(t))
  BY <1>2, <1>3 DEF ReadsOne, Same
<1> QED
  BY <1>2, <1>3, <1>4 DEF r

LEMMA TellsTarget ==
    ASSUME NEW s \in Seq(Entries)
    PROVE  LET t == Append(s, Other("TargetMetadataReconstructed"))
               d == Pass(s)
               e == Pass(t)
           IN /\ More(s, t, {}, 0, 0, {}, {Len(s) + 1})
              /\ Len(t) = Len(s) + 1 /\ t[Len(s) + 1].type = "TargetMetadataReconstructed"
              /\ IsDicts(e) /\ DOMAIN e.observed = DOMAIN d.observed
              /\ e.decisions = d.decisions /\ e.post_roots = d.post_roots
              /\ e.actions = d.actions /\ e.last_step = d.last_step /\ e.metadata
<1> DEFINE r == Other("TargetMetadataReconstructed")
           t == Append(s, r)
<1>1. r \in Entries
  BY DEF Entries, Other
<1>2. r.type = "TargetMetadataReconstructed"
  BY DEF Other
<1> HIDE DEF r
<1>3. /\ More(s, t, {}, 0, 0, {}, {Len(s) + 1}) /\ ReadsOne(Pass(s), r, Pass(t))
      /\ Len(t) = Len(s) + 1 /\ t[Len(s) + 1] = r
  BY <1>1, <1>2, OneMore
<1> QED
  BY <1>2, <1>3 DEF ReadsOne, r

\* Records of a handoff are silent, however many there are.
LEMMA TellsHandoff ==
    ASSUME NEW s \in Seq(Entries), NEW r \in Seq([type : Silent])
    PROVE  More(s, s \o r, {}, 0, 0, {}, {}) /\ Same(Pass(s), Pass(s \o r))
<1> DEFINE P(m) == \A q \in Seq([type : Silent]) :
                       Len(q) = m => /\ More(s, s \o q, {}, 0, 0, {}, {})
                                     /\ Same(Pass(s), Pass(s \o q))
           S == {m \in Nat : P(m)}
<1>1. P(0)
  <2> SUFFICES ASSUME NEW q \in Seq([type : Silent]), Len(q) = 0
               PROVE  More(s, s \o q, {}, 0, 0, {}, {}) /\ Same(Pass(s), Pass(s \o q))
    OBVIOUS
  <2>1. s \o q = s
    OBVIOUS
  <2>2. Called(s) \in Nat /\ Answered(s) \in Nat /\ IsDicts(Pass(s))
    BY Tallies, PassIsDicts
  <2>3. Len(s) \in Nat
    OBVIOUS
  <2>4. More(s, s, {}, 0, 0, {}, {})
    BY <2>2, <2>3 DEF More
  <2> QED
    BY <2>1, <2>2, <2>4 DEF Same
<1>2. ASSUME NEW m \in Nat, P(m) PROVE P(m + 1)
  <2> SUFFICES ASSUME NEW q \in Seq([type : Silent]), Len(q) = m + 1
               PROVE  More(s, s \o q, {}, 0, 0, {}, {}) /\ Same(Pass(s), Pass(s \o q))
    OBVIOUS
  <2> DEFINE p == SubSeq(q, 1, m)
             type == q[m + 1].type
             u == s \o p
  <2>0. \A i \in 1 .. m + 1 : q[i] \in [type : Silent]
    BY ElementOfSeq
  <2>1. p \in Seq([type : Silent]) /\ Len(p) = m
    <3>1. \A i \in 1 .. m : q[i] \in [type : Silent]
      BY <2>0
    <3> QED
      BY <3>1, SubSeqProperties
  <2>2. q[m + 1] \in [type : Silent]
    BY <2>0
  <2>3. type \in Silent /\ q[m + 1] = Other(type)
    BY <2>2 DEF Other
  <2>4. q = Append(p, q[m + 1])
    BY <2>1, <2>2
  <2>5. More(s, u, {}, 0, 0, {}, {}) /\ Same(Pass(s), Pass(u))
    BY <1>2, <2>1
  <2>6. u \in Seq(Entries)
    BY <2>5 DEF More
  <2>7. s \o q = Append(u, Other(type))
    <3>1. [type : Silent] \subseteq Entries
      BY DEF Entries
    <3>2. p \in Seq(Entries) /\ q[m + 1] \in Entries
      BY <2>1, <2>2, <3>1, SeqMonotonic
    <3> HIDE DEF p
    <3>3. s \o Append(p, q[m + 1]) = Append(s \o p, q[m + 1])
      BY <3>2
    <3> QED
      BY <2>3, <2>4, <3>3
  <2> HIDE DEF u, type, p
  <2>8. More(u, s \o q, {}, 0, 0, {}, {}) /\ Same(Pass(u), Pass(s \o q))
    BY <2>3, <2>6, <2>7, TellsOther
  <2>9. More(s, s \o q, {} \cup {}, 0 + 0, 0 + 0, {} \cup {}, {} \cup {})
    BY <2>5, <2>8, MoreAndMore
  <2> QED
    BY <2>5, <2>8, <2>9 DEF Same
<1> HIDE DEF P
<1>3. 0 \in S
  BY <1>1
<1>4. \A n \in Nat : n \in S => n + 1 \in S
  BY <1>2
<1> HIDE DEF S
<1>5. Nat \subseteq S
  BY <1>3, <1>4, NaturalsReached
<1>6. Len(r) \in Nat
  OBVIOUS
<1>7. P(Len(r))
  BY <1>5, <1>6 DEF S
<1> QED
  BY <1>7 DEF P

-----------------------------------------------------------------------------
(* What each node and call journals                                        *)

Typed == TypeOK /\ trace \in Seq(Entries)

\* Nothing but silent records and decisions.
Quietly == More(trace, trace', {}, 0, 0, {}, {}) /\ Same(Dicts, Dicts')

\* The end, after so many calls of the planner.
TellsTheEnd(calls) ==
    /\ More(trace, trace', {Len(trace')}, calls, 0, {}, {})
    /\ Len(trace') \in DOMAIN trace' /\ Len(trace) < Len(trace')
    /\ ended' = Append(ended, trace'[Len(trace')].result)

\* Records journaled together are journaled one by one.
LEMMA JournalOne ==
    ASSUME NEW E, NEW s \in Seq(E), NEW a
    PROVE  s \o <<a>> = Append(s, a)
<1>1. s \in Seq(E \cup {a})
  BY SeqMonotonic
<1> QED
  BY <1>1

\* One element more, whatever it is.
LEMMA LongerByOne ==
    ASSUME NEW E, NEW s \in Seq(E), NEW a
    PROVE  Len(Append(s, a)) = Len(s) + 1
<1>1. s \in Seq(E \cup {a})
  BY SeqMonotonic
<1> QED
  BY <1>1

LEMMA JournalTwo ==
    ASSUME NEW E, NEW s \in Seq(E), NEW a, NEW b
    PROVE  s \o <<a, b>> = Append(Append(s, a), b)
<1>1. s \in Seq(E \cup {a, b})
  BY SeqMonotonic
<1> QED
  BY <1>1

LEMMA JournalThree ==
    ASSUME NEW E, NEW s \in Seq(E), NEW a, NEW b, NEW c
    PROVE  s \o <<a, b, c>> = Append(Append(Append(s, a), b), c)
<1>1. s \in Seq(E \cup {a, b, c})
  BY SeqMonotonic
<1> QED
  BY <1>1

LEMMA EndIsTold ==
    ASSUME Typed, NEW result \in {"success", "hard_failure"}, ended' = Append(ended, result),
           NEW t, NEW calls \in Nat, More(trace, t, {}, calls, 0, {}, {}),
           trace' = Append(t, Ended)
    PROVE  TellsTheEnd(calls) /\ Same(Pass(t), Dicts')
<1>1. ended \in Seq({"success", "hard_failure"}) /\ trace \in Seq(Entries) /\ t \in Seq(Entries)
  BY DEF Typed, TypeOK, More
<1>2. Ended = [type |-> "RunEnded", result |-> result]
  <2>1. ended'[Len(ended')] = result
    BY <1>1
  <2> QED
    BY <2>1 DEF Ended
<1>3. /\ More(t, trace', {Len(t) + 1}, 0, 0, {}, {}) /\ Same(Pass(t), Pass(trace'))
      /\ Len(trace') = Len(t) + 1 /\ trace'[Len(t) + 1].result = result
  BY <1>1, <1>2, TellsEnd
<1>4. More(trace, trace', {} \cup {Len(t) + 1}, calls + 0, 0 + 0, {} \cup {}, {} \cup {})
  BY <1>1, <1>3, MoreAndMore
<1>5. Len(trace') \in DOMAIN trace' /\ Len(trace) < Len(trace')
  <2>1. Len(trace) <= Len(t) /\ Len(trace) \in Nat /\ Len(t) \in Nat
    BY <1>1 DEF More
  <2> QED
    BY <1>1, <1>3, <2>1 DEF More
<1> QED
  BY <1>3, <1>4, <1>5 DEF TellsTheEnd, Dicts

\* Nothing more is no more.
LEMMA NothingMore ==
    ASSUME Typed
    PROVE  More(trace, trace, {}, 0, 0, {}, {}) /\ Same(Dicts, Dicts)
<1>1. trace \in Seq(Entries)
  BY DEF Typed
<1>2. Called(trace) \in Nat /\ Answered(trace) \in Nat /\ IsDicts(Dicts) /\ Len(trace) \in Nat
  BY <1>1, Tallies, PassIsDicts DEF Dicts
<1> QED
  BY <1>1, <1>2 DEF More, Same

LEMMA ObserveTells ==
    ASSUME Typed, AtNodes, RecordedObserve
    PROVE  \/ trace' = trace /\ observation' = observation
           \/ /\ observation' \in Pages
              /\ More(trace, trace', {}, 0, 0, {}, {})
              /\ SeesPage(Dicts, observation', Dicts')
<1>1. trace \in Seq(Entries) /\ status = "running"
  BY DEF Typed, AtNodes, RecordedObserve, Observe
<1>2. CASE status' = "running"
  <2>1. observation' \in Pages
    BY <1>2 DEF RecordedObserve, Observe
  <2>2. trace' = Append(trace, Observed(observation', Len(trace) + 1))
    BY <1>1, <1>2, JournalOne DEF RecordedObserve, Journal
  <2>3. Len(trace) + 1 \in Nat
    BY <1>1
  <2> QED
    BY <1>1, <2>1, <2>2, <2>3, TellsObserved DEF Dicts
<1>3. CASE status' # "running"
  <2>1. observation' = observation
    BY <1>1, <1>3 DEF RecordedObserve, Observe
  <2>2. trace' = trace
    BY <1>1, <1>3 DEF RecordedObserve, Journal
  <2> QED
    BY <2>1, <2>2
<1> QED
  BY <1>2, <1>3

LEMMA DecideTells ==
    ASSUME Typed, TypeOK', RecordedDecide
    PROVE  \/ observation = None /\ trace' = trace
           \/ /\ observation # None
              /\ More(trace, trace', {}, 1, 0, {}, {})
              /\ Decides(Dicts, budget'.llm_calls, Dicts')
<1>1. trace \in Seq(Entries)
  BY DEF Typed
<1>2. CASE observation = None
  BY <1>1, <1>2 DEF RecordedDecide, Journal
<1>3. CASE observation # None
  <2>1. trace' = Append(trace, Decided(budget'.llm_calls))
    BY <1>1, <1>3, JournalOne DEF RecordedDecide, Journal
  <2>2. budget'.llm_calls \in Nat
    BY DEF TypeOK
  <2> QED
    BY <1>1, <1>3, <2>1, <2>2, TellsDecided DEF Dicts
<1> QED
  BY <1>2, <1>3

LEMMA CheckTells ==
    ASSUME Typed, TypeOK', RecordedCheck
    PROVE  Quietly /\ (verdict' = "escalate" => Decisions(trace', "escalate") # {})
<1>1. trace \in Seq(Entries)
  BY DEF Typed
<1>2. trace' = Append(trace, Judged(observation, verdict', RuleOf(pending.site)))
  BY <1>1, JournalOne DEF RecordedCheck, Journal
<1>3. observation \in Pages \cup {None} /\ pending.site \in Sites
  BY DEF Typed, TypeOK
<1>4. verdict' \in {"allow", "deny", "escalate"}
  BY Verdicts, DiscoveryAssumption DEF RecordedCheck, CheckPolicy, Typed, TypeOK
<1>5. RuleOf(pending.site) \in Rules
  <2>1. pending.site \in {"refused", "safe", "reversible", "irreversible"}
    BY <1>3 DEF Sites, Risks
  <2> QED
    BY <2>1 DEF RuleOf, Rules, DataEntry
<1> QED
  BY <1>1, <1>2, <1>3, <1>4, <1>5, TellsJudged DEF Quietly, Dicts

\* What an attempt journals: with its result, if it has one.
Attempting(readings) ==
    \E legible \in BOOLEAN :
        LET attempt == Attempted(observation, budget.llm_calls, pending, legible)
        IN /\ redacting /\ pending.kind = "read" => ~legible
           /\ More(trace, trace', {}, 0, readings, {Len(trace) + 1}, {})
           /\ trace'[Len(trace) + 1] = attempt
           /\ Tries(Dicts, attempt, Dicts')

LEMMA ActTells ==
    ASSUME Typed, RecordedAct
    PROVE  \/ status' = "policy_denied" /\ trace' = trace
           \/ status' = "surface_error" /\ Attempting(0)
           \/ Attempting(IF pending.kind = "read" THEN 1 ELSE 0)
<1>0. PICK legible \in BOOLEAN, valued \in BOOLEAN :
          LET attempt == Attempted(observation, budget.llm_calls, pending, legible)
          IN /\ Kept(legible, valued)
             /\ Journal(CASE status' = "policy_denied" -> <<>>
                          [] status' = "surface_error" -> <<attempt>>
                          [] OTHER -> <<attempt, Performed(pending, valued)>>)
  BY DEF RecordedAct
<1> DEFINE r == Attempted(observation, budget.llm_calls, pending, legible)
           t == Append(trace, r)
<1>1. /\ trace \in Seq(Entries) /\ observation \in Pages \cup {None}
      /\ budget.llm_calls \in Nat
      /\ pending.key \in Keys \cup {None} /\ pending.kind \in Kinds
      /\ pending.output \in Outputs \cup {None}
  BY DEF Typed, TypeOK
<1>2. /\ More(trace, t, {}, 0, 0, {Len(trace) + 1}, {}) /\ Tries(Pass(trace), r, Pass(t))
      /\ t[Len(trace) + 1] = r
  <2>1. legible \in BOOLEAN
    BY <1>0
  <2>2. r \in Entries /\ r.type = "ActionAttempted"
    BY <1>1, <2>1 DEF Attempted, Entries
  <2> HIDE DEF r
  <2> QED
    BY <1>1, <2>2, TellsAttempted
<1>3. CASE status' = "policy_denied"
  BY <1>0, <1>1, <1>3 DEF Journal
<1>4. CASE status' = "surface_error"
  <2>1. trace' = t
    BY <1>0, <1>1, <1>4, JournalOne DEF Journal
  <2> QED
    BY <1>0, <1>2, <1>4, <2>1 DEF Attempting, Dicts, Kept
<1>5. CASE status' \notin {"policy_denied", "surface_error"}
  <2>1. trace' = Append(t, Performed(pending, valued))
    BY <1>0, <1>1, <1>5, JournalTwo DEF Journal
  <2>2. t \in Seq(Entries) /\ Len(trace) + 1 \in 1 .. Len(t)
    BY <1>1, <1>2 DEF More
  <2> DEFINE n == IF pending.kind = "read" THEN 1 ELSE 0
  <2> HIDE DEF r, t
  <2>3. /\ More(t, trace', {}, 0, n, {}, {})
        /\ Same(Pass(t), Pass(trace'))
    BY <1>1, <2>1, <2>2, TellsPerformed
  <2>4. n \in Nat
    OBVIOUS
  <2> HIDE DEF n
  <2>5. More(trace, trace', {} \cup {}, 0 + 0, 0 + n, {Len(trace) + 1} \cup {}, {} \cup {})
    BY <1>1, <1>2, <2>3, <2>4, MoreAndMore
  <2>6. 0 + 0 = 0 /\ 0 + n = n
    BY <2>4
  <2>7. More(trace, trace', {}, 0, n, {Len(trace) + 1}, {})
    BY <2>5, <2>6
  <2>8. trace'[Len(trace) + 1] = r
    BY <1>2, <2>2, <2>3 DEF More
  <2>9. Tries(Pass(trace), r, Pass(trace'))
    BY <1>2, <2>3 DEF Tries, Same
  <2> QED
    BY <1>0, <2>7, <2>8, <2>9 DEF Attempting, Dicts, Kept, r, n
<1> QED
  BY <1>3, <1>4, <1>5

LEMMA VerifyTells ==
    ASSUME Typed, RecordedVerify
    PROVE  /\ observation' \in Pages
           /\ More(trace, trace', {}, 0, 0, {}, {})
           /\ SeesPage(Dicts, observation', Dicts')
<1>1. trace \in Seq(Entries) /\ Len(trace) + 1 \in Nat
  BY DEF Typed
<1>2. observation' \in Pages
  BY DEF RecordedVerify, Verify
<1> DEFINE a == Observed(observation', Len(trace) + 1)
           c == Other("CheckpointEvaluated")
           s == Append(trace, a)
<1>3. More(trace, s, {}, 0, 0, {}, {}) /\ SeesPage(Pass(trace), observation', Pass(s))
  BY <1>1, <1>2, TellsObserved
<1>4. s \in Seq(Entries) /\ "CheckpointEvaluated" \in Silent
  BY <1>3 DEF More, Silent
<1>5. More(s, trace', {}, 0, 0, {}, {}) /\ Same(Pass(s), Pass(trace')) =>
          More(trace, trace', {}, 0, 0, {}, {}) /\ SeesPage(Dicts, observation', Dicts')
  <2> SUFFICES ASSUME More(s, trace', {}, 0, 0, {}, {}), Same(Pass(s), Pass(trace'))
               PROVE  /\ More(trace, trace', {}, 0, 0, {}, {})
                      /\ SeesPage(Dicts, observation', Dicts')
    OBVIOUS
  <2> HIDE DEF s
  <2>1. More(trace, trace', {} \cup {}, 0 + 0, 0 + 0, {} \cup {}, {} \cup {})
    BY <1>1, <1>3, MoreAndMore
  <2>2. SeesPage(Pass(trace), observation', Pass(trace'))
    BY <1>3 DEF SeesPage, Same
  <2> QED
    BY <2>1, <2>2 DEF Dicts
<1>6. ASSUME NEW decided \in {"allow", "deny", "escalate"}
      PROVE  LET u == Append(s, Judged(observation', decided, "redirect"))
             IN More(s, u, {}, 0, 0, {}, {}) /\ Same(Pass(s), Pass(u))
  <2>1. "redirect" \in Rules /\ observation' \in Pages \cup {None}
    BY <1>2 DEF Rules
  <2> HIDE DEF s
  <2> QED
    BY <1>4, <2>1, TellsJudged
<1>7. CASE pending.kind # "navigate"
  <2>1. trace' = Append(s, c)
    <3>1. Journal(<<a, c>>)
      BY <1>7 DEF RecordedVerify
    <3> QED
      BY <1>1, <3>1, JournalTwo DEF Journal
  <2> HIDE DEF s
  <2>2. More(s, trace', {}, 0, 0, {}, {}) /\ Same(Pass(s), Pass(trace'))
    BY <1>4, <2>1, TellsOther
  <2> QED
    BY <1>2, <1>5, <2>2
<1>8. CASE pending.kind = "navigate" /\ status' # "policy_denied"
  <2> DEFINE u == Append(s, Judged(observation', "allow", "redirect"))
  <2>1. trace' = Append(u, c)
    BY <1>1, <1>8, JournalThree DEF RecordedVerify, Journal
  <2>2. More(s, u, {}, 0, 0, {}, {}) /\ Same(Pass(s), Pass(u))
    BY <1>6
  <2>3. u \in Seq(Entries)
    BY <2>2 DEF More
  <2> HIDE DEF s, u
  <2>4. More(u, trace', {}, 0, 0, {}, {}) /\ Same(Pass(u), Pass(trace'))
    BY <1>4, <2>1, <2>3, TellsOther
  <2>5. More(s, trace', {} \cup {}, 0 + 0, 0 + 0, {} \cup {}, {} \cup {})
    BY <1>4, <2>2, <2>4, MoreAndMore
  <2>6. Same(Pass(s), Pass(trace'))
    BY <2>2, <2>4 DEF Same
  <2> QED
    BY <1>2, <1>5, <2>5, <2>6
<1>9. CASE pending.kind = "navigate" /\ status' = "policy_denied"
  <2>1. PICK decided \in {"deny", "escalate"} :
            Journal(<<a, Judged(observation', decided, "redirect")>>)
    BY <1>9 DEF RecordedVerify
  <2>2. trace' = Append(s, Judged(observation', decided, "redirect"))
    BY <1>1, <2>1, JournalTwo DEF Journal
  <2>3. More(s, trace', {}, 0, 0, {}, {}) /\ Same(Pass(s), Pass(trace'))
    BY <1>6, <2>2
  <2> QED
    BY <1>2, <1>5, <2>3
<1> QED
  BY <1>2, <1>7, <1>8, <1>9

LEMMA TerminalTells ==
    ASSUME Typed, RecordedTerminal
    PROVE  TellsTheEnd(0) /\ Same(Dicts, Dicts')
<1>1. trace \in Seq(Entries)
  BY DEF Typed
<1> DEFINE result == IF status = "goal_reached" THEN "success" ELSE "hard_failure"
<1>2. result \in {"success", "hard_failure"} /\ ended' = Append(ended, result)
  BY DEF RecordedTerminal, Terminal
<1> HIDE DEF result
<1>3. CASE status = "goal_reached"
  <2>1. trace' = Append(trace, Ended)
    BY <1>1, <1>3, JournalOne DEF RecordedTerminal, Journal
  <2>2. More(trace, trace, {}, 0, 0, {}, {})
    BY NothingMore
  <2> QED
    BY <1>2, <2>1, <2>2, EndIsTold DEF Dicts
<1>4. CASE status # "goal_reached"
  <2> DEFINE t == Append(trace, Other("EscalationRaised"))
  <2>1. trace' = Append(t, Ended)
    BY <1>1, <1>4, JournalTwo DEF RecordedTerminal, Journal
  <2>2. More(trace, t, {}, 0, 0, {}, {}) /\ Same(Pass(trace), Pass(t))
    BY <1>1, TellsOther DEF Silent
  <2> HIDE DEF t
  <2>3. TellsTheEnd(0) /\ Same(Pass(t), Dicts')
    BY <1>2, <2>1, <2>2, EndIsTold
  <2> QED
    BY <2>2, <2>3 DEF Same, Dicts
<1> QED
  BY <1>3, <1>4

LEMMA LeaveTells ==
    ASSUME Typed, RecordedLeave
    PROVE  trace' = trace
BY DEF Typed, RecordedLeave, Journal

LEMMA EscalationTells ==
    ASSUME Typed, RecordedEscalation
    PROVE  Quietly
<1>1. trace' = Append(trace, Other("EscalationRaised"))
  BY JournalOne DEF RecordedEscalation, Journal, Typed
<1> QED
  BY <1>1, TellsOther DEF Typed, Silent, Quietly, Dicts

LEMMA RaiseTells ==
    ASSUME Typed, RecordedRaise
    PROVE  \/ TellsTheEnd(0) /\ Same(Dicts, Dicts')
           \/ /\ pc = "decide"
              /\ TellsTheEnd(1) /\ Decides(Dicts, budget.llm_calls + 1, Dicts')
<1>1. /\ trace \in Seq(Entries) /\ ended' = Append(ended, "hard_failure")
      /\ budget.llm_calls + 1 \in Nat
  BY DEF Typed, TypeOK, RecordedRaise, Raise, Fail
<1>2. CASE Journal(<<Ended>>)
  <2>1. trace' = Append(trace, Ended)
    BY <1>1, <1>2, JournalOne DEF Journal
  <2>2. More(trace, trace, {}, 0, 0, {}, {})
    BY NothingMore
  <2> QED
    BY <1>1, <2>1, <2>2, EndIsTold DEF Dicts
<1>3. CASE pc = "decide" /\ Journal(<<Decided(budget.llm_calls + 1), Ended>>)
  <2> DEFINE t == Append(trace, Decided(budget.llm_calls + 1))
  <2>1. trace' = Append(t, Ended)
    BY <1>1, <1>3, JournalTwo DEF Journal
  <2>2. More(trace, t, {}, 1, 0, {}, {}) /\ Decides(Pass(trace), budget.llm_calls + 1, Pass(t))
    BY <1>1, TellsDecided
  <2> HIDE DEF t
  <2>3. TellsTheEnd(1) /\ Same(Pass(t), Dicts')
    BY <1>1, <2>1, <2>2, EndIsTold
  <2>4. Decides(Dicts, budget.llm_calls + 1, Dicts')
    BY <2>2, <2>3 DEF Decides, Same, Dicts
  <2> QED
    BY <1>3, <2>3, <2>4
<1> QED
  BY <1>2, <1>3 DEF RecordedRaise

\* However far a handoff got, its records are silent.
LEMMA HandoffIsSilent ==
    /\ HandoffRecords \in Seq([type : Silent])
    /\ Unfinished \subseteq Seq([type : Silent])
<1>1. \A i \in 1 .. 4 : HandoffRecords[i] \in [type : Silent]
  BY DEF HandoffRecords, Other, Silent
<1>2. HandoffRecords \in Seq([type : Silent])
  BY DEF HandoffRecords, Other, Silent
<1>3. ASSUME NEW n \in 0 .. 4
      PROVE  SubSeq(HandoffRecords, 1, n) \in Seq([type : Silent])
  <2>1. \A i \in 1 .. n : HandoffRecords[i] \in [type : Silent]
    BY <1>1
  <2> QED
    BY <2>1, SubSeqProperties
<1>4. /\ <<HandoffRecords[1], HandoffRecords[3]>> \in Seq([type : Silent])
      /\ <<HandoffRecords[1], HandoffRecords[3], HandoffRecords[4]>> \in Seq([type : Silent])
  BY <1>1
<1> QED
  BY <1>2, <1>3, <1>4 DEF Unfinished

LEMMA ConfirmTells ==
    ASSUME Typed, RecordedConfirm
    PROVE  \/ pc' # "closed" /\ Quietly
           \/ pc' = "closed" /\ TellsTheEnd(0) /\ Same(Dicts, Dicts')
<1>1. trace \in Seq(Entries)
  BY DEF Typed
<1>2. CASE pc' # "closed"
  <2>1. trace' = trace \o HandoffRecords
    BY <1>2 DEF RecordedConfirm, Journal
  <2> QED
    BY <1>1, <1>2, <2>1, HandoffIsSilent, TellsHandoff DEF Quietly, Dicts
<1>3. CASE pc' = "closed"
  <2>1. ended' = Append(ended, "hard_failure")
    BY <1>3 DEF RecordedConfirm, Confirm, Fail
  <2>2. PICK records \in Unfinished : Journal(Append(records, Ended))
    BY <1>3 DEF RecordedConfirm
  <2>3. records \in Seq([type : Silent])
    BY HandoffIsSilent
  <2> DEFINE t == trace \o records
  <2>4. More(trace, t, {}, 0, 0, {}, {}) /\ Same(Pass(trace), Pass(t))
    BY <1>1, <2>3, TellsHandoff
  <2>5. trace' = Append(t, Ended)
    <3> DEFINE E == Entries \cup [type : Silent] \cup {Ended}
    <3>1. trace \in Seq(E) /\ records \in Seq(E) /\ Ended \in E
      BY <1>1, <2>3, SeqMonotonic
    <3>2. trace' = trace \o Append(records, Ended)
      BY <2>2 DEF Journal
    <3> HIDE DEF E
    <3> QED
      BY <3>1, <3>2
  <2> HIDE DEF t
  <2>6. TellsTheEnd(0) /\ Same(Pass(t), Dicts')
    BY <2>1, <2>4, <2>5, EndIsTold
  <2> QED
    BY <1>3, <2>4, <2>6 DEF Same, Dicts
<1> QED
  BY <1>2, <1>3

LEMMA RefuseTells ==
    ASSUME Typed, RecordedRefuse
    PROVE  TellsTheEnd(0) /\ Same(Dicts, Dicts')
<1>1. trace \in Seq(Entries) /\ ended' = Append(ended, "hard_failure")
  BY DEF Typed, RecordedRefuse, Refuse, Fail
<1>2. trace' = Append(trace, Ended)
  BY <1>1, JournalOne DEF RecordedRefuse, Journal
<1>3. More(trace, trace, {}, 0, 0, {}, {})
  BY NothingMore
<1> QED
  BY <1>1, <1>2, <1>3, EndIsTold DEF Dicts

LEMMA ReconstructTells ==
    ASSUME Typed, Reconstruct
    PROVE  /\ More(trace, trace', {}, 0, 0, {}, {Len(trace) + 1})
           /\ \A i \in Len(trace) + 1 .. Len(trace') : trace'[i].type \in Amendments
           /\ IsDicts(Dicts') /\ DOMAIN Dicts'.observed = DOMAIN Dicts.observed
           /\ Dicts'.decisions = Dicts.decisions /\ Dicts'.post_roots = Dicts.post_roots
           /\ Dicts'.actions = Dicts.actions /\ Dicts'.last_step = Dicts.last_step
           /\ Dicts'.metadata
<1>1. trace \in Seq(Entries)
  BY DEF Typed
<1> DEFINE t == Append(trace, Other("TargetMetadataReconstructed"))
<1>2. trace' = Append(t, Other("ManifestRegenerated"))
  BY <1>1, JournalTwo DEF Reconstruct, Journal
<1>3. /\ More(trace, t, {}, 0, 0, {}, {Len(trace) + 1})
      /\ Len(t) = Len(trace) + 1
      /\ t[Len(trace) + 1].type = "TargetMetadataReconstructed"
      /\ IsDicts(Pass(t)) /\ DOMAIN Pass(t).observed = DOMAIN Dicts.observed
      /\ Pass(t).decisions = Dicts.decisions /\ Pass(t).post_roots = Dicts.post_roots
      /\ Pass(t).actions = Dicts.actions /\ Pass(t).last_step = Dicts.last_step
      /\ Pass(t).metadata
  BY <1>1, TellsTarget DEF Dicts
<1>4. t \in Seq(Entries)
  BY <1>3 DEF More
<1> HIDE DEF t
<1>5. /\ More(t, trace', {}, 0, 0, {}, {}) /\ Same(Pass(t), Pass(trace'))
      /\ Len(trace') = Len(t) + 1 /\ trace'[Len(t) + 1].type = "ManifestRegenerated"
  BY <1>2, <1>4, TellsOther DEF Silent
<1>6. More(trace, trace', {} \cup {}, 0 + 0, 0 + 0, {} \cup {}, {Len(trace) + 1} \cup {})
  BY <1>1, <1>3, <1>5, MoreAndMore
<1>7. \A i \in Len(trace) + 1 .. Len(trace') : trace'[i].type \in Amendments
  <2>1. trace'[Len(trace) + 1] = t[Len(trace) + 1]
    BY <1>1, <1>3, <1>4, <1>5 DEF More
  <2> QED
    BY <1>1, <1>3, <1>5, <2>1 DEF Amendments
<1> QED
  BY <1>3, <1>5, <1>6, <1>7 DEF Same, Dicts

-----------------------------------------------------------------------------
(* The journal tells the run                                               *)

\* A step that is recorded is a step of the run.
LEMMA Underneath ==
    ASSUME [RecordedNext]_recorded
    PROVE  [Next]_vars
<1>1. CASE RecordedNext
  BY <1>1 DEF RecordedNext, Next, Node, RecordedObserve, RecordedDecide, RecordedCheck,
              RecordedAct, RecordedVerify, RecordedTerminal, RecordedLeave, RecordedEscalation,
              RecordedRaise, RecordedConfirm, RecordedRefuse, Reconstruct
<1>2. CASE UNCHANGED recorded
  BY <1>2 DEF recorded
<1> QED
  BY <1>1, <1>2

\* A step that journals what is no end, call, reading, attempt or target, or
\* nothing at all.
Keeping == More(trace, trace', {}, 0, 0, {}, {})

\* What each step journals, in brief.
LEMMA StepTells ==
    ASSUME Typed, TypeOK', AtNodes, RecordedNext
    PROVE  \/ RecordedObserve /\ Keeping
           \/ RecordedDecide /\ observation = None /\ Keeping
           \/ RecordedDecide /\ observation # None /\ More(trace, trace', {}, 1, 0, {}, {})
           \/ /\ RecordedCheck /\ Keeping
              /\ verdict' = "escalate" => Decisions(trace', "escalate") # {}
           \/ RecordedAct /\ status' = "policy_denied" /\ Keeping
           \/ RecordedAct /\ status' = "surface_error" /\ Attempting(0)
           \/ RecordedAct /\ Attempting(IF pending.kind = "read" THEN 1 ELSE 0)
           \/ RecordedVerify /\ Keeping
           \/ RecordedTerminal /\ TellsTheEnd(0)
           \/ RecordedLeave /\ Keeping
           \/ RecordedEscalation /\ Keeping
           \/ RecordedRaise /\ TellsTheEnd(0)
           \/ RecordedRaise /\ pc = "decide" /\ TellsTheEnd(1)
           \/ RecordedConfirm /\ pc' # "closed" /\ Keeping
           \/ RecordedConfirm /\ pc' = "closed" /\ TellsTheEnd(0)
           \/ RecordedRefuse /\ TellsTheEnd(0)
           \/ /\ Reconstruct /\ More(trace, trace', {}, 0, 0, {}, {Len(trace) + 1})
              /\ \A i \in Len(trace) + 1 .. Len(trace') : trace'[i].type \in Amendments
<1>1. trace' = trace => Keeping
  BY NothingMore DEF Keeping
<1>2. CASE RecordedObserve
  BY <1>1, <1>2, ObserveTells DEF Keeping
<1>3. CASE RecordedDecide
  BY <1>1, <1>3, DecideTells DEF Keeping
<1>4. CASE RecordedCheck
  BY <1>4, CheckTells DEF Keeping, Quietly
<1>5. CASE RecordedAct
  BY <1>1, <1>5, ActTells
<1>6. CASE RecordedVerify
  BY <1>6, VerifyTells DEF Keeping
<1>7. CASE RecordedTerminal
  BY <1>7, TerminalTells
<1>8. CASE RecordedEscalation
  BY <1>8, EscalationTells DEF Keeping, Quietly
<1>9. CASE RecordedRaise
  BY <1>9, RaiseTells
<1>10. CASE RecordedConfirm
  BY <1>10, ConfirmTells DEF Keeping, Quietly
<1>11. CASE RecordedRefuse
  BY <1>11, RefuseTells
<1>12. CASE Reconstruct
  BY <1>12, ReconstructTells
<1>13. CASE RecordedLeave
  BY <1>1, <1>13, LeaveTells
<1> QED
  BY <1>2, <1>3, <1>4, <1>5, <1>6, <1>7, <1>8, <1>9, <1>10, <1>11, <1>12, <1>13
     DEF RecordedNext

\* Where the actions lead.
LEMMA Places ==
    /\ RecordedObserve => pc = "observe" /\ pc' = "decide"
    /\ RecordedDecide => pc = "decide" /\ pc' \in {"check_policy", "terminal", "raise_escalation"}
    /\ RecordedCheck => pc = "check_policy" /\ pc' \in {"act", "terminal", "raise_escalation"}
    /\ RecordedAct => pc = "act" /\ pc' \in {"verify", "terminal", "raise_escalation"}
    /\ RecordedVerify => pc = "verify" /\ pc' \in {"decide", "terminal", "raise_escalation"}
    /\ RecordedTerminal => pc = "terminal" /\ pc' = "over"
    /\ RecordedLeave => pc = "over" /\ pc' = "closed"
    /\ RecordedEscalation => pc = "raise_escalation" /\ pc' = "interrupt_handoff"
    /\ RecordedRaise => pc \in {"decide", "act", "verify", "over"} /\ pc' = "closed"
    /\ RecordedConfirm => pc = "interrupt_handoff" /\ pc' \in {"observe", "closed"}
    /\ RecordedRefuse => pc = "interrupt_handoff" /\ pc' = "closed"
    /\ Reconstruct => pc = "closed" /\ pc' = "closed"
<1>1. /\ RecordedObserve => pc = "observe" /\ pc' = "decide"
      /\ RecordedDecide => pc = "decide" /\ pc' \in {"check_policy", "terminal", "raise_escalation"}
      /\ RecordedCheck => pc = "check_policy" /\ pc' \in {"act", "terminal", "raise_escalation"}
      /\ RecordedAct => pc = "act" /\ pc' \in {"verify", "terminal", "raise_escalation"}
  BY DEF RecordedObserve, Observe, RecordedDecide, Decide, RecordedCheck, CheckPolicy,
         RecordedAct, Act, Route
<1>2. RecordedVerify => pc = "verify" /\ pc' \in {"decide", "terminal", "raise_escalation"}
  BY DEF RecordedVerify, Verify, Route
<1>3. /\ RecordedTerminal => pc = "terminal" /\ pc' = "over"
      /\ RecordedLeave => pc = "over" /\ pc' = "closed"
      /\ RecordedEscalation => pc = "raise_escalation" /\ pc' = "interrupt_handoff"
      /\ RecordedRaise => pc \in {"decide", "act", "verify", "over"} /\ pc' = "closed"
      /\ RecordedConfirm => pc = "interrupt_handoff" /\ pc' \in {"observe", "closed"}
      /\ RecordedRefuse => pc = "interrupt_handoff" /\ pc' = "closed"
      /\ Reconstruct => pc = "closed" /\ pc' = "closed"
  BY DEF RecordedTerminal, Terminal, RecordedLeave, Leave, RecordedEscalation, RaiseEscalation,
         RecordedRaise, Raise, Fail, RecordedConfirm, Confirm, RecordedRefuse, Refuse,
         Reconstruct, vars
<1> QED
  BY <1>1, <1>2, <1>3

\* The end is told when the run is over, and once.
LEMMA EndToldStep ==
    ASSUME Typed, TypeOK', AtNodes, EndsOnce, EndTold, RecordedNext
    PROVE  EndTold'
<1>1. trace \in Seq(Entries) /\ ended \in Seq({"success", "hard_failure"})
  BY DEF Typed, TypeOK
<1>2. ASSUME pc \in Nodes, ended' = ended, NEW c, NEW r, NEW a, NEW m,
             More(trace, trace', {}, c, r, a, m)
      PROVE  EndTold'
  <2>1. ended = <<>> /\ OfType(trace', "RunEnded") = {}
    BY <1>2 DEF EndsOnce, EndTold, More
  <2> QED
    BY <1>2, <2>1 DEF EndTold
<1>3. ASSUME pc \in Nodes, NEW c, TellsTheEnd(c)
      PROVE  EndTold'
  <2>1. ended = <<>>
    BY <1>3 DEF EndsOnce
  <2>2. ended' = <<trace'[Len(trace')].result>> /\ Len(trace') \in DOMAIN trace'
    BY <1>3, <2>1 DEF TellsTheEnd
  <2>3. OfType(trace', "RunEnded") = {Len(trace')}
    BY <1>3, <2>1 DEF EndTold, TellsTheEnd, More
  <2>4. trace' \in Seq(Entries)
    BY <1>3 DEF TellsTheEnd, More
  <2>5. Len(trace') + 1 .. Len(trace') = {}
    BY <2>4
  <2>6. Len(ended') = 1
    BY <2>2
  <2> QED
    BY <2>2, <2>3, <2>5, <2>6 DEF EndTold
<1>4. ASSUME pc = "over", TellsTheEnd(0)
      PROVE  EndTold'
  <2>1. Len(ended) = 1 /\ Len(ended') = 2 /\ ended' # <<>>
    <3>1. Len(ended) = 1
      BY <1>4 DEF EndsOnce
    <3>2. PICK result : ended' = Append(ended, result)
      BY <1>4 DEF TellsTheEnd
    <3>3. Len(ended') = Len(ended) + 1
      BY <1>1, <3>2, LongerByOne
    <3>4. Len(<<>>) = 0
      OBVIOUS
    <3> QED
      BY <3>1, <3>3, <3>4
  <2>2. PICK e \in DOMAIN trace : OfType(trace, "RunEnded") = {e}
    BY <2>1 DEF EndTold
  <2>3. /\ OfType(trace', "RunEnded") = {e, Len(trace')} /\ Len(trace') \in DOMAIN trace'
        /\ trace' \in Seq(Entries) /\ Len(trace) <= Len(trace')
    BY <1>4, <2>2 DEF TellsTheEnd, More
  <2>4. e \in DOMAIN trace' /\ e < Len(trace')
    <3>1. e \in 1 .. Len(trace) /\ e \in DOMAIN trace'
      BY <1>1, <2>2, <2>3
    <3>2. Len(trace') # e
      BY <1>1, <1>4, <3>1 DEF TellsTheEnd
    <3> QED
      BY <1>1, <2>3, <3>1, <3>2
  <2> QED
    BY <2>1, <2>3, <2>4 DEF EndTold
<1>5. ASSUME NEW m, More(trace, trace', {}, 0, 0, {}, m), ended' = ended, ended # <<>>,
             \A i \in Len(trace) + 1 .. Len(trace') : trace'[i].type \in Amendments
      PROVE  EndTold'
  <2>1. /\ OfType(trace', "RunEnded") = OfType(trace, "RunEnded")
        /\ trace' \in Seq(Entries) /\ Len(trace) <= Len(trace')
        /\ \A i \in 1 .. Len(trace) : trace'[i] = trace[i]
        /\ DOMAIN trace = 1 .. Len(trace) /\ DOMAIN trace \subseteq DOMAIN trace'
    BY <1>1, <1>5 DEF More
  <2>2. ASSUME Len(ended) = 1
        PROVE  \E e \in DOMAIN trace' :
                   /\ OfType(trace', "RunEnded") = {e}
                   /\ ended' = <<trace'[e].result>>
                   /\ \A i \in e + 1 .. Len(trace') : trace'[i].type \in Amendments
    <3>1. PICK e \in DOMAIN trace : /\ OfType(trace, "RunEnded") = {e}
                                    /\ ended = <<trace[e].result>>
                                    /\ \A i \in e + 1 .. Len(trace) : trace[i].type \in Amendments
      BY <2>2 DEF EndTold
    <3>2. e \in 1 .. Len(trace) /\ e \in DOMAIN trace'
      BY <2>1, <3>1
    <3>3. \A i \in e + 1 .. Len(trace') : trace'[i].type \in Amendments
      <4> SUFFICES ASSUME NEW i \in e + 1 .. Len(trace')
                   PROVE  trace'[i].type \in Amendments
        OBVIOUS
      <4>1. CASE i <= Len(trace)
        BY <1>1, <2>1, <3>1, <3>2, <4>1
      <4>2. CASE i > Len(trace)
        BY <1>1, <1>5, <2>1, <3>2, <4>2
      <4> QED
        BY <1>1, <2>1, <3>2, <4>1, <4>2
    <3>4. ended' = <<trace'[e].result>>
      BY <1>5, <2>1, <3>1, <3>2
    <3> QED
      BY <2>1, <3>1, <3>2, <3>3, <3>4
  <2>3. Len(ended) = 2 =>
            \E e, f \in DOMAIN trace' : e < f /\ OfType(trace', "RunEnded") = {e, f}
    BY <2>1 DEF EndTold
  <2> QED
    BY <1>5, <2>2, <2>3 DEF EndTold
<1>6. CASE RecordedTerminal \/ RecordedRefuse
  BY <1>3, <1>6, StepTells, Places, TerminalTells, RefuseTells DEF Nodes
<1>7. CASE RecordedRaise
  <2>1. CASE pc = "over"
    BY <1>4, <1>7, <2>1, RaiseTells
  <2>2. CASE pc # "over"
    <3>1. pc \in Nodes
      BY <1>7, <2>2, Places DEF Nodes
    <3> QED
      BY <1>3, <1>7, <3>1, RaiseTells
  <2> QED
    BY <2>1, <2>2
<1>8. CASE RecordedConfirm
  <2>1. CASE pc' = "closed"
    BY <1>3, <1>8, <2>1, ConfirmTells, Places DEF Nodes
  <2>2. CASE pc' # "closed"
    <3>1. ended' = ended
      BY <1>8, <2>2 DEF RecordedConfirm, Confirm, Fail
    <3> QED
      BY <1>2, <1>8, <2>2, <3>1, ConfirmTells, Places DEF Nodes, Quietly
  <2> QED
    BY <2>1, <2>2
<1>9. CASE RecordedLeave \/ Reconstruct
  <2>1. ended' = ended
    BY <1>9 DEF RecordedLeave, Leave, Reconstruct, vars, journal
  <2>2. ended # <<>>
    <3>1. Len(ended) # 0
      BY <1>9, Places DEF EndsOnce
    <3> QED
      BY <1>1, <3>1
  <2>3. CASE RecordedLeave
    <3>1. trace' = trace /\ Len(trace) + 1 .. Len(trace) = {}
      BY <1>1, <2>3, LeaveTells
    <3> QED
      BY <1>5, <2>1, <2>2, <3>1, NothingMore
  <2>4. CASE Reconstruct
    BY <1>5, <2>1, <2>2, <2>4, ReconstructTells
  <2> QED
    BY <1>9, <2>3, <2>4
<1>10. CASE RecordedObserve \/ RecordedDecide \/ RecordedCheck \/ RecordedAct
               \/ RecordedVerify \/ RecordedEscalation
  <2>1. pc \in Nodes
    BY <1>10, Places DEF Nodes
  <2>2. ended' = ended
    BY <1>10 DEF RecordedObserve, Observe, RecordedDecide, Decide, RecordedCheck, CheckPolicy,
                 RecordedAct, Act, RecordedVerify, Verify, RecordedEscalation, RaiseEscalation,
                 journal
  <2>3. \E c, r, a, m : More(trace, trace', {}, c, r, a, m)
    BY <1>10, <2>1, StepTells, Places DEF Keeping, Attempting
  <2> QED
    BY <1>2, <2>1, <2>2, <2>3
<1> QED
  BY <1>6, <1>7, <1>8, <1>9, <1>10 DEF RecordedNext

LEMMA CallsToldStep ==
    ASSUME Typed, TypeOK', AtNodes, CallsTold, RecordedNext
    PROVE  CallsTold'
<1>1. Called(trace) \in Nat /\ budget.llm_calls \in Nat /\ budget'.llm_calls \in Nat
  BY Tallies DEF Typed, TypeOK
<1>2. ASSUME NEW e, NEW r, NEW a, NEW m, More(trace, trace', e, 0, r, a, m),
             budget'.llm_calls = budget.llm_calls, pc = "closed" => pc' = "closed"
      PROVE  CallsTold'
  BY <1>1, <1>2 DEF CallsTold, More, Called
<1>3. ASSUME RecordedDecide, observation # None, More(trace, trace', {}, 1, 0, {}, {})
      PROVE  CallsTold'
  <2>1. budget'.llm_calls = budget.llm_calls + 1
    BY <1>3 DEF RecordedDecide, Decide, Typed, TypeOK
  <2>2. pc # "closed" /\ pc' # "closed"
    BY <1>3, Places
  <2> QED
    BY <1>1, <1>3, <2>1, <2>2 DEF CallsTold, More, Called
<1>4. ASSUME RecordedRaise, TellsTheEnd(1)
      PROVE  CallsTold'
  <2>1. budget'.llm_calls = budget.llm_calls
    BY <1>4 DEF RecordedRaise, Raise, memory
  <2>2. pc # "closed" /\ pc' = "closed"
    BY <1>4, Places
  <2> QED
    BY <1>1, <1>4, <2>1, <2>2 DEF CallsTold, TellsTheEnd, More, Called
<1>5. ASSUME RecordedDecide, observation = None
      PROVE  budget' = budget
  BY <1>5 DEF RecordedDecide, Decide
<1>6. ASSUME RecordedAct
      PROVE  budget'.llm_calls = budget.llm_calls
  BY <1>6 DEF RecordedAct, Act, Typed, TypeOK
<1>7. ASSUME RecordedObserve \/ RecordedCheck \/ RecordedVerify \/ RecordedTerminal
                \/ RecordedLeave \/ RecordedEscalation \/ RecordedRaise \/ RecordedConfirm
                \/ RecordedRefuse \/ Reconstruct
      PROVE  budget' = budget
  BY <1>7 DEF RecordedObserve, Observe, RecordedCheck, CheckPolicy, RecordedVerify, Verify,
              RecordedTerminal, Terminal, RecordedLeave, Leave, RecordedEscalation, RaiseEscalation,
              RecordedRaise, Raise, RecordedConfirm, Confirm, RecordedRefuse, Refuse,
              Reconstruct, vars, memory
<1> QED
  BY <1>2, <1>3, <1>4, <1>5, <1>6, <1>7, StepTells, Places
     DEF Keeping, Attempting, TellsTheEnd

LEMMA EscalationToldStep ==
    ASSUME Typed, TypeOK', AtNodes, EscalationTold, RecordedNext
    PROVE  EscalationTold'
<1>1. Decisions(trace, "escalate") \subseteq Decisions(trace', "escalate")
  BY StepTells DEF Keeping, Attempting, TellsTheEnd, More
<1>2. CASE RecordedCheck
  <2>1. confirmed' = confirmed
    BY <1>2 DEF RecordedCheck, CheckPolicy, ghost
  <2>2. verdict' = "escalate" => Decisions(trace', "escalate") # {}
    BY <1>2, CheckTells
  <2> QED
    BY <1>1, <2>1, <2>2 DEF EscalationTold
<1>3. CASE RecordedConfirm
  BY <1>1, <1>3 DEF RecordedConfirm, Confirm, EscalationTold
<1>4. CASE ~RecordedCheck /\ ~RecordedConfirm
  <2>1. verdict' = verdict /\ confirmed' = confirmed
    BY <1>4 DEF RecordedNext, RecordedObserve, Observe, RecordedDecide, Decide,
                RecordedAct, Act, RecordedVerify, Verify, RecordedTerminal, Terminal,
                RecordedLeave, Leave, RecordedEscalation, RaiseEscalation, RecordedRaise, Raise,
                RecordedRefuse, Refuse, Reconstruct, vars, ghost
  <2> QED
    BY <1>1, <2>1 DEF EscalationTold
<1> QED
  BY <1>2, <1>3, <1>4

LEMMA ProposedStep ==
    ASSUME Typed, TypeOK', AtNodes, Proposed, RecordedNext
    PROVE  Proposed'
<1>1. CASE RecordedDecide
  <2> SUFFICES ASSUME pc' = "check_policy"
               PROVE  pending'.kind = "read" <=> pending'.output # None
    BY <1>1, Places DEF Proposed
  <2>1. status' = "running"
    BY <1>1 DEF RecordedDecide, Decide, Route
  <2>2. PICK move \in Moves, goal \in BOOLEAN :
            pending' = [key |-> move.key, output |-> move.output, kind |-> move.kind,
                        site |-> move.site, goal |-> goal]
    BY <1>1, <2>1 DEF RecordedDecide, Decide
  <2>3. pending'.kind = move.kind /\ pending'.output = move.output
    BY <2>2
  <2> QED
    BY <2>3, RecordedAssumption
<1>2. CASE RecordedCheck \/ RecordedAct
  <2>1. pending' = pending
    BY <1>2 DEF RecordedCheck, CheckPolicy, RecordedAct, Act, memory
  <2> QED
    BY <1>2, <2>1, Places DEF Proposed
<1>3. CASE ~RecordedDecide /\ ~RecordedCheck /\ ~RecordedAct
  <2>1. pc' \notin {"check_policy", "act", "verify"}
    BY <1>3, Places DEF RecordedNext
  <2> QED
    BY <2>1 DEF Proposed
<1> QED
  BY <1>1, <1>2, <1>3

\* One more turn is one more reading at most, and none if it is of no reading.
LEMMA TurnRead ==
    ASSUME NEW turns \in Seq(Turn), NEW turn \in Turn, NEW n \in {0, 1},
           turn.output # None => n = 1
    PROVE  /\ Cardinality(ReadTurns(turns)) \in Nat
           /\ Cardinality(ReadTurns(Append(turns, turn))) \in Nat
           /\ Cardinality(ReadTurns(Append(turns, turn))) <= Cardinality(ReadTurns(turns)) + n
<1> DEFINE t == Append(turns, turn)
           m == Len(turns) + 1
<1>1. /\ DOMAIN t = 1 .. m /\ DOMAIN turns = 1 .. Len(turns) /\ Len(turns) \in Nat
      /\ t[m] = turn /\ \A i \in 1 .. Len(turns) : t[i] = turns[i]
  OBVIOUS
<1> HIDE DEF t
<1>2. IsFiniteSet(ReadTurns(turns)) /\ m \notin ReadTurns(turns)
  <2>1. ReadTurns(turns) \subseteq 1 .. Len(turns) /\ IsFiniteSet(1 .. Len(turns))
    BY <1>1, FS_Interval DEF ReadTurns
  <2> QED
    BY <1>1, <2>1, FS_Subset
<1>3. CASE n = 1
  <2>1. ReadTurns(t) \subseteq ReadTurns(turns) \cup {m}
    BY <1>1 DEF ReadTurns
  <2>2. /\ IsFiniteSet(ReadTurns(turns) \cup {m})
        /\ Cardinality(ReadTurns(turns) \cup {m}) = Cardinality(ReadTurns(turns)) + 1
    BY <1>2, FS_AddElement
  <2>3. /\ Cardinality(ReadTurns(t)) <= Cardinality(ReadTurns(turns) \cup {m})
        /\ IsFiniteSet(ReadTurns(t))
    BY <2>1, <2>2, FS_Subset
  <2> QED
    BY <1>2, <1>3, <2>2, <2>3, FS_CardinalityType DEF t
<1>4. CASE n = 0
  <2>1. ReadTurns(t) = ReadTurns(turns)
    BY <1>1, <1>4 DEF ReadTurns
  <2> QED
    BY <1>2, <1>4, <2>1, FS_CardinalityType DEF t
<1> QED
  BY <1>3, <1>4

LEMMA ReadingsToldStep ==
    ASSUME Typed, TypeOK', AtNodes, Proposed, ReadingsTold, RecordedNext
    PROVE  ReadingsTold'
<1>1. /\ Answered(trace) \in Nat /\ history \in Seq(Turn)
      /\ pending.key \in Keys \cup {None} /\ pending.output \in Outputs \cup {None}
  BY Tallies DEF Typed, TypeOK
<1>2. Cardinality(ReadTurns(history)) \in Nat
  <2>0. Len(history) \in Nat /\ DOMAIN history = 1 .. Len(history)
    BY <1>1
  <2>1. ReadTurns(history) \subseteq 1 .. Len(history) /\ IsFiniteSet(1 .. Len(history))
    BY <2>0, FS_Interval DEF ReadTurns
  <2> QED
    BY <2>1, FS_Subset, FS_CardinalityType
<1>3. ASSUME NEW e, NEW c, NEW n \in Nat, NEW a, NEW m, More(trace, trace', e, c, n, a, m),
             history' = history, pc # "verify" \/ pc' # "verify",
             pc' = "verify" /\ pending'.kind = "read" => n = 1
      PROVE  ReadingsTold'
  <2>1. Answered(trace') = Answered(trace) + n
    BY <1>3 DEF More
  <2>2. Cardinality(ReadTurns(history)) <= Answered(trace)
    BY <1>1, <1>2 DEF ReadingsTold, Answered
  <2>3. (IF pc' = "verify" /\ pending'.kind = "read" THEN 1 ELSE 0) <= n
    BY <1>3
  <2> QED
    BY <1>1, <1>2, <1>3, <2>1, <2>2, <2>3 DEF ReadingsTold, Answered
<1>4. ASSUME RecordedVerify, Keeping
      PROVE  ReadingsTold'
  <2>1. Answered(trace') = Answered(trace) /\ pc = "verify" /\ pc' # "verify"
    BY <1>1, <1>4, Places DEF Keeping, More
  <2>2. CASE history' = history
    BY <1>1, <1>2, <2>1, <2>2 DEF ReadingsTold, Answered
  <2>3. CASE history' # history
    <3>1. PICK changed \in BOOLEAN :
              history' = Append(history, [key |-> pending.key, output |-> pending.output,
                                          changed |-> changed])
      BY <1>4, <2>3 DEF RecordedVerify, Verify
    <3> DEFINE turn == [key |-> pending.key, output |-> pending.output, changed |-> changed]
               n == IF pending.kind = "read" THEN 1 ELSE 0
    <3>2. turn \in Turn /\ n \in {0, 1}
      BY <1>1 DEF Turn
    <3>3. turn.output # None => n = 1
      BY <2>1 DEF Proposed
    <3>4. history' = Append(history, turn)
      BY <3>1
    <3>5. Cardinality(ReadTurns(history)) + n <= Answered(trace)
      BY <2>1 DEF ReadingsTold, Answered
    <3> HIDE DEF turn, n
    <3>6. /\ Cardinality(ReadTurns(history')) \in Nat
          /\ Cardinality(ReadTurns(history')) <= Cardinality(ReadTurns(history)) + n
      BY <1>1, <3>2, <3>3, <3>4, TurnRead
    <3> QED
      BY <1>1, <1>2, <2>1, <3>2, <3>5, <3>6 DEF ReadingsTold, Answered
  <2> QED
    BY <2>2, <2>3
<1>5. ASSUME ~RecordedVerify
      PROVE  history' = history
  BY <1>5 DEF RecordedNext, RecordedObserve, Observe, RecordedDecide, Decide, RecordedCheck,
              CheckPolicy, RecordedAct, Act, RecordedTerminal, Terminal, RecordedLeave, Leave,
              RecordedEscalation, RaiseEscalation, RecordedRaise, Raise, RecordedConfirm, Confirm,
              RecordedRefuse, Refuse, Reconstruct, vars, memory
<1>6. CASE RecordedAct
  <2>1. /\ pc = "act" /\ history' = history /\ pending' = pending
        /\ status' \in {"policy_denied", "surface_error"} => pc' # "verify"
    BY <1>6, Places DEF RecordedAct, Act, Route
  <2>2. CASE status' \in {"policy_denied", "surface_error"}
    BY <1>3, <1>6, <2>1, <2>2, ActTells, NothingMore DEF Attempting
  <2>3. CASE status' \notin {"policy_denied", "surface_error"}
    <3>1. Attempting(IF pending.kind = "read" THEN 1 ELSE 0)
      BY <1>6, <2>3, ActTells
    <3> DEFINE n == IF pending.kind = "read" THEN 1 ELSE 0
    <3>2. n \in Nat /\ More(trace, trace', {}, 0, n, {Len(trace) + 1}, {})
      BY <3>1 DEF Attempting
    <3>3. pc' = "verify" /\ pending'.kind = "read" => n = 1
      BY <2>1
    <3> HIDE DEF n
    <3> QED
      BY <1>3, <2>1, <3>2, <3>3
  <2> QED
    BY <2>2, <2>3
<1>7. CASE ~RecordedAct /\ ~RecordedVerify
  <2>1. pc' # "verify" /\ history' = history
    BY <1>5, <1>7, Places DEF RecordedNext
  <2>2. \E e, c, a, m : More(trace, trace', e, c, 0, a, m)
    BY <1>7, StepTells DEF Keeping, TellsTheEnd
  <2> QED
    BY <1>3, <2>1, <2>2
<1> QED
  BY <1>4, <1>6, <1>7, VerifyTells DEF Keeping

\* Every attempt is of a decision of its own.
LEMMA AttemptsStep ==
    ASSUME Typed, TypeOK', AtNodes, AttemptsDiffer, RecordedNext
    PROVE  AttemptsDiffer'
<1>1. /\ trace \in Seq(Entries) /\ Len(trace) \in Nat
      /\ budget.llm_calls \in Nat /\ budget'.llm_calls \in Nat
      /\ Attempts \subseteq 1 .. Len(trace)
  BY DEF Typed, TypeOK, Attempts, OfType
<1>2. ASSUME NEW e, NEW c, NEW r, NEW m, More(trace, trace', e, c, r, {}, m),
             budget.llm_calls <= budget'.llm_calls,
             pc' \in {"check_policy", "act"} =>
                 \/ budget'.llm_calls > budget.llm_calls
                 \/ budget'.llm_calls = budget.llm_calls /\ pc \in {"check_policy", "act"}
      PROVE  AttemptsDiffer'
  <2>1. Attempts' = Attempts /\ \A i \in Attempts : trace'[i] = trace[i]
    BY <1>1, <1>2 DEF More, Attempts
  <2>2. \A i \in Attempts : trace'[i].step \in 1 .. budget'.llm_calls
    BY <1>1, <1>2, <2>1 DEF AttemptsDiffer
  <2>3. \A i, j \in Attempts : trace'[i].step = trace'[j].step => i = j
    BY <2>1 DEF AttemptsDiffer
  <2>4. pc' \in {"check_policy", "act"} =>
            budget'.llm_calls > 0 /\ \A i \in Attempts : trace'[i].step # budget'.llm_calls
    BY <1>1, <1>2, <2>1 DEF AttemptsDiffer
  <2> QED
    BY <2>1, <2>2, <2>3, <2>4 DEF AttemptsDiffer
<1>3. ASSUME RecordedAct, NEW r, Attempting(r)
      PROVE  AttemptsDiffer'
  <2>1. /\ pc = "act" /\ pc' \notin {"check_policy", "act"}
        /\ budget'.llm_calls = budget.llm_calls
    BY <1>3, Places DEF RecordedAct, Act, Typed, TypeOK
  <2>0. PICK legible \in BOOLEAN :
            /\ More(trace, trace', {}, 0, r, {Len(trace) + 1}, {})
            /\ trace'[Len(trace) + 1] =
                   Attempted(observation, budget.llm_calls, pending, legible)
    BY <1>3 DEF Attempting
  <2>2. /\ Attempts' = Attempts \cup {Len(trace) + 1}
        /\ \A i \in Attempts : trace'[i] = trace[i]
        /\ trace'[Len(trace) + 1].step = budget.llm_calls
    BY <1>1, <2>0 DEF More, Attempts, Attempted
  <2>3. budget.llm_calls > 0 /\ \A i \in Attempts : trace[i].step # budget.llm_calls
    BY <2>1 DEF AttemptsDiffer
  <2>4. \A i \in Attempts' : trace'[i].step \in 1 .. budget'.llm_calls
    BY <1>1, <2>1, <2>2, <2>3 DEF AttemptsDiffer
  <2>5. \A i, j \in Attempts' : trace'[i].step = trace'[j].step => i = j
    BY <2>2, <2>3 DEF AttemptsDiffer
  <2> QED
    BY <2>1, <2>4, <2>5 DEF AttemptsDiffer
<1>4. CASE RecordedDecide
  <2>1. \/ observation = None /\ budget' = budget /\ pc' # "check_policy"
        \/ observation # None /\ budget'.llm_calls = budget.llm_calls + 1
    BY <1>4 DEF RecordedDecide, Decide, Route, Typed, TypeOK
  <2>2. pc' # "act"
    BY <1>4, Places
  <2> QED
    BY <1>1, <1>2, <1>4, <2>1, <2>2, DecideTells, NothingMore
<1>5. CASE RecordedAct
  <2>1. pc' \notin {"check_policy", "act"} /\ budget'.llm_calls = budget.llm_calls
    BY <1>5, Places DEF RecordedAct, Act, Typed, TypeOK
  <2> QED
    BY <1>1, <1>2, <1>3, <1>5, <2>1, ActTells, NothingMore
<1>6. CASE ~RecordedDecide /\ ~RecordedAct
  <2>1. budget' = budget
    BY <1>6 DEF RecordedNext, RecordedObserve, Observe, RecordedCheck, CheckPolicy,
                RecordedVerify, Verify, RecordedTerminal, Terminal, RecordedLeave, Leave,
                RecordedEscalation, RaiseEscalation, RecordedRaise, Raise, RecordedConfirm, Confirm,
                RecordedRefuse, Refuse, Reconstruct, vars, memory
  <2>2. pc' \in {"check_policy", "act"} => pc = "check_policy"
    BY <1>6, Places DEF RecordedNext
  <2>3. \E e, c, r, m : More(trace, trace', e, c, r, {}, m)
    BY <1>6, StepTells DEF Keeping, TellsTheEnd
  <2> QED
    BY <1>1, <1>2, <2>1, <2>2, <2>3
<1> QED
  BY <1>4, <1>5, <1>6

\* The adapter stays what it is, and each new attempt is of the move under way.
LEMMA ReadingsNamedStep ==
    ASSUME Typed, TypeOK', AtNodes, Proposed, ReadingsNamed, RecordedNext
    PROVE  ReadingsNamed'
<1>1. redacting' = redacting
  BY DEF RecordedNext, RecordedObserve, RecordedDecide, RecordedCheck, RecordedAct,
         RecordedVerify, RecordedTerminal, RecordedLeave, RecordedEscalation, RecordedRaise,
         RecordedConfirm, RecordedRefuse, Reconstruct, Journal
<1>2. trace \in Seq(Entries) /\ Attempts \subseteq 1 .. Len(trace)
  BY DEF Typed, Attempts, OfType
<1>3. ASSUME NEW e, NEW c, NEW r, NEW m, More(trace, trace', e, c, r, {}, m)
      PROVE  ReadingsNamed'
  <2>1. Attempts' = Attempts /\ \A i \in Attempts : trace'[i] = trace[i]
    BY <1>2, <1>3 DEF More, Attempts
  <2> QED
    BY <1>1, <2>1 DEF ReadingsNamed
<1>4. ASSUME RecordedAct, NEW r, Attempting(r)
      PROVE  ReadingsNamed'
  <2>1. PICK legible \in BOOLEAN :
            /\ redacting /\ pending.kind = "read" => ~legible
            /\ More(trace, trace', {}, 0, r, {Len(trace) + 1}, {})
            /\ trace'[Len(trace) + 1] =
                   Attempted(observation, budget.llm_calls, pending, legible)
    BY <1>4 DEF Attempting
  <2>2. /\ Attempts' = Attempts \cup {Len(trace) + 1}
        /\ \A i \in Attempts : trace'[i] = trace[i]
    BY <1>2, <2>1 DEF More, Attempts
  <2>3. /\ trace'[Len(trace) + 1].kind = pending.kind
        /\ trace'[Len(trace) + 1].output = pending.output
        /\ trace'[Len(trace) + 1].legible = legible
    BY <2>1 DEF Attempted
  <2>4. pending.kind = "read" <=> pending.output # None
    BY <1>4, Places DEF Proposed
  <2> QED
    BY <1>1, <2>1, <2>2, <2>3, <2>4 DEF ReadingsNamed
<1>5. CASE RecordedAct
  BY <1>3, <1>4, <1>5, ActTells, NothingMore
<1>6. CASE ~RecordedAct
  <2>1. \E e, c, r, m : More(trace, trace', e, c, r, {}, m)
    BY <1>6, StepTells DEF Keeping, TellsTheEnd
  <2> QED
    BY <1>3, <2>1
<1> QED
  BY <1>5, <1>6

-----------------------------------------------------------------------------
(* The compiler finds the run in the journal                               *)

\* The lookups that succeed go on to succeed.
LEMMA FoundKept ==
    ASSUME Typed, TypeOK', Found,
           budget.llm_calls <= budget'.llm_calls,
           Dicts'.actions = Dicts.actions, Dicts.decisions \subseteq Dicts'.decisions,
           DOMAIN Dicts.observed \subseteq DOMAIN Dicts'.observed,
           Reconstructed' => Dicts'.metadata,
           observation' # None => observation' = observation \/ observation' \in DOMAIN Dicts'.observed,
           pc' \in {"check_policy", "act"} =>
               \/ budget'.llm_calls > budget.llm_calls
               \/ budget'.llm_calls = budget.llm_calls /\ pc \in {"check_policy", "act"},
           pc' \in {"check_policy", "act", "verify"} =>
               observation' # None /\ budget'.llm_calls \in Dicts'.decisions
    PROVE  Found'
<1>1. budget.llm_calls \in Nat /\ budget'.llm_calls \in Nat
  BY DEF Typed, TypeOK
<1>2. observation' # None => observation' \in DOMAIN Dicts'.observed
  BY DEF Found
<1>3. ASSUME NEW n \in DOMAIN Dicts.actions
      PROVE  /\ Dicts.actions[n].page \in DOMAIN Dicts'.observed
             /\ Dicts.actions[n].step \in Dicts'.decisions
             /\ Dicts.actions[n].step \in 1 .. budget'.llm_calls
             /\ pc' \in {"check_policy", "act"} => Dicts.actions[n].step # budget'.llm_calls
  <2>1. /\ Dicts.actions[n].page \in DOMAIN Dicts.observed
        /\ Dicts.actions[n].step \in Dicts.decisions
        /\ Dicts.actions[n].step \in 1 .. budget.llm_calls
        /\ pc \in {"check_policy", "act"} => Dicts.actions[n].step # budget.llm_calls
    BY DEF Found
  <2> QED
    BY <1>1, <2>1
<1> QED
  BY <1>2, <1>3 DEF Found

\* A journal without a new target tells of the target what it told.
LEMMA TargetKept ==
    ASSUME Found, NEW e, NEW c, NEW r, NEW a, More(trace, trace', e, c, r, a, {})
    PROVE  /\ Reconstructed' = Reconstructed
           /\ Dicts'.metadata = Dicts.metadata => (Reconstructed' => Dicts'.metadata)
<1>1. OfType(trace', "TargetMetadataReconstructed") = OfType(trace, "TargetMetadataReconstructed")
  BY DEF More
<1> QED
  BY <1>1 DEF Reconstructed, Found

LEMMA FoundStep ==
    ASSUME Typed, TypeOK', AtNodes, Proposed, AttemptsDiffer, Found, RecordedNext
    PROVE  Found'
<1>1. budget.llm_calls \in Nat /\ budget'.llm_calls \in Nat
  BY DEF Typed, TypeOK
<1>2. More(trace, trace, {}, 0, 0, {}, {}) /\ Same(Dicts, Dicts)
  BY NothingMore
<1>3. CASE RecordedObserve
  <2>1. budget' = budget /\ pc' = "decide"
    BY <1>3 DEF RecordedObserve, Observe
  <2>2. CASE trace' = trace /\ observation' = observation
    <3>1. Dicts' = Dicts /\ Reconstructed' = Reconstructed
      BY <2>2 DEF Dicts, Reconstructed
    <3> QED
      BY <1>1, <2>1, <2>2, <3>1, FoundKept DEF Found
  <2>3. CASE /\ More(trace, trace', {}, 0, 0, {}, {})
             /\ SeesPage(Dicts, observation', Dicts')
    <3>1. Reconstructed' => Dicts'.metadata
      BY <2>3, TargetKept DEF SeesPage
    <3> QED
      BY <1>1, <2>1, <2>3, <3>1, FoundKept DEF SeesPage
  <2> QED
    BY <1>3, <2>2, <2>3, ObserveTells
<1>4. CASE RecordedDecide
  <2>1. observation' = observation /\ pc' \notin {"act", "verify"}
    BY <1>4, Places DEF RecordedDecide, Decide
  <2>2. CASE observation = None /\ trace' = trace
    <3>1. budget' = budget /\ pc' # "check_policy"
      BY <1>4, <2>2 DEF RecordedDecide, Decide, Route
    <3>2. Dicts' = Dicts /\ Reconstructed' = Reconstructed
      BY <2>2 DEF Dicts, Reconstructed
    <3> QED
      BY <1>1, <2>1, <3>1, <3>2, FoundKept DEF Found
  <2>3. CASE /\ observation # None /\ More(trace, trace', {}, 1, 0, {}, {})
             /\ Decides(Dicts, budget'.llm_calls, Dicts')
    <3>1. budget'.llm_calls = budget.llm_calls + 1
      BY <1>4, <2>3 DEF RecordedDecide, Decide, Typed, TypeOK
    <3>2. Reconstructed' => Dicts'.metadata
      BY <2>3, TargetKept DEF Decides
    <3> QED
      BY <1>1, <2>1, <2>3, <3>1, <3>2, FoundKept DEF Decides
  <2> QED
    BY <1>4, <2>2, <2>3, DecideTells
<1>5. ASSUME Same(Dicts, Dicts'), More(trace, trace', {}, 0, 0, {}, {}) \/ TellsTheEnd(0),
             budget' = budget, observation' = observation, pc' # "check_policy",
             pc' = "act" => pc = "check_policy", pc' = "verify" => pc = "verify"
      PROVE  Found'
  <2>1. \E e : More(trace, trace', e, 0, 0, {}, {})
    BY <1>5 DEF TellsTheEnd
  <2>2. Reconstructed' => Dicts'.metadata
    BY <1>5, <2>1, TargetKept DEF Same
  <2>3. pc' \in {"check_policy", "act", "verify"} =>
            observation # None /\ budget.llm_calls \in Dicts.decisions
    BY <1>5 DEF Found
  <2> QED
    BY <1>1, <1>5, <2>2, <2>3, FoundKept DEF Same
<1>6. CASE RecordedCheck
  <2>1. budget' = budget /\ observation' = observation
    BY <1>6 DEF RecordedCheck, CheckPolicy, memory
  <2> QED
    BY <1>5, <1>6, <2>1, CheckTells, Places DEF Quietly
<1>7. CASE RecordedAct
  <2>1. /\ observation' = observation /\ pc = "act" /\ pc' \notin {"check_policy", "act"}
        /\ budget'.llm_calls = budget.llm_calls
    BY <1>7, Places DEF RecordedAct, Act, Typed, TypeOK
  <2>2. observation # None /\ budget.llm_calls \in Dicts.decisions
    BY <2>1 DEF Found
  <2>3. CASE trace' = trace
    <3>1. Dicts' = Dicts /\ Reconstructed' = Reconstructed
      BY <2>3 DEF Dicts, Reconstructed
    <3> QED
      BY <1>1, <2>1, <2>2, <3>1, FoundKept DEF Found
  <2>4. ASSUME NEW r, Attempting(r)
        PROVE  Found'
    <3>0. PICK legible \in BOOLEAN :
              /\ More(trace, trace', {}, 0, r, {Len(trace) + 1}, {})
              /\ Tries(Dicts, Attempted(observation, budget.llm_calls, pending, legible), Dicts')
      BY <2>4 DEF Attempting
    <3> DEFINE attempt == Attempted(observation, budget.llm_calls, pending, legible)
    <3>1. /\ More(trace, trace', {}, 0, r, {Len(trace) + 1}, {})
          /\ Tries(Dicts, attempt, Dicts')
      BY <3>0
    <3>2. Reconstructed' => Dicts'.metadata
      BY <3>1, TargetKept DEF Tries
    <3>3. Dicts.actions \in Seq(Entries)
      BY PassIsDicts DEF Typed, IsDicts, Dicts
    <3>4. /\ DOMAIN Dicts'.actions = DOMAIN Dicts.actions \cup {Len(Dicts.actions) + 1}
          /\ \A n \in DOMAIN Dicts.actions : Dicts'.actions[n] = Dicts.actions[n]
          /\ Dicts'.actions[Len(Dicts.actions) + 1] = attempt
      <4>1. Dicts.actions \in Seq(Entries \cup {attempt})
        BY <3>3, SeqMonotonic
      <4>2. Dicts'.actions = Append(Dicts.actions, attempt)
        BY <3>1 DEF Tries
      <4> HIDE DEF attempt
      <4> QED
        BY <4>1, <4>2
    <3>5. attempt.page = observation /\ attempt.step = budget.llm_calls
      BY DEF Attempted
    <3>6. budget.llm_calls > 0
      BY <2>1 DEF AttemptsDiffer
    <3>7. observation \in DOMAIN Dicts.observed
      BY <2>2 DEF Found
    <3> HIDE DEF attempt
    <3>9. ASSUME NEW n \in DOMAIN Dicts.actions
          PROVE  /\ Dicts.actions[n].page \in DOMAIN Dicts.observed
                 /\ Dicts.actions[n].step \in Dicts.decisions
                 /\ Dicts.actions[n].step \in 1 .. budget.llm_calls
      BY DEF Found
    <3>10. DOMAIN Dicts'.observed = DOMAIN Dicts.observed /\ Dicts'.decisions = Dicts.decisions
      BY <3>1 DEF Tries
    <3>11. ASSUME NEW n \in DOMAIN Dicts'.actions
           PROVE  /\ Dicts'.actions[n].page \in DOMAIN Dicts'.observed
                  /\ Dicts'.actions[n].step \in Dicts'.decisions
                  /\ Dicts'.actions[n].step \in 1 .. budget'.llm_calls
      <4>1. CASE n \in DOMAIN Dicts.actions
        BY <2>1, <3>4, <3>9, <3>10, <4>1
      <4>2. CASE n = Len(Dicts.actions) + 1
        BY <1>1, <2>1, <2>2, <3>4, <3>5, <3>6, <3>7, <3>10, <4>2
      <4> QED
        BY <3>4, <4>1, <4>2
    <3> QED
      BY <2>1, <2>2, <3>2, <3>7, <3>10, <3>11 DEF Found
  <2> QED
    BY <1>7, <2>3, <2>4, ActTells
<1>8. CASE RecordedVerify
  <2>1. budget' = budget /\ pc' \notin {"check_policy", "act", "verify"}
    BY <1>8, Places DEF RecordedVerify, Verify
  <2>2. More(trace, trace', {}, 0, 0, {}, {}) /\ SeesPage(Dicts, observation', Dicts')
    BY <1>8, VerifyTells
  <2>3. Reconstructed' => Dicts'.metadata
    BY <2>2, TargetKept DEF SeesPage
  <2> QED
    BY <1>1, <2>1, <2>2, <2>3, FoundKept DEF SeesPage
<1>9. CASE RecordedTerminal \/ RecordedEscalation \/ RecordedConfirm \/ RecordedRefuse
  <2>1. budget' = budget /\ observation' = observation
    BY <1>9 DEF RecordedTerminal, Terminal, RecordedEscalation, RaiseEscalation,
                RecordedConfirm, Confirm, RecordedRefuse, Refuse, memory
  <2>2. pc' \notin {"check_policy", "act", "verify"}
    BY <1>9, Places
  <2>3. Same(Dicts, Dicts') /\ (More(trace, trace', {}, 0, 0, {}, {}) \/ TellsTheEnd(0))
    BY <1>9, TerminalTells, EscalationTells, ConfirmTells, RefuseTells DEF Quietly
  <2> QED
    BY <1>5, <2>1, <2>2, <2>3
<1>10. CASE RecordedRaise
  <2>1. budget' = budget /\ observation' = observation /\ pc' = "closed"
    BY <1>10, Places DEF RecordedRaise, Raise, memory
  <2>2. CASE TellsTheEnd(0) /\ Same(Dicts, Dicts')
    BY <1>5, <2>1, <2>2
  <2>3. CASE TellsTheEnd(1) /\ Decides(Dicts, budget.llm_calls + 1, Dicts')
    <3>1. Reconstructed' => Dicts'.metadata
      BY <2>3, TargetKept DEF Decides, TellsTheEnd
    <3> QED
      BY <1>1, <2>1, <2>3, <3>1, FoundKept DEF Decides
  <2> QED
    BY <1>10, <2>2, <2>3, RaiseTells
<1>11. CASE Reconstruct
  <2>1. budget' = budget /\ observation' = observation /\ pc' = "closed"
    BY <1>11, Places DEF Reconstruct, vars, memory
  <2> QED
    BY <1>1, <1>11, <2>1, ReconstructTells, FoundKept
<1>12. CASE RecordedLeave
  <2>1. UNCHANGED <<budget, observation>> /\ pc' = "closed"
    BY <1>12 DEF RecordedLeave, Leave, memory
  <2>2. trace' = trace
    BY <1>12, LeaveTells
  <2>3. Same(Dicts, Dicts') /\ More(trace, trace', {}, 0, 0, {}, {})
    BY <1>2, <2>2 DEF Dicts
  <2> QED
    BY <1>5, <2>1, <2>3
<1> QED
  BY <1>3, <1>4, <1>6, <1>7, <1>8, <1>9, <1>10, <1>11, <1>12 DEF RecordedNext

\* A run that still matches its journal.
MatchedNow ==
    /\ Len(Dicts.actions) = Len(history) + (IF pc = "verify" THEN 1 ELSE 0)
    /\ \A n \in DOMAIN history :
           LET action == Dicts.actions[n]
           IN /\ action.key = history[n].key /\ action.output = history[n].output
              /\ action.step \in DOMAIN Dicts.post_roots
              /\ (action.page # Dicts.post_roots[action.step]) = history[n].changed
              /\ pc = "verify" => action.step # budget.llm_calls
    /\ pc = "verify" =>
           LET action == Dicts.actions[Len(Dicts.actions)]
           IN /\ action.step = budget.llm_calls /\ Dicts.last_step = budget.llm_calls
              /\ action.key = pending.key /\ action.output = pending.output
              /\ action.page = observation
    /\ pc # "verify" => Dicts.last_step = 0

\* What changes nothing of the turns and attempts keeps them matched.
LEMMA MatchedKept ==
    ASSUME Going, Matched, pc # "verify", pc' # "verify", history' = history,
           Dicts'.actions = Dicts.actions, Dicts'.post_roots = Dicts.post_roots,
           Dicts'.last_step = Dicts.last_step
    PROVE  Matched'
<1>1. MatchedNow
  BY DEF Matched, MatchedNow
<1>2. MatchedNow'
  BY <1>1 DEF MatchedNow
<1> QED
  BY <1>2 DEF Matched, MatchedNow

LEMMA MatchedStep ==
    ASSUME Typed, TypeOK', AtNodes, AttemptsDiffer, Found, Matched, GoalTold, RecordedNext
    PROVE  Matched'
<1>1. budget.llm_calls \in Nat /\ history \in Seq(Turn) /\ Len(history) \in Nat
  BY DEF Typed, TypeOK
<1>2. Dicts.actions \in Seq(Entries)
  BY PassIsDicts DEF Typed, IsDicts, Dicts
<1>3. CASE RecordedObserve
  <2>1. history' = history /\ pc = "observe" /\ pc' = "decide"
    BY <1>3 DEF RecordedObserve, Observe
  <2>2. Going /\ Dicts.last_step = 0
    BY <2>1 DEF Going, Matched
  <2>3. CASE trace' = trace
    BY <2>1, <2>2, <2>3, MatchedKept DEF Dicts
  <2>4. CASE SeesPage(Dicts, observation', Dicts')
    BY <2>1, <2>2, <2>4, MatchedKept DEF SeesPage
  <2> QED
    BY <1>3, <2>3, <2>4, ObserveTells
<1>4. CASE RecordedDecide
  <2>1. history' = history /\ pc = "decide" /\ pc' # "verify"
    BY <1>4, Places DEF RecordedDecide, Decide
  <2>2. Going
    BY <2>1 DEF Going
  <2>3. CASE trace' = trace
    BY <2>1, <2>2, <2>3, MatchedKept DEF Dicts
  <2>4. CASE Decides(Dicts, budget'.llm_calls, Dicts')
    BY <2>1, <2>2, <2>4, MatchedKept DEF Decides
  <2> QED
    BY <1>4, <2>3, <2>4, DecideTells
<1>5. CASE RecordedCheck
  <2>1. history' = history /\ pc = "check_policy" /\ pc' # "verify"
    BY <1>5, Places DEF RecordedCheck, CheckPolicy, memory
  <2>2. Going
    BY <2>1 DEF Going
  <2>3. Same(Dicts, Dicts')
    BY <1>5, CheckTells DEF Quietly
  <2> QED
    BY <2>1, <2>2, <2>3, MatchedKept DEF Same
<1>6. CASE RecordedAct
  <2>1. /\ pc = "act" /\ history' = history /\ pending' = pending /\ observation' = observation
        /\ budget'.llm_calls = budget.llm_calls
        /\ verdict' = verdict /\ resumed' = resumed
        /\ status = "running"
    BY <1>6 DEF RecordedAct, Act, where, Typed, TypeOK, AtNodes
  <2>2. CASE pc' # "verify"
    <3>1. status' \in {"policy_denied", "surface_error"} /\ pc' \in {"terminal", "raise_escalation"}
      BY <1>6, <2>1, <2>2 DEF RecordedAct, Act, Route
    <3>2. ~Escalating
      BY <2>1 DEF AtNodes
    <3>3. ~Going'
      BY <2>1, <3>1, <3>2 DEF Going, Escalating
    <3> QED
      BY <3>3 DEF Matched
  <2>3. CASE pc' = "verify"
    <3>1. status' = "running"
      BY <1>6, <2>3 DEF RecordedAct, Act, Route
    <3>2. PICK r : Attempting(r)
      BY <1>6, <3>1, ActTells
    <3>0. PICK legible \in BOOLEAN :
              Tries(Dicts, Attempted(observation, budget.llm_calls, pending, legible), Dicts')
      BY <3>2 DEF Attempting
    <3> DEFINE attempt == Attempted(observation, budget.llm_calls, pending, legible)
    <3>3. Tries(Dicts, attempt, Dicts')
      BY <3>0
    <3>4. /\ attempt.page = observation /\ attempt.step = budget.llm_calls
          /\ attempt.key = pending.key /\ attempt.output = pending.output
      BY DEF Attempted
    <3> HIDE DEF attempt
    <3>5. /\ Len(Dicts'.actions) = Len(Dicts.actions) + 1
          /\ \A n \in 1 .. Len(Dicts.actions) : Dicts'.actions[n] = Dicts.actions[n]
          /\ Dicts'.actions[Len(Dicts.actions) + 1] = attempt
      <4>1. Dicts.actions \in Seq(Entries \cup {attempt})
        BY <1>2, SeqMonotonic
      <4>2. Dicts'.actions = Append(Dicts.actions, attempt)
        BY <3>3 DEF Tries
      <4> QED
        BY <4>1, <4>2
    <3>6. MatchedNow
      BY <2>1 DEF Matched, MatchedNow, Going
    <3>7. Len(Dicts.actions) = Len(history)
      BY <1>1, <2>1, <3>6 DEF MatchedNow
    <3>8. ASSUME NEW n \in DOMAIN history
          PROVE  /\ Dicts'.actions[n].key = history[n].key
                 /\ Dicts'.actions[n].output = history[n].output
                 /\ Dicts'.actions[n].step \in DOMAIN Dicts'.post_roots
                 /\ (Dicts'.actions[n].page # Dicts'.post_roots[Dicts'.actions[n].step])
                        = history[n].changed
                 /\ Dicts'.actions[n].step # budget.llm_calls
      <4>1. n \in 1 .. Len(Dicts.actions) /\ n \in DOMAIN Dicts.actions
        BY <1>1, <1>2, <3>7
      <4>2. Dicts'.actions[n] = Dicts.actions[n] /\ Dicts'.post_roots = Dicts.post_roots
        BY <3>3, <3>5, <4>1 DEF Tries
      <4>3. Dicts.actions[n].step # budget.llm_calls
        BY <2>1, <4>1 DEF Found
      <4> QED
        BY <3>6, <4>2, <4>3 DEF MatchedNow
    <3>9. Len(Dicts'.actions) = Len(history) + 1
      BY <3>5, <3>7
    <3>10. Dicts'.actions[Len(Dicts'.actions)] = attempt /\ Dicts'.last_step = budget.llm_calls
      BY <3>3, <3>4, <3>5 DEF Tries
    <3>11. MatchedNow'
      BY <2>1, <2>3, <3>4, <3>8, <3>9, <3>10 DEF MatchedNow
    <3> QED
      BY <3>11 DEF Matched, MatchedNow
  <2> QED
    BY <2>2, <2>3
<1>7. CASE RecordedVerify
  <2>1. /\ pc = "verify" /\ pc' # "verify" /\ budget' = budget
        /\ verdict' = verdict /\ resumed' = resumed
    BY <1>7, Places DEF RecordedVerify, Verify, where
  <2>2. SeesPage(Dicts, observation', Dicts')
    BY <1>7, VerifyTells
  <2>3. MatchedNow
    BY <2>1 DEF Matched, MatchedNow, Going
  <2> DEFINE last == Dicts.actions[Len(Dicts.actions)]
             calls == budget.llm_calls
  <2>4. /\ Len(Dicts.actions) = Len(history) + 1 /\ last.step = calls
        /\ Dicts.last_step = calls /\ last.page = observation
        /\ last.key = pending.key /\ last.output = pending.output
    BY <2>1, <2>3 DEF MatchedNow
  <2>5. calls # 0
    <3>1. Len(Dicts.actions) \in DOMAIN Dicts.actions
      BY <1>1, <1>2, <2>4
    <3>2. last.step \in 1 .. calls
      BY <3>1 DEF Found
    <3> QED
      BY <1>1, <2>4, <3>2
  <2>6. /\ Dicts'.actions = Dicts.actions /\ Dicts'.last_step = 0
        /\ Dicts'.post_roots = Put(Dicts.post_roots, calls, observation')
    BY <2>2, <2>4, <2>5 DEF SeesPage
  <2>7. CASE status' = "policy_denied" /\ history' = history
    <3>1. pc' \in {"terminal", "raise_escalation"}
      BY <1>7, <2>7 DEF RecordedVerify, Verify, Route
    <3>2. ~Escalating
      BY <2>1 DEF AtNodes
    <3>3. ~Going'
      BY <2>1, <2>7, <3>1, <3>2 DEF Going, Escalating
    <3> QED
      BY <3>3 DEF Matched
  <2>8. CASE history' = Append(history, [key |-> pending.key, output |-> pending.output,
                                         changed |-> observation' # observation])
    <3> DEFINE turn == [key |-> pending.key, output |-> pending.output,
                        changed |-> observation' # observation]
    <3>1. turn \in Turn
      <4>1. pending.key \in Keys \cup {None} /\ pending.output \in Outputs \cup {None}
        BY DEF Typed, TypeOK
      <4> QED
        BY <4>1 DEF Turn
    <3>2. /\ turn.key = pending.key /\ turn.output = pending.output
          /\ turn.changed = (observation' # observation)
      OBVIOUS
    <3> HIDE DEF turn
    <3>3. /\ Len(history') = Len(history) + 1 /\ DOMAIN history' = 1 .. Len(history) + 1
          /\ \A n \in 1 .. Len(history) : history'[n] = history[n]
          /\ history'[Len(history) + 1] = turn
      BY <1>1, <2>8, <3>1 DEF turn
    <3>4. ASSUME NEW n \in 1 .. Len(history) + 1
          PROVE  /\ Dicts'.actions[n].key = history'[n].key
                 /\ Dicts'.actions[n].output = history'[n].output
                 /\ Dicts'.actions[n].step \in DOMAIN Dicts'.post_roots
                 /\ (Dicts'.actions[n].page # Dicts'.post_roots[Dicts'.actions[n].step])
                        = history'[n].changed
      <4>1. CASE n = Len(history) + 1
        <5>1. Dicts'.actions[n] = last
          BY <2>4, <2>6, <4>1
        <5>2. calls \in DOMAIN Dicts'.post_roots /\ Dicts'.post_roots[calls] = observation'
          BY <2>6 DEF Put
        <5>3. (last.page # observation') = (observation' # observation)
          BY <2>4
        <5> QED
          BY <2>4, <3>2, <3>3, <4>1, <5>1, <5>2, <5>3
      <4>2. CASE n \in 1 .. Len(history)
        <5> DEFINE action == Dicts.actions[n]
        <5>1. n \in DOMAIN history
          BY <1>1, <4>2
        <5>2. /\ action.key = history[n].key /\ action.output = history[n].output
              /\ action.step \in DOMAIN Dicts.post_roots
              /\ (action.page # Dicts.post_roots[action.step]) = history[n].changed
              /\ action.step # calls
          BY <2>1, <2>3, <5>1 DEF MatchedNow
        <5>3. /\ action.step \in DOMAIN Dicts'.post_roots
              /\ Dicts'.post_roots[action.step] = Dicts.post_roots[action.step]
          BY <2>6, <5>2 DEF Put
        <5> QED
          BY <2>6, <3>3, <4>2, <5>2, <5>3
      <4> QED
        BY <1>1, <4>1, <4>2
    <3>5. Len(Dicts'.actions) = Len(history')
      BY <2>4, <2>6, <3>3
    <3>6. MatchedNow'
      BY <2>1, <2>6, <3>3, <3>4, <3>5, <1>1 DEF MatchedNow
    <3> QED
      BY <3>6 DEF Matched, MatchedNow
  <2> QED
    BY <1>7, <2>7, <2>8 DEF RecordedVerify, Verify
<1>8. CASE RecordedTerminal
  <2>1. /\ pc = "terminal" /\ pc' = "over" /\ status' = status /\ history' = history
        /\ verdict' = verdict /\ resumed' = resumed
    BY <1>8 DEF RecordedTerminal, Terminal, memory, where
  <2>2. Going' => Going
    BY <2>1 DEF Going, Escalating
  <2> QED
    BY <1>8, <2>1, <2>2, TerminalTells, MatchedKept DEF Same, Matched
<1>9. CASE RecordedEscalation
  <2>1. /\ pc = "raise_escalation" /\ pc' = "interrupt_handoff" /\ status' = status
        /\ history' = history /\ verdict' = verdict /\ resumed' = resumed
    BY <1>9 DEF RecordedEscalation, RaiseEscalation, memory, where
  <2>2. Going' => Going
    BY <2>1 DEF Going, Escalating
  <2> QED
    BY <1>9, <2>1, <2>2, EscalationTells, MatchedKept DEF Same, Matched, Quietly
<1>10. CASE RecordedConfirm
  <2>1. pc = "interrupt_handoff" /\ Escalating /\ history' = history
    BY <1>10 DEF RecordedConfirm, Confirm, memory, Escalating
  <2>2. Going
    BY <2>1 DEF Going
  <2>3. pc' # "verify" /\ Same(Dicts, Dicts')
    BY <1>10, ConfirmTells, Places DEF Quietly
  <2> QED
    BY <2>1, <2>2, <2>3, MatchedKept DEF Same
<1>11. CASE RecordedRaise \/ RecordedRefuse
  <2>1. /\ pc' = "closed" /\ status' = status /\ history' = history
        /\ pc \in {"decide", "act", "verify", "interrupt_handoff", "over"}
    BY <1>11, Places DEF RecordedRaise, Raise, RecordedRefuse, Refuse, memory
  <2>2. CASE pc = "over"
    <3>1. Same(Dicts, Dicts')
      BY <1>11, <2>2, RaiseTells, RefuseTells
    <3>2. Going' => Going
      BY <2>1 DEF Going
    <3> QED
      BY <2>1, <2>2, <3>1, <3>2, MatchedKept DEF Same, Matched
  <2>3. CASE pc # "over"
    <3>1. status # "goal_reached"
      BY <2>1, <2>3 DEF AtNodes
    <3> QED
      BY <2>1, <3>1 DEF Going, Matched
  <2> QED
    BY <2>2, <2>3
<1>12. CASE Reconstruct
  <2>1. /\ pc = "closed" /\ pc' = "closed" /\ status' = status /\ history' = history
        /\ verdict' = verdict /\ resumed' = resumed
    BY <1>12 DEF Reconstruct, vars, memory, where
  <2>2. Going' => Going
    BY <2>1 DEF Going
  <2> QED
    BY <1>12, <2>1, <2>2, ReconstructTells, MatchedKept DEF Matched
<1>13. CASE RecordedLeave
  <2>1. pc = "over" /\ pc' = "closed" /\ status' = status /\ history' = history
    BY <1>13 DEF RecordedLeave, Leave, memory
  <2>2. Going' => Going
    BY <2>1 DEF Going
  <2>3. Dicts' = Dicts
    BY <1>13, LeaveTells DEF Dicts
  <2> QED
    BY <2>1, <2>2, <2>3, MatchedKept DEF Matched
<1> QED
  BY <1>3, <1>4, <1>5, <1>6, <1>7, <1>8, <1>9, <1>10, <1>11, <1>12, <1>13
     DEF RecordedNext

\* A run has reached its goal when it says so, and has a turn to show.
LEMMA GoalToldStep ==
    ASSUME TypeOK, AtNodes, Proposed, GoalTold, RecordedNext
    PROVE  GoalTold'
<1>1. history \in Seq(Turn)
  BY DEF TypeOK
<1>2. CASE RecordedVerify
  <2> SUFFICES ASSUME status' = "goal_reached"
               PROVE  history' # <<>> /\ history'[Len(history')].output # None
    BY DEF GoalTold
  <2>1. pc = "verify" /\ status = "running"
    BY <1>2 DEF RecordedVerify, Verify, AtNodes
  <2>2. /\ pending.kind = "read"
        /\ \E changed \in BOOLEAN :
               history' = Append(history, [key |-> pending.key, output |-> pending.output,
                                           changed |-> changed])
    BY <1>2, <2>1 DEF RecordedVerify, Verify
  <2>3. PICK turn \in Turn : history' = Append(history, turn) /\ turn.output = pending.output
    <3>1. pending.key \in Keys \cup {None} /\ pending.output \in Outputs \cup {None}
      BY DEF TypeOK
    <3> QED
      BY <2>2, <3>1 DEF Turn
  <2>4. pending.output # None
    BY <2>1, <2>2 DEF Proposed
  <2> QED
    BY <1>1, <2>3, <2>4
<1>3. CASE ~RecordedVerify
  <2>1. history' = history
    BY <1>3 DEF RecordedNext, RecordedObserve, Observe, RecordedDecide, Decide, RecordedCheck,
                CheckPolicy, RecordedAct, Act, RecordedTerminal, Terminal, RecordedLeave, Leave,
                RecordedEscalation, RaiseEscalation, RecordedRaise, Raise, RecordedConfirm,
                Confirm, RecordedRefuse, Refuse, Reconstruct, vars, memory
  <2>2. status' = status \/ status' # "goal_reached"
    <3>1. CASE RecordedCheck
      <4>1. verdict' \in {"allow", "deny", "escalate"}
        BY <3>1, Verdicts, DiscoveryAssumption DEF RecordedCheck, CheckPolicy, TypeOK
      <4> QED
        BY <3>1, <4>1 DEF RecordedCheck, CheckPolicy
    <3>2. CASE ~RecordedCheck
      BY <1>3, <3>2 DEF RecordedNext, RecordedObserve, Observe, RecordedDecide, Decide,
                  RecordedAct, Act, RecordedTerminal, Terminal, RecordedLeave, Leave,
                  RecordedEscalation, RaiseEscalation, RecordedRaise, Raise, RecordedConfirm,
                  Confirm, RecordedRefuse, Refuse, Reconstruct, vars
    <3> QED
      BY <3>1, <3>2
  <2> QED
    BY <2>1, <2>2 DEF GoalTold
<1> QED
  BY <1>2, <1>3

-----------------------------------------------------------------------------
(* The invariant of the recorded run                                       *)

LEMMA RecordedStart ==
    ASSUME RecordedInit
    PROVE  RecordedInv
<1>1. IInv
  BY InductiveInit DEF RecordedInit
<1>2. /\ pc = "observe" /\ status = "running" /\ observation = None /\ verdict = "none"
      /\ budget.llm_calls = 0 /\ history = <<>> /\ ended = <<>> /\ confirmed = 0
      /\ trace = <<>>
  BY DEF RecordedInit, Init
<1>3. Len(<<>>) = 0 /\ DOMAIN <<>> = {} /\ <<>> \in Seq(Entries)
  OBVIOUS
<1>4. \A type : OfType(<<>>, type) = {}
  BY <1>3 DEF OfType
<1>5. ReadResults(<<>>) = {} /\ ReadTurns(<<>>) = {} /\ Decisions(<<>>, "escalate") = {}
  BY <1>3, <1>4 DEF ReadResults, ReadTurns, Decisions
<1>6. Cardinality({}) = 0
  BY FS_EmptySet
<1>7. Dicts = Blank
  <2>1. Len(trace) \in Nat /\ Len(trace) = 0
    BY <1>2, <1>3
  <2>2. PICK d : d[0] = Blank /\ Pass(trace) = d[Len(trace)]
    BY <2>1, PassGoesOn
  <2> QED
    BY <2>1, <2>2 DEF Dicts
<1>8. Attempts = {} /\ ~Reconstructed
  BY <1>2, <1>4 DEF Attempts, Reconstructed
<1>9. /\ Dicts.actions = <<>> /\ Dicts.last_step = 0
  BY <1>7 DEF Blank
<1>10. Telling
  <2>1. EndTold /\ EscalationTold /\ Proposed /\ AttemptsDiffer /\ ReadingsNamed
    BY <1>2, <1>3, <1>4, <1>8
       DEF EndTold, EscalationTold, Proposed, AttemptsDiffer, ReadingsNamed
  <2>2. CallsTold /\ ReadingsTold
    <3>1. /\ OfType(trace, "ModelDecided") = {} /\ ReadResults(trace) = {}
          /\ ReadTurns(history) = {}
      BY <1>2, <1>4, <1>5
    <3>2. pc # "verify" /\ pc # "closed" /\ budget.llm_calls = 0 /\ 0 \in 0 .. 0 + 0
      BY <1>2
    <3>3. CallsTold
      BY <1>6, <3>1, <3>2 DEF CallsTold
    <3>4. ReadingsTold
      BY <1>6, <3>1, <3>2 DEF ReadingsTold
    <3> QED
      BY <3>3, <3>4
  <2> QED
    BY <1>2, <1>3, <2>1, <2>2 DEF Telling
<1>11. Compiling
  <2>1. Found
    BY <1>2, <1>3, <1>8, <1>9 DEF Found
  <2>2. Matched
    BY <1>2, <1>3, <1>9 DEF Matched
  <2>3. GoalTold
    BY <1>2 DEF GoalTold
  <2> QED
    BY <2>1, <2>2, <2>3 DEF Compiling
<1> QED
  BY <1>1, <1>10, <1>11 DEF RecordedInv

LEMMA RecordedStep ==
    ASSUME RecordedInv, [RecordedNext]_recorded
    PROVE  RecordedInv'
<1>1. IInv'
  BY Underneath, InductiveStep DEF RecordedInv
<1>2. CASE UNCHANGED recorded
  <2>1. UNCHANGED <<vars, trace, redacting>>
    BY <1>2 DEF recorded
  <2>2. UNCHANGED <<pc, status, observation, pending, verdict, budget, history, resumed, ended,
                    confirmed, trace, redacting>>
    BY <2>1 DEF vars, memory, where, journal, ghost
  <2>3. Telling'
    BY <2>2 DEF RecordedInv, Telling, EndTold, CallsTold, EscalationTold, Proposed,
                ReadingsTold, AttemptsDiffer, ReadingsNamed, Attempts
  <2>4. Found'
    BY <2>2 DEF RecordedInv, Compiling, Found, Dicts, Reconstructed
  <2>5. Matched'
    BY <2>2 DEF RecordedInv, Compiling, Matched, Going, Escalating, Dicts
  <2>6. GoalTold'
    BY <2>2 DEF RecordedInv, Compiling, GoalTold
  <2> QED
    BY <1>1, <2>3, <2>4, <2>5, <2>6 DEF RecordedInv, Compiling
<1>3. CASE RecordedNext
  <2>1. Typed /\ AtNodes /\ EndsOnce /\ TypeOK'
    BY <1>1 DEF RecordedInv, IInv, Telling, Typed
  <2>2. /\ EndTold /\ CallsTold /\ EscalationTold /\ Proposed /\ ReadingsTold
        /\ AttemptsDiffer /\ ReadingsNamed /\ Found /\ Matched /\ GoalTold
    BY DEF RecordedInv, Telling, Compiling
  <2>3. trace' \in Seq(Entries)
    BY <1>3, <2>1, StepTells DEF Keeping, Attempting, TellsTheEnd, More
  <2>4. EndTold' /\ CallsTold' /\ EscalationTold'
    BY <1>3, <2>1, <2>2, EndToldStep, CallsToldStep, EscalationToldStep
  <2>5. Proposed' /\ ReadingsTold' /\ AttemptsDiffer' /\ ReadingsNamed'
    BY <1>3, <2>1, <2>2, ProposedStep, ReadingsToldStep, AttemptsStep, ReadingsNamedStep
  <2>6. Found' /\ Matched' /\ GoalTold'
    BY <1>3, <2>1, <2>2, FoundStep, MatchedStep, GoalToldStep DEF Typed
  <2> QED
    BY <1>1, <2>3, <2>4, <2>5, <2>6 DEF RecordedInv, Telling, Compiling
<1> QED
  BY <1>2, <1>3

\* What a recorded run keeps.
THEOREM RecordedInvariant == RecordedSpec => []RecordedInv
<1>1. RecordedInit => RecordedInv
  BY RecordedStart
<1>2. RecordedInv /\ [RecordedNext]_recorded => RecordedInv'
  BY RecordedStep
<1> QED
  BY <1>1, <1>2, PTL DEF RecordedSpec

\* The records are those of a discovery run: what is proved of DiscoveryAgent
\* holds of what is journaled.
THEOREM RecordedRunsAreRuns == RecordedSpec => Spec
<1>1. RecordedInit => Init
  BY DEF RecordedInit
<1>2. [RecordedNext]_recorded => [Next]_vars
  BY Underneath
<1> QED
  BY <1>1, <1>2, PTL DEF RecordedSpec, Spec

LEMMA ManifestFollows ==
    ASSUME RecordedInv
    PROVE  ManifestTellsTheRun
<1> DEFINE manifest == WriteManifest(trace)
           valueless == ReadResults(trace) \ Readings(trace)
<1> SUFFICES ASSUME pc = "closed"
             PROVE  IF Len(ended) = 2 THEN manifest.error = "not an amendment"
                    ELSE /\ manifest.error = "none"
                         /\ ended = <<manifest.status>>
                         /\ manifest.counts.calls \in budget.llm_calls .. budget.llm_calls + 1
                         /\ confirmed <= manifest.counts.escalated
                         /\ Cardinality(ReadTurns(history))
                                <= manifest.outputs + Cardinality(valueless)
  BY DEF ManifestTellsTheRun, ReadTurns
<1>1. /\ trace \in Seq(Entries) /\ EndTold /\ Len(ended) \in {1, 2}
      /\ DOMAIN trace = 1 .. Len(trace) /\ Len(trace) \in Nat
  BY DEF RecordedInv, IInv, Telling, EndsOnce
<1>2. CASE Len(ended) = 2
  <2>1. PICK e \in DOMAIN trace, f \in DOMAIN trace :
            e < f /\ OfType(trace, "RunEnded") = {e, f}
    BY <1>1, <1>2 DEF EndTold
  <2>2. e \in Nat /\ f \in Nat /\ f \in e + 1 .. Len(trace)
    BY <1>1, <2>1
  <2>3. Earliest({e, f}) = e
    BY <2>1, <2>2 DEF Earliest
  <2>4. trace[f].type \notin Amendments
    BY <2>1 DEF OfType, Amendments
  <2>5. manifest = Unwritten("not an amendment")
    BY <2>1, <2>2, <2>3, <2>4 DEF WriteManifest
  <2> HIDE DEF manifest
  <2> QED
    BY <1>2, <2>5 DEF Unwritten
<1>3. CASE Len(ended) = 1
  <2>1. PICK e \in DOMAIN trace : /\ OfType(trace, "RunEnded") = {e}
                                  /\ ended = <<trace[e].result>>
                                  /\ \A i \in e + 1 .. Len(trace) : trace[i].type \in Amendments
    BY <1>1, <1>3 DEF EndTold
  <2>2. Earliest({e}) = e /\ Latest({e}) = e
    BY <1>1, <2>1 DEF Earliest, Latest
  <2>3. manifest = Summary(trace)
    BY <2>1, <2>2 DEF WriteManifest
  <2>4. /\ manifest.error = "none" /\ manifest.status = trace[e].result
        /\ manifest.outputs = Cardinality(Readings(trace))
        /\ manifest.counts.calls = Cardinality(OfType(trace, "ModelDecided"))
        /\ manifest.counts.escalated = Cardinality(Decisions(trace, "escalate"))
    <3>1. Summary(trace).status = trace[e].result
      BY <2>1, <2>2 DEF Summary
    <3>2. /\ Tally(trace).calls = Cardinality(OfType(trace, "ModelDecided"))
          /\ Tally(trace).escalated = Cardinality(Decisions(trace, "escalate"))
      BY DEF Tally
    <3>3. /\ Summary(trace).error = "none"
          /\ Summary(trace).outputs = Cardinality(Readings(trace))
          /\ Summary(trace).counts = Tally(trace)
      BY DEF Summary
    <3> HIDE DEF manifest
    <3> QED
      BY <2>3, <3>1, <3>2, <3>3
  <2>5. confirmed <= Cardinality(Decisions(trace, "escalate"))
    <3>1. confirmed \in Nat /\ confirmed <= 1
      BY DEF RecordedInv, IInv, TypeOK, Humans
    <3>2. /\ IsFiniteSet(Decisions(trace, "escalate"))
          /\ Cardinality(Decisions(trace, "escalate")) \in Nat
      BY <1>1, Tallies, FS_CardinalityType
    <3>3. confirmed > 0 => Cardinality(Decisions(trace, "escalate")) # 0
      BY <3>2, FS_EmptySet DEF RecordedInv, Telling, EscalationTold
    <3> QED
      BY <3>1, <3>2, <3>3
  <2>6. Cardinality(ReadTurns(history))
            <= Cardinality(Readings(trace)) + Cardinality(valueless)
    <3>1. Len(history) \in Nat /\ DOMAIN history = 1 .. Len(history)
      BY DEF RecordedInv, IInv, TypeOK
    <3>2. ReadTurns(history) \subseteq 1 .. Len(history) /\ IsFiniteSet(1 .. Len(history))
      BY <3>1, FS_Interval DEF ReadTurns
    <3>3. Cardinality(ReadTurns(history)) \in Nat
      BY <3>2, FS_Subset, FS_CardinalityType
    <3>4. Cardinality(ReadTurns(history)) <= Cardinality(ReadResults(trace))
      <4>1. ReadingsTold /\ pc # "verify"
        BY DEF RecordedInv, Telling
      <4>2. Cardinality(ReadTurns(history)) + 0 <= Cardinality(ReadResults(trace))
        BY <4>1 DEF ReadingsTold
      <4> QED
        BY <3>3, <4>2
    <3>5. /\ ReadResults(trace) \subseteq DOMAIN trace /\ IsFiniteSet(DOMAIN trace)
          /\ Readings(trace) \subseteq ReadResults(trace)
      <4>1. ReadResults(trace) \subseteq DOMAIN trace
        BY DEF ReadResults, OfType
      <4>2. IsFiniteSet(DOMAIN trace)
        BY <1>1, FS_Interval
      <4>3. Readings(trace) \subseteq ReadResults(trace)
        BY DEF Readings
      <4> QED
        BY <4>1, <4>2, <4>3
    <3>6. IsFiniteSet(ReadResults(trace)) /\ IsFiniteSet(Readings(trace))
      BY <3>5, FS_Subset
    <3>7. ReadResults(trace) \cap Readings(trace) = Readings(trace)
      BY <3>5
    <3>8. Cardinality(valueless)
              = Cardinality(ReadResults(trace)) - Cardinality(Readings(trace))
      BY <3>6, <3>7, FS_Difference
    <3>9. /\ Cardinality(ReadResults(trace)) \in Nat
          /\ Cardinality(Readings(trace)) \in Nat
      BY <3>6, FS_CardinalityType
    <3> HIDE DEF valueless
    <3> QED
      BY <3>3, <3>4, <3>8, <3>9
  <2>7. manifest.counts.calls \in budget.llm_calls .. budget.llm_calls + 1
    BY <2>4 DEF RecordedInv, Telling, CallsTold
  <2> QED
    BY <1>3, <2>1, <2>4, <2>5, <2>6, <2>7
<1> QED
  BY <1>1, <1>2, <1>3

\* The manifest of a closed run tells how it went, if its end was journaled
\* once, and cannot be written otherwise.
THEOREM ManifestIsTrue == RecordedSpec => []ManifestTellsTheRun
<1>1. RecordedInv => ManifestTellsTheRun
  BY ManifestFollows
<1> QED
  BY <1>1, RecordedInvariant, PTL

\* What is compiled is a step for each action, if no lookup fails.
LEMMA CompiledIs ==
    ASSUME NEW s \in Seq(Entries)
    PROVE  LET d == Pass(s)
               c == CompileRun(s)
           IN /\ /\ d.metadata /\ Legible(d.actions) /\ Coherent(d.actions)
                 /\ \A n \in DOMAIN d.actions : Attributable(d, d.actions[n])
                 => c.error = "none"
              /\ c.error = "none" =>
                     /\ Legible(d.actions) /\ Coherent(d.actions)
                     /\ Len(c.steps) = Len(d.actions) /\ DOMAIN c.steps = DOMAIN d.actions
                     /\ \A n \in DOMAIN d.actions :
                            /\ Attributable(d, d.actions[n])
                            /\ c.steps[n] = CompiledStep(d, d.actions[n])
<1> DEFINE d == Pass(s)
           c == CompileRun(s)
           compiled == [i \in DOMAIN d.actions |-> CompiledStep(d, d.actions[i])]
<1>1. c = CASE ~d.metadata -> Failure("no target")
            [] d.metadata /\ \E i \in DOMAIN d.actions :
                                 ~Attributable(d, d.actions[i]) -> Failure("key")
            [] OTHER -> IF Legible(d.actions) /\ Coherent(d.actions)
                        THEN [error |-> "none", steps |-> compiled]
                        ELSE Failure("validation")
  BY DEF CompileRun
<1>2. d.actions \in Seq(Entries)
  BY PassIsDicts DEF IsDicts
<1>3. /\ Failure("no target").error # "none" /\ Failure("key").error # "none"
      /\ Failure("validation").error # "none"
  BY DEF Failure
<1>4. DOMAIN compiled = 1 .. Len(d.actions) /\ Len(d.actions) \in Nat
  BY <1>2
<1>5. Len(compiled) = Len(d.actions)
  BY <1>4, LenProperties
<1> HIDE DEF d, c
<1>6. ASSUME c.error = "none"
      PROVE  /\ c = [error |-> "none", steps |-> compiled]
             /\ Legible(d.actions) /\ Coherent(d.actions)
             /\ \A n \in DOMAIN d.actions : Attributable(d, d.actions[n])
  <2>1. d.metadata
    BY <1>1, <1>3, <1>6
  <2>2. \A n \in DOMAIN d.actions : Attributable(d, d.actions[n])
    BY <1>1, <1>3, <1>6, <2>1
  <2>3. Legible(d.actions) /\ Coherent(d.actions)
    BY <1>1, <1>3, <1>6, <2>1, <2>2
  <2> QED
    BY <1>1, <2>1, <2>2, <2>3
<1>7. ASSUME d.metadata, Legible(d.actions), Coherent(d.actions),
             \A n \in DOMAIN d.actions : Attributable(d, d.actions[n])
      PROVE  c.error = "none"
  BY <1>1, <1>7
<1> QED
  BY <1>5, <1>6, <1>7 DEF d, c

-----------------------------------------------------------------------------
(* The pass and the journal as a whole                                     *)

\* Attempts of one decision are one attempt, and decisions are counted from 1.
StepsDiffer(s) ==
    /\ \A i \in OfType(s, "ActionAttempted") : s[i].step \in Nat \ {0}
    /\ \A i, j \in OfType(s, "ActionAttempted") : s[i].step = s[j].step => i = j

\* The records of a type up to position n, and those on a page.
UpTo(s, type, n) == {i \in OfType(s, type) : i <= n}

\* d has the last observation of each page up to n.
LastSeen(s, d, n) ==
    \A page \in DOMAIN d.observed :
        \E j \in UpTo(s, "Observed", n) :
            /\ s[j].page = page /\ d.observed[page] = s[j].id
            /\ \A k \in UpTo(s, "Observed", n) : s[k].page = page => k <= j

AllowedOn(s, page, n) ==
    {i \in UpTo(s, "PolicyDecision", n) : s[i].verdict = "allow" /\ s[i].page = page}

\* d has the last rule of each page up to n, if there is one.
LastAllowed(s, d, n) ==
    /\ \A page \in DOMAIN d.policies :
           \E j \in AllowedOn(s, page, n) :
               /\ d.policies[page] = s[j].rule
               /\ \A k \in AllowedOn(s, page, n) : k <= j
    /\ \A page : page \notin DOMAIN d.policies => AllowedOn(s, page, n) = {}

\* d knows the attempt that waits for its observation, if there is one, and of
\* every other the first observation after it.
FirstAfter(s, d, n) ==
    /\ d.last_step # 0 =>
           \E i \in UpTo(s, "ActionAttempted", n) :
               /\ s[i].step = d.last_step
               /\ \A k \in UpTo(s, "Observed", n) : k <= i
    /\ \A step \in DOMAIN d.post_roots :
           \E i \in UpTo(s, "ActionAttempted", n) : s[i].step = step
    /\ \A i \in UpTo(s, "ActionAttempted", n) :
           s[i].step \in DOMAIN d.post_roots =>
               \E j \in UpTo(s, "Observed", n) :
                   /\ i < j /\ d.post_roots[s[i].step] = s[j].page
                   /\ \A k \in UpTo(s, "Observed", n) : i < k => j <= k

\* d has the attempts up to n, in their order.
InOrder(s, d, n) ==
    /\ Len(d.actions) = Cardinality(UpTo(s, "ActionAttempted", n))
    /\ \A i \in UpTo(s, "ActionAttempted", n) :
           LET m == Cardinality(UpTo(s, "ActionAttempted", i))
           IN m \in DOMAIN d.actions /\ d.actions[m] = s[i]
    /\ \A m \in DOMAIN d.actions :
           \E i \in UpTo(s, "ActionAttempted", n) :
               Cardinality(UpTo(s, "ActionAttempted", i)) = m

\* One record more is after those before it.
LEMMA UpToNext ==
    ASSUME NEW s \in Seq(Entries), NEW n \in Nat, n + 1 <= Len(s), NEW type
    PROVE  /\ UpTo(s, type, n + 1) =
                  UpTo(s, type, n) \cup (IF s[n + 1].type = type THEN {n + 1} ELSE {})
           /\ \A i \in UpTo(s, type, n) : i \in 1 .. n /\ s[i].type = type
           /\ s[n + 1] \in Entries
<1>1. n + 1 \in 1 .. Len(s) /\ DOMAIN s = 1 .. Len(s)
  OBVIOUS
<1>2. s[n + 1] \in Entries
  BY <1>1, ElementOfSeq
<1> QED
  BY <1>1, <1>2 DEF UpTo, OfType

LEMMA LastSeenNext ==
    ASSUME NEW s \in Seq(Entries), NEW n \in Nat, n + 1 <= Len(s), NEW d, NEW e,
           LastSeen(s, d, n), ReadsOne(d, s[n + 1], e)
    PROVE  LastSeen(s, e, n + 1)
<1> DEFINE r == s[n + 1]
           old == UpTo(s, "Observed", n)
           new == UpTo(s, "Observed", n + 1)
<1>1. /\ new = old \cup (IF r.type = "Observed" THEN {n + 1} ELSE {})
      /\ \A i \in old : i \in 1 .. n
  BY UpToNext
<1>2. CASE r.type # "Observed"
  BY <1>1, <1>2 DEF LastSeen, ReadsOne
<1>3. CASE r.type = "Observed"
  <2>1. e.observed = Put(d.observed, r.page, r.id) /\ new = old \cup {n + 1}
    BY <1>1, <1>3 DEF ReadsOne
  <2> SUFFICES ASSUME NEW page \in DOMAIN e.observed
               PROVE  \E j \in new : /\ s[j].page = page /\ e.observed[page] = s[j].id
                                     /\ \A k \in new : s[k].page = page => k <= j
    BY DEF LastSeen
  <2>2. CASE page = r.page
    <3>1. e.observed[page] = r.id
      BY <2>1, <2>2 DEF Put
    <3> QED
      BY <1>1, <2>1, <2>2, <3>1
  <2>3. CASE page # r.page
    <3>1. page \in DOMAIN d.observed /\ e.observed[page] = d.observed[page]
      BY <2>1, <2>3 DEF Put
    <3>2. PICK j \in old : /\ s[j].page = page /\ d.observed[page] = s[j].id
                           /\ \A k \in old : s[k].page = page => k <= j
      BY <3>1 DEF LastSeen
    <3> QED
      BY <2>1, <2>3, <3>1, <3>2
  <2> QED
    BY <2>2, <2>3
<1> QED
  BY <1>2, <1>3

LEMMA LastAllowedNext ==
    ASSUME NEW s \in Seq(Entries), NEW n \in Nat, n + 1 <= Len(s), NEW d, NEW e,
           LastAllowed(s, d, n), ReadsOne(d, s[n + 1], e)
    PROVE  LastAllowed(s, e, n + 1)
<1> DEFINE r == s[n + 1]
           old(page) == AllowedOn(s, page, n)
           new(page) == AllowedOn(s, page, n + 1)
<1>1. \A page :
          /\ new(page) = old(page) \cup
                 (IF r.type = "PolicyDecision" /\ r.verdict = "allow" /\ r.page = page
                  THEN {n + 1} ELSE {})
          /\ \A i \in old(page) : i \in 1 .. n
  BY UpToNext DEF AllowedOn
<1> HIDE DEF old, new
<1>2. /\ \A page \in DOMAIN d.policies :
             \E j \in old(page) : /\ d.policies[page] = s[j].rule
                                  /\ \A k \in old(page) : k <= j
      /\ \A page : page \notin DOMAIN d.policies => old(page) = {}
  BY DEF LastAllowed, old
<1>3. /\ \A page \in DOMAIN e.policies :
             \E j \in new(page) : /\ e.policies[page] = s[j].rule
                                  /\ \A k \in new(page) : k <= j
      /\ \A page : page \notin DOMAIN e.policies => new(page) = {}
  <2>1. CASE ~(r.type = "PolicyDecision" /\ r.verdict = "allow")
    <3>1. e.policies = d.policies /\ \A page : new(page) = old(page)
      BY <1>1, <2>1 DEF ReadsOne
    <3> QED
      BY <1>2, <3>1
  <2>2. CASE r.type = "PolicyDecision" /\ r.verdict = "allow"
    <3>1. /\ e.policies = Put(d.policies, r.page, r.rule)
          /\ new(r.page) = old(r.page) \cup {n + 1}
          /\ \A page : page # r.page => new(page) = old(page)
      BY <1>1, <2>2 DEF ReadsOne
    <3>2. /\ DOMAIN e.policies = DOMAIN d.policies \cup {r.page}
          /\ e.policies[r.page] = r.rule
          /\ \A page \in DOMAIN d.policies : page # r.page => e.policies[page] = d.policies[page]
      BY <3>1 DEF Put
    <3>3. ASSUME NEW page \in DOMAIN e.policies
          PROVE  \E j \in new(page) : /\ e.policies[page] = s[j].rule
                                      /\ \A k \in new(page) : k <= j
      <4>1. CASE page = r.page
        BY <1>1, <3>1, <3>2, <4>1
      <4>2. CASE page # r.page
        BY <1>2, <3>1, <3>2, <4>2
      <4> QED
        BY <4>1, <4>2
    <3>4. \A page : page \notin DOMAIN e.policies => new(page) = {}
      BY <1>2, <3>1, <3>2
    <3> QED
      BY <3>3, <3>4
  <2> QED
    BY <2>1, <2>2
<1> QED
  BY <1>3 DEF LastAllowed, new

LEMMA FirstAfterNext ==
    ASSUME NEW s \in Seq(Entries), NEW n \in Nat, n + 1 <= Len(s), NEW d, NEW e,
           StepsDiffer(s), FirstAfter(s, d, n), ReadsOne(d, s[n + 1], e)
    PROVE  FirstAfter(s, e, n + 1)
<1> DEFINE r == s[n + 1]
           tries == UpTo(s, "ActionAttempted", n)
           tries2 == UpTo(s, "ActionAttempted", n + 1)
           seen == UpTo(s, "Observed", n)
           seen2 == UpTo(s, "Observed", n + 1)
           First(i, page, S) ==
               \E j \in S : /\ i < j /\ page = s[j].page
                            /\ \A k \in S : i < k => j <= k
<1> HIDE DEF First
<1>1. /\ tries2 = tries \cup (IF r.type = "ActionAttempted" THEN {n + 1} ELSE {})
      /\ seen2 = seen \cup (IF r.type = "Observed" THEN {n + 1} ELSE {})
      /\ \A i \in tries : i \in 1 .. n
      /\ \A i \in seen : i \in 1 .. n
  <2>1. \A type : /\ UpTo(s, type, n + 1) =
                        UpTo(s, type, n) \cup (IF s[n + 1].type = type THEN {n + 1} ELSE {})
                  /\ \A i \in UpTo(s, type, n) : i \in 1 .. n
    BY UpToNext
  <2> QED
    BY <2>1
<1>2. /\ \A i \in tries2 : s[i].step \in Nat \ {0}
      /\ \A i, j \in tries2 : s[i].step = s[j].step => i = j
  BY DEF StepsDiffer, UpTo
<1> HIDE DEF tries, tries2, seen, seen2
<1>3. /\ d.last_step # 0 =>
             \E i \in tries : s[i].step = d.last_step /\ \A k \in seen : k <= i
      /\ \A step \in DOMAIN d.post_roots : \E i \in tries : s[i].step = step
      /\ \A i \in tries : s[i].step \in DOMAIN d.post_roots =>
                              First(i, d.post_roots[s[i].step], seen)
  BY DEF FirstAfter, First, tries, seen
<1>4. /\ e.last_step # 0 =>
             \E i \in tries2 : s[i].step = e.last_step /\ \A k \in seen2 : k <= i
      /\ \A step \in DOMAIN e.post_roots : \E i \in tries2 : s[i].step = step
      /\ \A i \in tries2 : s[i].step \in DOMAIN e.post_roots =>
                               First(i, e.post_roots[s[i].step], seen2)
  <2>1. CASE r.type = "Observed"
    <3>1. e.last_step = 0 /\ tries2 = tries /\ seen2 = seen \cup {n + 1}
      BY <1>1, <2>1 DEF ReadsOne
    <3>2. ASSUME NEW i \in tries, NEW page, First(i, page, seen)
          PROVE  First(i, page, seen2)
      BY <1>1, <3>1, <3>2 DEF First
    <3>3. CASE d.last_step = 0
      <4>1. e.post_roots = d.post_roots
        BY <2>1, <3>3 DEF ReadsOne
      <4> QED
        BY <1>3, <3>1, <3>2, <4>1
    <3>4. CASE d.last_step # 0
      <4>1. PICK i \in tries : s[i].step = d.last_step /\ \A k \in seen : k <= i
        BY <1>3, <3>4
      <4>2. e.post_roots = Put(d.post_roots, d.last_step, r.page)
        BY <2>1, <3>4 DEF ReadsOne
      <4>3. /\ DOMAIN e.post_roots = DOMAIN d.post_roots \cup {d.last_step}
            /\ e.post_roots[d.last_step] = r.page
            /\ \A step \in DOMAIN d.post_roots :
                   step # d.last_step => e.post_roots[step] = d.post_roots[step]
        BY <4>2 DEF Put
      <4>4. First(i, r.page, seen2)
        BY <1>1, <3>1, <4>1 DEF First
      <4>5. ASSUME NEW k \in tries, s[k].step \in DOMAIN e.post_roots
            PROVE  First(k, e.post_roots[s[k].step], seen2)
        <5>1. CASE k = i
          BY <4>1, <4>3, <4>4, <5>1
        <5>2. CASE k # i
          <6>1. s[k].step # d.last_step
            BY <1>2, <3>1, <4>1, <5>2
          <6> QED
            BY <1>3, <3>2, <4>3, <4>5, <6>1
        <5> QED
          BY <5>1, <5>2
      <4>6. \A step \in DOMAIN e.post_roots : \E k \in tries : s[k].step = step
        BY <1>3, <4>1, <4>3
      <4> QED
        BY <3>1, <4>5, <4>6
    <3> QED
      BY <3>3, <3>4
  <2>2. CASE r.type = "ActionAttempted"
    <3>1. /\ e.last_step = r.step /\ e.post_roots = d.post_roots
          /\ tries2 = tries \cup {n + 1} /\ seen2 = seen
      BY <1>1, <2>2 DEF ReadsOne
    <3>2. r.step \notin DOMAIN d.post_roots
      <4> SUFFICES ASSUME r.step \in DOMAIN d.post_roots PROVE FALSE
        OBVIOUS
      <4>1. PICK i \in tries : s[i].step = r.step
        BY <1>3
      <4>2. i = n + 1
        BY <1>2, <3>1, <4>1
      <4> QED
        BY <1>1, <4>2
    <3>3. \A k \in seen2 : k <= n + 1
      BY <1>1, <3>1
    <3> QED
      BY <1>3, <3>1, <3>2, <3>3
  <2>3. CASE r.type \notin {"Observed", "ActionAttempted"}
    <3>1. /\ e.last_step = d.last_step /\ e.post_roots = d.post_roots
          /\ tries2 = tries /\ seen2 = seen
      BY <1>1, <2>3 DEF ReadsOne
    <3> QED
      BY <1>3, <3>1
  <2> QED
    BY <2>1, <2>2, <2>3
<1> QED
  BY <1>4 DEF FirstAfter, First, tries2, seen2

LEMMA InOrderNext ==
    ASSUME NEW s \in Seq(Entries), NEW n \in Nat, n + 1 <= Len(s), NEW d, NEW e,
           IsDicts(d), InOrder(s, d, n), ReadsOne(d, s[n + 1], e)
    PROVE  InOrder(s, e, n + 1)
<1> DEFINE r == s[n + 1]
           tries == UpTo(s, "ActionAttempted", n)
           tries2 == UpTo(s, "ActionAttempted", n + 1)
           rank(i) == Cardinality(UpTo(s, "ActionAttempted", i))
<1> HIDE DEF rank
<1>1. /\ tries2 = tries \cup (IF r.type = "ActionAttempted" THEN {n + 1} ELSE {})
      /\ \A i \in tries : i \in 1 .. n
  BY UpToNext
<1>2. IsFiniteSet(tries) /\ Cardinality(tries) \in Nat
  <2>1. tries \subseteq 1 .. n /\ IsFiniteSet(1 .. n)
    BY <1>1, FS_Interval
  <2> QED
    BY <2>1, FS_Subset, FS_CardinalityType
<1>3. rank(n + 1) = Cardinality(tries2)
  BY DEF rank
<1> HIDE DEF tries, tries2
<1>4. /\ Len(d.actions) = Cardinality(tries)
      /\ \A i \in tries : rank(i) \in DOMAIN d.actions /\ d.actions[rank(i)] = s[i]
      /\ \A m \in DOMAIN d.actions : \E i \in tries : rank(i) = m
  BY DEF InOrder, tries, rank
<1>5. /\ Len(e.actions) = Cardinality(tries2)
      /\ \A i \in tries2 : rank(i) \in DOMAIN e.actions /\ e.actions[rank(i)] = s[i]
      /\ \A m \in DOMAIN e.actions : \E i \in tries2 : rank(i) = m
  <2>1. CASE r.type # "ActionAttempted"
    <3>1. e.actions = d.actions /\ tries2 = tries
      BY <1>1, <2>1 DEF ReadsOne
    <3> QED
      BY <1>4, <3>1
  <2>2. CASE r.type = "ActionAttempted"
    <3>1. e.actions = Append(d.actions, r) /\ tries2 = tries \cup {n + 1}
      BY <1>1, <2>2 DEF ReadsOne
    <3>2. n + 1 \notin tries
      BY <1>1
    <3>3. Cardinality(tries2) = Cardinality(tries) + 1
      BY <1>2, <3>1, <3>2, FS_AddElement
    <3>4. d.actions \in Seq(Entries) /\ e.actions \in Seq(Entries)
      BY DEF IsDicts, ReadsOne
    <3>5. /\ Len(e.actions) = Len(d.actions) + 1
          /\ DOMAIN d.actions = 1 .. Len(d.actions)
          /\ DOMAIN e.actions = 1 .. Len(d.actions) + 1
          /\ e.actions[Len(d.actions) + 1] = r
          /\ \A m \in DOMAIN d.actions : e.actions[m] = d.actions[m]
      BY <3>1, <3>4
    <3>6. rank(n + 1) = Len(d.actions) + 1
      BY <1>3, <1>4, <3>3
    <3>7. Len(d.actions) \in Nat
      BY <1>2, <1>4
    <3>8. \A i \in tries2 : rank(i) \in DOMAIN e.actions /\ e.actions[rank(i)] = s[i]
      BY <1>4, <3>1, <3>5, <3>6, <3>7
    <3>9. ASSUME NEW m \in DOMAIN e.actions
          PROVE  \E i \in tries2 : rank(i) = m
      <4>1. m \in DOMAIN d.actions \/ m = Len(d.actions) + 1
        BY <3>5, <3>7
      <4> QED
        BY <1>4, <3>1, <3>6, <4>1
    <3> QED
      BY <1>4, <3>3, <3>5, <3>8, <3>9
  <2> QED
    BY <2>1, <2>2
<1> QED
  BY <1>5 DEF InOrder, tries2, rank

\* What a pass over a journal has at its end.
LEMMA PassTells ==
    ASSUME NEW s \in Seq(Entries), StepsDiffer(s)
    PROVE  /\ LastSeen(s, Pass(s), Len(s)) /\ LastAllowed(s, Pass(s), Len(s))
           /\ FirstAfter(s, Pass(s), Len(s)) /\ InOrder(s, Pass(s), Len(s))
<1>1. PICK d : /\ d[0] = Blank
               /\ \A n \in 1 .. Len(s) : d[n] = Read(d[n - 1], s[n])
               /\ Pass(s) = d[Len(s)]
  BY PassGoesOn
<1>2. \A n \in 1 .. Len(s) : s[n] \in Entries
  BY ElementOfSeq
<1> DEFINE T(n) == /\ IsDicts(d[n])
                   /\ LastSeen(s, d[n], n) /\ LastAllowed(s, d[n], n)
                   /\ FirstAfter(s, d[n], n) /\ InOrder(s, d[n], n)
           P(n) == n <= Len(s) => T(n)
           S == {n \in Nat : P(n)}
<1>3. P(0)
  <2>1. \A type : UpTo(s, type, 0) = {}
    BY DEF UpTo, OfType
  <2>2. /\ IsDicts(Blank) /\ Blank.last_step = 0 /\ Blank.actions = <<>>
        /\ DOMAIN Blank.observed = {} /\ DOMAIN Blank.policies = {}
        /\ DOMAIN Blank.post_roots = {}
    BY DEF Blank, IsDicts
  <2>3. LastSeen(s, Blank, 0)
    BY <2>2 DEF LastSeen
  <2>4. LastAllowed(s, Blank, 0)
    BY <2>1, <2>2 DEF LastAllowed, AllowedOn
  <2>5. FirstAfter(s, Blank, 0)
    BY <2>1, <2>2 DEF FirstAfter
  <2>6. InOrder(s, Blank, 0)
    <3>1. Len(Blank.actions) = Cardinality(UpTo(s, "ActionAttempted", 0))
      BY <2>1, <2>2, FS_EmptySet
    <3>2. DOMAIN Blank.actions = {}
      BY <2>2
    <3> QED
      BY <2>1, <3>1, <3>2 DEF InOrder
  <2> QED
    BY <1>1, <2>2, <2>3, <2>4, <2>5, <2>6
<1>4. ASSUME NEW n \in Nat, P(n) PROVE P(n + 1)
  <2> SUFFICES ASSUME n + 1 <= Len(s) PROVE T(n + 1)
    OBVIOUS
  <2>1. d[n + 1] = Read(d[n], s[n + 1]) /\ s[n + 1] \in Entries /\ T(n)
    BY <1>1, <1>2, <1>4
  <2>2. ReadsOne(d[n], s[n + 1], d[n + 1])
    BY <2>1, ReadOne
  <2>3. IsDicts(d[n + 1])
    BY <2>2 DEF ReadsOne
  <2>4. LastSeen(s, d[n + 1], n + 1) /\ LastAllowed(s, d[n + 1], n + 1)
    BY <2>1, <2>2, LastSeenNext, LastAllowedNext
  <2>5. FirstAfter(s, d[n + 1], n + 1)
    BY <2>1, <2>2, FirstAfterNext
  <2>6. InOrder(s, d[n + 1], n + 1)
    BY <2>1, <2>2, InOrderNext
  <2> QED
    BY <2>3, <2>4, <2>5, <2>6
<1> HIDE DEF P
<1>5. 0 \in S
  BY <1>3
<1>6. \A n \in Nat : n \in S => n + 1 \in S
  BY <1>4
<1> HIDE DEF S
<1>7. Nat \subseteq S
  BY <1>5, <1>6, NaturalsReached
<1>8. P(Len(s))
  BY <1>7 DEF S
<1> QED
  BY <1>1, <1>8 DEF P

\* A step that was compiled describes the attempt it was compiled from.
LEMMA StepDescribes ==
    ASSUME NEW s \in Seq(Entries), StepsDiffer(s), NEW i \in OfType(s, "ActionAttempted"),
           Attributable(Pass(s), s[i])
    PROVE  Describes(CompiledStep(Pass(s), s[i]), s, i)
<1> DEFINE d == Pass(s)
           a == s[i]
           step == CompiledStep(d, a)
           observations == {j \in DOMAIN s : s[j].type = "Observed"}
           seen == {j \in observations : s[j].page = a.page}
           allowed == {j \in DOMAIN s : /\ s[j].type = "PolicyDecision" /\ s[j].verdict = "allow"
                                        /\ s[j].page = a.page}
           after == {j \in observations : j > i}
           last(S, j) == j \in S /\ \A k \in S : k <= j
           first(S, j) == j \in S /\ \A k \in S : j <= k
<1>1. /\ LastSeen(s, d, Len(s)) /\ LastAllowed(s, d, Len(s))
      /\ FirstAfter(s, d, Len(s))
  BY PassTells
<1>2. DOMAIN s = 1 .. Len(s)
  OBVIOUS
<1>3. /\ UpTo(s, "Observed", Len(s)) = observations
      /\ AllowedOn(s, a.page, Len(s)) = allowed
      /\ i \in UpTo(s, "ActionAttempted", Len(s))
  BY <1>2 DEF UpTo, OfType, AllowedOn
<1>4. /\ a.page \in DOMAIN d.observed /\ a.step \in DOMAIN d.post_roots
  BY DEF Attributable
<1>5. i \in Nat /\ allowed \subseteq Nat
  BY <1>2 DEF OfType
<1> HIDE DEF d, a, observations, allowed
<1>6. /\ step.step = a.step /\ step.key = a.key /\ step.page = a.page
      /\ step.observation = d.observed[a.page]
      /\ step.checkpoint = d.post_roots[a.step]
      /\ step.risk = IF a.page \in DOMAIN d.policies /\ d.policies[a.page] = DataEntry
                     THEN "reversible" ELSE "safe"
  BY DEF CompiledStep
<1> HIDE DEF step
<1>7. \E j \in seen : last(seen, j) /\ step.observation = s[j].id
  <2>1. PICK j \in observations :
            /\ s[j].page = a.page /\ d.observed[a.page] = s[j].id
            /\ \A k \in observations : s[k].page = a.page => k <= j
    BY <1>1, <1>3, <1>4 DEF LastSeen
  <2> QED
    BY <1>6, <2>1
<1>8. \E j \in after : first(after, j) /\ step.checkpoint = s[j].page
  <2>1. PICK j \in observations : /\ i < j /\ d.post_roots[a.step] = s[j].page
                                  /\ \A k \in observations : i < k => j <= k
    BY <1>1, <1>3, <1>4 DEF FirstAfter, a
  <2>2. \A k \in observations : k \in Nat
    BY <1>2 DEF observations
  <2> QED
    BY <1>5, <1>6, <2>1, <2>2
<1>9. (a.page \in DOMAIN d.policies /\ d.policies[a.page] = DataEntry)
          <=> \E j \in allowed : last(allowed, j) /\ s[j].rule = DataEntry
  <2>1. CASE a.page \in DOMAIN d.policies
    <3>1. PICK j \in allowed : /\ d.policies[a.page] = s[j].rule
                               /\ \A k \in allowed : k <= j
      BY <1>1, <1>3, <2>1 DEF LastAllowed
    <3>2. \A k \in allowed : last(allowed, k) => k = j
      BY <1>5, <3>1
    <3> QED
      BY <2>1, <3>1, <3>2
  <2>2. CASE a.page \notin DOMAIN d.policies
    BY <1>1, <1>3, <2>2 DEF LastAllowed
  <2> QED
    BY <2>1, <2>2
<1>10. step.risk = IF \E j \in allowed : last(allowed, j) /\ s[j].rule = DataEntry
                   THEN "reversible" ELSE "safe"
  BY <1>6, <1>9
<1> QED
  BY <1>6, <1>7, <1>8, <1>10 DEF Describes, d, a, step, observations, allowed

\* The actions of the pass are the attempts of the journal.
LEMMA ActionsAreAttempts ==
    ASSUME RecordedInv
    PROVE  /\ trace \in Seq(Entries) /\ StepsDiffer(trace)
           /\ Len(Dicts.actions) = Cardinality(Attempts)
           /\ \A n \in DOMAIN Dicts.actions :
                  Nth(n) \in Attempts /\ Dicts.actions[n] = trace[Nth(n)]
           /\ \A i \in Attempts : \E n \in DOMAIN Dicts.actions : Dicts.actions[n] = trace[i]
<1> DEFINE actions == Dicts.actions
<1>1. trace \in Seq(Entries) /\ budget.llm_calls \in Nat
  BY DEF RecordedInv, IInv, TypeOK, Telling
<1>2. StepsDiffer(trace)
  BY <1>1 DEF RecordedInv, Telling, AttemptsDiffer, StepsDiffer, Attempts
<1>3. InOrder(trace, Dicts, Len(trace))
  BY <1>1, <1>2, PassTells DEF Dicts
<1>4. /\ UpTo(trace, "ActionAttempted", Len(trace)) = Attempts
      /\ \A i : UpTo(trace, "ActionAttempted", i) = {j \in Attempts : j <= i}
  BY <1>1 DEF UpTo, Attempts, OfType
<1>5. Len(actions) = Cardinality(Attempts)
  BY <1>3, <1>4 DEF InOrder
<1>6. ASSUME NEW n \in DOMAIN actions
      PROVE  Nth(n) \in Attempts /\ actions[n] = trace[Nth(n)]
  <2>1. \E i \in Attempts : Cardinality({j \in Attempts : j <= i}) = n
    BY <1>3, <1>4 DEF InOrder
  <2>2. Nth(n) \in Attempts /\ Cardinality({j \in Attempts : j <= Nth(n)}) = n
    BY <2>1 DEF Nth
  <2> QED
    BY <1>3, <1>4, <2>2 DEF InOrder
<1>7. ASSUME NEW i \in Attempts
      PROVE  \E n \in DOMAIN actions : actions[n] = trace[i]
  BY <1>3, <1>4 DEF InOrder
<1> QED
  BY <1>1, <1>2, <1>5, <1>6, <1>7

LEMMA CompilesFollows ==
    ASSUME RecordedInv
    PROVE  CompilesAsJournaled
<1> SUFFICES ASSUME Capability.error = "none"
             PROVE  /\ Len(Capability.steps) = Cardinality(Attempts)
                    /\ \A n \in DOMAIN Capability.steps :
                           Describes(Capability.steps[n], trace, Nth(n))
  BY DEF CompilesAsJournaled
<1> DEFINE actions == Dicts.actions
<1>1. /\ trace \in Seq(Entries) /\ StepsDiffer(trace) /\ Len(actions) = Cardinality(Attempts)
      /\ \A n \in DOMAIN actions : Nth(n) \in Attempts /\ actions[n] = trace[Nth(n)]
  BY ActionsAreAttempts
<1>2. /\ Len(Capability.steps) = Len(actions) /\ DOMAIN Capability.steps = DOMAIN actions
      /\ \A n \in DOMAIN actions :
             /\ Attributable(Dicts, actions[n])
             /\ Capability.steps[n] = CompiledStep(Dicts, actions[n])
  BY <1>1, CompiledIs DEF Capability, Dicts
<1>3. ASSUME NEW n \in DOMAIN actions
      PROVE  Describes(Capability.steps[n], trace, Nth(n))
  <2>1. Nth(n) \in OfType(trace, "ActionAttempted")
    BY <1>1 DEF Attempts
  <2>2. Attributable(Pass(trace), trace[Nth(n)])
    BY <1>1, <1>2 DEF Dicts
  <2>3. Capability.steps[n] = CompiledStep(Pass(trace), trace[Nth(n)])
    BY <1>1, <1>2 DEF Dicts
  <2> QED
    BY <1>1, <2>1, <2>2, <2>3, StepDescribes
<1> QED
  BY <1>1, <1>2, <1>3

\* Every step a journal is compiled to says of its attempt what the whole
\* journal says of it.
THEOREM CompiledAsJournaled == RecordedSpec => []CompilesAsJournaled
<1>1. RecordedInv => CompilesAsJournaled
  BY CompilesFollows
<1> QED
  BY <1>1, RecordedInvariant, PTL

-----------------------------------------------------------------------------
(* The runs that reached their goal                                        *)

LEMMA GoalFollows ==
    ASSUME RecordedInv
    PROVE  GoalCompiles
<1> DEFINE actions == Dicts.actions
           legible == \A i \in Attempts : trace[i].legible
<1>1. /\ trace \in Seq(Entries) /\ actions \in Seq(Entries) /\ history \in Seq(Turn)
  BY PassIsDicts DEF RecordedInv, IInv, TypeOK, Telling, Dicts, IsDicts
<1> SUFFICES ASSUME Succeeded
             PROVE  /\ Reconstructed => (Capability.error = "none" <=> legible /\ ~ReadsTwice)
                    /\ redacting => Capability.error # "none"
                    /\ Capability.error = "none" =>
                           /\ Len(Capability.steps) = Len(history)
                           /\ \A n \in DOMAIN history :
                                  LET step == Capability.steps[n]
                                  IN /\ step.key = history[n].key
                                     /\ (step.page # step.checkpoint) = history[n].changed
  BY DEF GoalCompiles
<1>2. /\ Len(actions) = Len(history) /\ DOMAIN actions = DOMAIN history /\ history # <<>>
      /\ history[Len(history)].output # None
      /\ \A n \in DOMAIN history :
             /\ actions[n].key = history[n].key /\ actions[n].output = history[n].output
             /\ actions[n].step \in DOMAIN Dicts.post_roots
             /\ (actions[n].page # Dicts.post_roots[actions[n].step]) = history[n].changed
  <2>1. pc = "closed" /\ status = "goal_reached"
    <3>1. ended # <<>> /\ ended[1] = "success" /\ pc = "closed"
      BY DEF Succeeded
    <3> QED
      BY <3>1 DEF RecordedInv, IInv, EndsOnce
  <2>2. history # <<>> /\ history[Len(history)].output # None
    BY <2>1 DEF RecordedInv, Compiling, GoalTold
  <2>3. Matched /\ Going
    BY <2>1 DEF RecordedInv, Compiling, Going
  <2>4. Len(actions) = Len(history)
    BY <1>1, <2>1, <2>3 DEF Matched
  <2> QED
    BY <1>1, <2>1, <2>2, <2>3, <2>4 DEF Matched
<1>3. /\ \A n \in DOMAIN actions : Nth(n) \in Attempts /\ actions[n] = trace[Nth(n)]
      /\ \A i \in Attempts : \E n \in DOMAIN actions : actions[n] = trace[i]
  BY ActionsAreAttempts
<1>4. \A n \in DOMAIN actions :
          /\ actions[n].kind = "read" <=> actions[n].output # None
          /\ redacting /\ actions[n].kind = "read" => ~actions[n].legible
  BY <1>3 DEF RecordedInv, Telling, ReadingsNamed
<1>5. legible <=> Legible(actions)
  BY <1>3 DEF Legible
<1>6. Coherent(actions) <=> ~ReadsTwice
  <2>1. actions # <<>>
    BY <1>1, <1>2
  <2>2. ASSUME ~ReadsTwice, NEW i \in DOMAIN actions, NEW j \in DOMAIN actions,
               actions[i].kind = "read", actions[i].output = actions[j].output
        PROVE  i = j
    BY <1>2, <1>4, <2>2 DEF ReadsTwice
  <2>3. ASSUME ReadsTwice PROVE ~Coherent(actions)
    <3>1. PICK i \in DOMAIN history, j \in DOMAIN history :
              i # j /\ history[i].output # None /\ history[i].output = history[j].output
      BY <2>3 DEF ReadsTwice
    <3>2. /\ actions[i].output = history[i].output /\ actions[j].output = history[j].output
          /\ i \in DOMAIN actions /\ j \in DOMAIN actions
      BY <1>2
    <3>3. actions[i].kind = "read" /\ actions[j].kind = "read"
      BY <1>4, <3>1, <3>2
    <3> QED
      BY <3>1, <3>2, <3>3 DEF Coherent
  <2> QED
    BY <2>1, <2>2, <2>3 DEF Coherent
<1>7. Capability.error = "none" =>
          /\ Legible(actions) /\ Coherent(actions)
          /\ Len(Capability.steps) = Len(actions)
          /\ \A n \in DOMAIN actions : Capability.steps[n] = CompiledStep(Dicts, actions[n])
  BY <1>1, CompiledIs DEF Capability, Dicts
<1>8. ASSUME Reconstructed, legible, ~ReadsTwice
      PROVE  Capability.error = "none"
  <2>1. Dicts.metadata
    BY <1>8 DEF RecordedInv, Compiling, Found
  <2>2. \A n \in DOMAIN actions : Attributable(Dicts, actions[n])
    BY <1>2 DEF RecordedInv, Compiling, Found, Attributable
  <2>3. Legible(actions) /\ Coherent(actions)
    BY <1>5, <1>6, <1>8
  <2> QED
    BY <1>1, <2>1, <2>2, <2>3, CompiledIs DEF Capability, Dicts
<1>9. ASSUME redacting PROVE ~Legible(actions)
  <2>1. Len(history) \in DOMAIN actions
    BY <1>1, <1>2
  <2>2. actions[Len(history)].output # None
    BY <1>2, <2>1
  <2> QED
    BY <1>4, <1>9, <2>1, <2>2 DEF Legible
<1>10. ASSUME Capability.error = "none"
       PROVE  /\ Len(Capability.steps) = Len(history)
              /\ \A n \in DOMAIN history :
                     /\ Capability.steps[n].key = history[n].key
                     /\ (Capability.steps[n].page # Capability.steps[n].checkpoint)
                            = history[n].changed
  <2>1. /\ Len(Capability.steps) = Len(actions)
        /\ \A n \in DOMAIN actions : Capability.steps[n] = CompiledStep(Dicts, actions[n])
    BY <1>7, <1>10
  <2>2. \A n \in DOMAIN actions :
            /\ Capability.steps[n].key = actions[n].key
            /\ Capability.steps[n].page = actions[n].page
            /\ Capability.steps[n].checkpoint = Dicts.post_roots[actions[n].step]
    <3> SUFFICES ASSUME NEW n \in DOMAIN actions
                 PROVE  /\ CompiledStep(Dicts, actions[n]).key = actions[n].key
                        /\ CompiledStep(Dicts, actions[n]).page = actions[n].page
                        /\ CompiledStep(Dicts, actions[n]).checkpoint =
                               Dicts.post_roots[actions[n].step]
      BY <2>1
    <3> HIDE DEF actions
    <3> QED
      BY DEF CompiledStep
  <2> QED
    BY <1>2, <2>1, <2>2
<1> HIDE DEF legible
<1> QED
  BY <1>5, <1>6, <1>7, <1>8, <1>9, <1>10

\* A run that reached its goal compiles, once its target is reconstructed, if
\* and only if every attempt is legible in its journal and no output was read
\* twice, into the turns the agent took, in their order; one whose journal an
\* adapter redacts never does.
THEOREM GoalsCompile == RecordedSpec => []GoalCompiles
<1>1. RecordedInv => GoalCompiles
  BY GoalFollows
<1> QED
  BY <1>1, RecordedInvariant, PTL
=============================================================================
