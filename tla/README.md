# A TLA+ verification project for interface.ai

The repository drives a web application through a language model once
(*discovery*), compiles what it did into a *capability*, and then *replays* the
capability deterministically, calling a human *operator* when something goes
wrong. This directory holds TLA+ models of the parts whose correctness depends
on order, concurrency and failure, TLC runs that check them on small instances,
and proofs, checked by TLAPS, that hold for every instance.

Paths below are relative to `src/cua/` unless they start with `docs/`,
`README.md` or `REPORT.md`, which are the repository's own documents.

## 1. Inventory

### Components, their state and operations

| Component | State it keeps | Operations | Modelled by |
|---|---|---|---|
| Handoff coordinator, `escalation/coordinator.py` | stored `InterventionRequest` (status, lease, actor), `_before`, `_tokens` | `open`, `take_control`, `record_action`, `hand_back` | `Handoff` |
| Session lease, `escalation/lease.py` | an immutable lease: state, holder, expiry | `create`, `pause`, `take_control`, `request_handback`, `resume`, `expire` | `SessionLease` |
| Operator console, `escalation/console.py`, served by `cli/__main__.py:817-850` | a uvicorn server with concurrent POST handlers | `take`, `hand-back` | `Handoff` |
| Web surface, control half, `surface/web.py:728-771` | FIFO `asyncio.Lock`, `_ceded`, `_token`, request listeners | `cede_control`, `resume_control`, `act`, `observe`, `close` | `Handoff` |
| Web surface, page half, `surface/web.py:559-706` | `_handles`, `_requests`, `_navigating`, `_last_activity`, `_pulse`, the locals of `_settle` | `resolve`, `act`, `settle` | `WebSurface` |
| Run journal, `observability/journal.py`, `_io.py` | `journal.ndjson`, `journal.head.json`, an OS lock, a head in memory | open, `append`, `verify_chain_directory`, close | `RunJournal` |
| Evidence store, `observability/evidence.py` | content-addressed blobs, `index.json`, an OS lock, an index in memory | open, `put`, `resolve` | `EvidenceStore` |
| Manifest, `observability/manifest.py` | none (a summary, written once) | `write_manifest` | `RunManifest`, `RecordedRun` |
| Replay executor, `replay/executor.py` | index of the step, outputs, head of the journal | `execute` | `ReplayExecutor` |
| Replay command, `cli/__main__.py:644-905` | the result, the resumed flag, `terminal` | escalate, wait, re-observe, resume, close | `ReplayExecutor`, `Handoff` |
| Policy engine, `policy/engine.py` | none | `evaluate`: budget, allowlist, ordered risk rules, irreversible gates | `PolicyEngine` |
| Policy guard, `policy/guard.py` | none | `act` | not modelled: no run goes through it |
| Discovery graph, `discovery/graph.py`, `state.py` | `DiscoveryState`: budget, history, two no-progress counters, pending action, status | seven graph nodes | `DiscoveryAgent` |
| Discovery command, `cli/__main__.py:190-464` | the journal's last record | run, scripted handoff, one resumption, close | `DiscoveryAgent` |
| Planner clients, `discovery/openai.py`, `anthropic.py`, `fake.py` | usage of the last call | one call per decision | their answers are an input of `DiscoveryAgent` |
| Trace compiler, `discovery/compiler.py`, `compiler_candidates.py` | none | journal to draft capability | `TraceCompiler`, `RecordedRun` |
| Provenance verifier, `discovery/verifier.py` | none | capability against its run | `ArtifactLifecycle` |
| Artifact commands, `cli/__main__.py:475-585` | capability file, journal of its run | `compile`, `verify`, `approve` | `ArtifactLifecycle` |
| Tenant overrides, `replay/overrides.py` | none | bind to a base, substitute locators and checkpoints | whether one is applied: `ReplayExecutor`, to which base: `ArtifactLifecycle` |
| Catalog, `catalog/` | none | choose a capability by one model call, replay it | `ArtifactLifecycle` |
| Domain models, `domain/` | none (frozen, validated) | | constants and assumptions |
| Target application, `target_app/` | a `Session` per cookie: tenant, signed in, draft, pending request, receipts, accounts, faults | `login`, `frame_page`, `ui`, `set_faults`, middleware | `TargetApp`, `BankReplay` |
| Redaction, tracing, desktop stub | | | not modelled: data transformation, a stub |

### How they interact

* The CLI is the only caller of everything. It opens the journal and the
  evidence store of a run directory, builds a surface, and runs either the
  discovery graph or the executor; a journal and an evidence store are locked
  by whichever process has the directory open (a run, later `compile` and
  `approve`).
* During a handoff, the run's task, the console's POST handlers and the browser
  meet in the coordinator and in the surface's lock. They share the stored
  request, the token and the ceded flag, with awaits between reading and
  writing them.
* The operator works in the same browser through a CDP connection of its own.
  The program counts on `ceded` to keep *automation* off the page; it cannot
  revoke the operator's connection after the handback.
* The policy is a pure function that the graph and the executor call with a
  budget they maintain themselves.
* The page moves by itself. The surface learns of it through handlers of the
  browser's events, which run between any two awaits of a call.
* The committed capability, the browser and the synthetic bank form a loop: an
  action makes frames ask for documents, an answer changes what the run observes,
  a fault of the bank is what a recovery or an operator has to deal with.
* An artifact is a file. `compile`, `approve`, `verify` and `catalog-invoke` are
  processes that read and write it without a lock, and so does an editor; only
  the journal of the run it derives from is locked, and only while a record is
  appended.

### What is hard

Interleavings of coroutines around `await`; a lease that expires while a call
is suspended; a token popped before the call that may fail; a process that
dies, or a machine that loses power, between two writes; stale state carried
through a handoff (counters, outputs, options, a pending action, a resolved
target); a page that loads between two looks at it; files read twice; budgets
and no-progress counters at their limit; failures in the middle of a step whose
effect on the page is unknown. `PROJECT.json` lists every such hazard under
`hazards` at the line where it bites, with the properties that catch it or the
reason none does yet.

### What makes each component correct

* **Handoff**: request, lease, token and surface agree on who has the browser;
  automation never acts between the loan and its accounted return; a request
  only moves forward; an expired lease changes nothing; every call returns; the
  journal names one operator in a sensible order.
* **Journal**: one chain, never forked or healed; an acknowledged record stays.
* **Evidence**: what `put` returned stays listed with a blob; one entry per
  content and use; a rotten blob is neither used nor overwritten.
* **Replay**: no action twice, no success without its checkpoints, nothing
  without consent and authority, answers are final, runs end.
* **Discovery**: runs end once, spend within limits, act only on what was seen,
  leave the irreversible to a human, and call a dead end exactly when it is one.
* **Surface**: a page called settled has been quiet for the whole window; a
  target from before a handoff is never acted on; settling ends.
* **Target application**: money moves once, as reviewed, or not at all, and never
  in an expired session.
* **Lookup against the bank**: the demos end as documented, and a success is the
  balance of the member that was asked for.
* **Compiler**: the capability is what the agent did, step by step, with each
  step's own observation, risk and checkpoint.
* **Manifest**: every closed run has one, and it says of the run what happened.
* **Artifact**: an approval vouches for the content its approver was shown, and
  an override is replayed with the base it was made for.

## 2. Modules

```
SessionLease ─── Handoff ──── implements ── ExclusiveControl    HandoffProofs
WebSurface                                                      WebSurfaceProofs
RunJournal ──────────────── implements ── AppendOnlyLog         RunJournalProofs
EvidenceStore                                                   EvidenceProofs
PolicyEngine ─┬─ ReplayExecutor ── implements ── StepwiseRun    ReplayProofs
              │        └──┬── BankReplay                        ReplayProofs
TargetApp ────┼───────────┘ ────── implements ── OneTimeDeposits TargetAppProofs
              └─ DiscoveryAgent                                 DiscoveryProofs
                      └──┬── RecordedRun                        DiscoveryProofs
TraceCompiler ───────────┤
RunManifest ─────────────┘
ArtifactLifecycle                                               ArtifactProofs
```

`RecordedRun` composes the discovery agent with the compiler and the manifest:
it conjoins the records each node journals to the node's action, and compiles
and summarises the result. `BankReplay` composes the executor with one session
of the bank: the executor's arbitrary observations become what the frames show.

`MC*` modules and `.cfg` files instantiate them for TLC. Operators marked
`mutant` are plausible slips of the code kept next to the definition they
distort; no behaviour uses them. For every property of a passing run
`PROJECT.json` names one that breaks it.

### `SessionLease`, `Handoff`

A task is a POST handler or the run's own task. What a coroutine does between
two awaits is one action; an await that suspends is a place in the queue of the
surface's lock. `asyncio.Lock` wakes its waiters first in, first out, and a
release hands it to the longest waiting; the model's `lock` is that queue, and
`Requeue` is the release and new acquisition between `resume_control` and
`observe` in `hand_back`.

| Code | Actions |
|---|---|
| `take_control` up to `await cede_control()`; the rest | `TakeControl`; `CedeControl`, `CedeFails` |
| `hand_back` up to `await resume_control(token)`; up to `await observe()`; the rest | `HandBack`; `ResumeControl`, `ResumeFails`; `FinishHandBack`, `ObserveFails` |
| `record_action`, the scripted operator | `RecordAction`, `ScriptFails` |
| `_replay_capability`: act, escalate, poll, join, re-observe, close | `StartAct`, `Act`, `Escalate`, `LeavePolling`, `ConsoleStopped`, `Joined`, `Reobserve`, `EndReplay`, `ReplayRaises`, `RecordRunEnded`, `Cleanup` |
| uvicorn's shutdown; the wall clock | `StopServing`, `ServerDown`; `Tick` |

What the operator does in the browser is not modelled: no property depends on it.
A failing CDP session may leave the listeners detached (`CedeFails`), and the
popped token is lost with the coroutine (`ResumeFails`), as in the code.

`ExclusiveControl` is the promise: a browser that goes from automation to one
operator, comes back, is accounted for, and is not lent again, with no action
of automation in between.

### `RunJournal`

One run directory and the processes that open it. Each write that reaches the
disk separately is an action (`CreateFile`, `CreateAnchor`, `WriteRecord`,
`SaveHead`, and those that fail or tear), so a process can die anywhere.
The anchor file is replaced by a rename whose directory is never synced: a
power loss may bring the old one back, and `undo` is that old one. The journal
file itself is created that way: `fresh` says that its name may still be lost,
which syncing the anchor's temporary file in the same directory ends. A digest is a
number no other record has, which is what collision resistance gives the code.
`AppendOnlyLog` is the promise: a log that grows at its end, only while its
whole length is committed.

### `EvidenceStore`

`Open`, `Put`, `WriteBlob`, `WriteIndex`, `Return`: the two renames of one
`put` and the moment the caller learns the reference; `WriteFails` and `Leave`
(close or die) may come anywhere; `Rot` spoils a blob on disk. Unlike the
journal's model, power loss is left out: after one, an index may list a blob
whose own unsynced rename was lost, and no property of this module is claimed
of that case.

### `PolicyEngine`, `ReplayExecutor`

`PolicyEngine` has the order of the gates: budget first, then what the
allowlist and risk rules make of the page (one value of the request, `site`),
then the gates of an irreversible action in discovery and in replay.

`ReplayExecutor` has an action per await of `execute()`: `Begin` (input, draft
consent, drift), `Decide` (preconditions and policy), `Resolve`, `Act`, `Look`
(outcomes), the recoveries (`DismissNotice`, `TypeUsername`, `ClickSignIn`,
`Recovered`), `Checkpoint`, `Succeed`, and the command around it: `Escalate`,
`HandBack`, `Resume` (recheck, then execute again past the failed step), `End`,
`Raise`. The page is the world's: every observation may differ from the last.
Timeouts and errors of `surface.act` come after its effect as well as instead
of it, which is why `Act` counts as dispatched either way. Input validation,
predicates and locator ladders appear by their outcome.

`StepwiseRun` is the promise: steps are accepted one at a time and in order, an
operator takes over at most once and then accounts for one step, and an answer
is given once.

### `DiscoveryAgent`

An action per node of the graph, named after it; `Route` is the conditional
edges. `Raise` is an exception any node lets through, `Fail` the except clause
of `_discover` that closes the run. That clause covers what comes after the
terminal node as well (closing the checkpoints and the span, validating the final
state), so the graph that is over may still `Leave` or `Raise`, and a run that
raises there has journaled two ends. `Confirm` is the scripted operator
confirming an irreversible action followed by the one resumption; `Refuse` the
ways that path fails, the second interrupt included: LangGraph then adds an
`__interrupt__` key that the strict state model rejects, so the run closes as
a hard failure. The planner may answer anything from `Moves`, ask for help,
claim completion, or fail. Cost is bounded in the same way as tokens and is not
a variable of its own.

### `WebSurface`

The caller's task is at one await of one call; the page, its network and the
clock go on meanwhile. `Resolve` puts a target into the handle table. `Begin`,
`Observe`, `Rebind`, `Dispatch` are the awaits of `act`; `FirstSample`, `Wake`,
`Sample`, `Compare` and `SampleFails` those of `_settle`; `Expire` is
`asyncio.timeout_at`, which cancels whatever is awaited. `RequestStart` and
`RequestEnd` are the handlers, and stand for frame navigations too: they keep
two tables that the code treats alike. The lock is held from the first await
of a call to its last, so `Cede` and `Resume` come between calls, and
`Handoff` has the rest of them. A page is the hash of its accessibility tree.
An observation takes one instant, the last at which it is still true; the page
may move right after it, before the hash is compared.

### `TraceCompiler`, `RunManifest`, `RecordedRun`

`CompileRun` is `compile_run`: one `Pass` over the records, then the lookups that
raise `KeyError`, then what raises `ValueError`: an action, a target or a snapshot that
redaction left unreadable (`Legible`), and what the validators of `Capability`
refuse (`Coherent`: no step, or two outputs of one name). A journal
record keeps what decides between steps: the page, the step, the rule, the key
of the target, the name of the output, and whether it is legible. `Describes` says the same of one step without the pass, from
positions in the journal. `WriteManifest` is `write_manifest`: the two refusals
(no `RunEnded`; a record after the first that is no amendment), then what
`_result_summary` and `_summarize` take from the records. `RecordedRun` produces
the journals: every node of
`DiscoveryAgent` with its `append` calls, in their order, those that are
skipped by an exception included, those of a handoff up to the call that failed.
The journal is written in one of two ways (`redacting`). `_discover` hands the
agent an adapter whose field rules replace the name of every target by a marker,
and a reading has a target; a plain journal, as the tests use, replaces
patterns. `Kept` says what may become of an attempt and of a value in each. A
page may have no value to read; the manifest skips such a reading.
Usage is 0 here, and the limits 3, so that
`DiscoveryAgent`'s own questions are not asked twice. `Reconstruct` is
`scripts/reconstruct_discovery_target.py`, which begins with the manifest and
therefore refuses a run with two ends. As it is in the repository, it only knows
the run `discovery-010`; the model lets it reconstruct any run.

### `ArtifactLifecycle`

A content is what `capability_content_digest` covers, everything but status and
approval. `Load`, `RecordApproval`, `OpenFile`, `WriteFile` are `cua approve`,
whose `write_bytes` truncates before it writes; `StartCompile`, `OpenFile`,
`WriteFile`, `RecordCompiled` are `cua compile`, which writes first and journals
then. `LoadCatalog`, `ReplayTool`, `EndCatalog` are `cua catalog-invoke`, with
the model's answer between them. `Crash` and `Interrupt` are a death (or a busy
or broken journal) between two steps, and in the middle of an append. `Edit` and
`EditOverride` put any document into the files. `cua verify` reads only, and is
the operator `Verified`. `reviewed` is a ghost: what each actor ran the command
on.

### `TargetApp`, `OneTimeDeposits`

One session of `create_app` and several requests under way. FastAPI serves them
as coroutines of one event loop, so a request has four places where others may
run: before the middleware (`RouteTo`, or `Expire` for one that meets an expired
session), before the handler (`SignIn`, `Refuse`, `ReadBody`), after `await
request.body()` (the rest of `ui`), and before the answer leaves (`Leave`, which
consumes `slow_load`). That the session is signed in is looked at before the
body is awaited and never again.

| Code | Actions |
|---|---|
| `session_middleware` | `Expire`, `RouteTo`, `Leave` |
| `login`, `frame_page`, the refusals of `ui` | `SignIn`, `Refuse` |
| `ui` after the body | `TooLarge`, `Blocked`, `Dismiss`, `Interrupt`, `Disturb`, `Handle` |
| `workflow` | `Browse`, `Review`, `Confirm`, `Commit`, disjuncts of `Handle` and `Dismiss` |
| `set_faults` | `SetFaults`, at any time |

A token is the number of the review that was given it, which is what an
unguessable token gives the code; clients send the tokens they have been shown
(`known`). Amounts are whole, 0 stands for every form that `deposit_error`
refuses without looking at a balance. `Carry` conjoins `validation_error` to
the operation it rejects. The ledger is seeded from the start: no handler reads
it before the first sign-in seeds it.

`OneTimeDeposits` is the promise: an offer, which a later one replaces, is taken
once, exactly as the bank keeps it, or withdrawn.

### `BankReplay`

`capabilities/look_up_member_savings_balance@1.0.0.json` replayed. `LookUp` is
its six steps. The browser has four frames, one inside the other as the
templates nest them; `Go` sends a frame elsewhere and drops what its inner
frames were fetching, `Fetch`, `Answered` and `Render` take one document from
the request to the page. `Detected` is the list of outcomes in its order,
`Present` the control a step needs, `Reached` its checkpoint, `Use` what the
control does. The executor's own actions are conjoined with these: `Quietly`
those that leave the page alone, `Locate`, `Perform`, `Inspect`, `Recover`.

* One request is under way at a time. The order in which navigation and content
  are fetched does not matter to a bank whose faults were posted at launch.
* `Inspect` and `Recovered` wait for `Settled`, which is what `SettledIsQuiet` of
  `WebSurface` is for. `GetBack` does not: `hand_back` resumes and observes
  (`escalation/coordinator.py:116-117`), and so does the run after it
  (`cli/__main__.py:851`). What a person has just clicked may arrive steps later.
* A lower rung of a ladder may find something else on another page; acting on it
  raises or does nothing, and text can only be typed into a form.
* The operator is `restore_member_search` (one click on a link, waiting for the
  search page), or a person who uses any control there is, for any of `Enquiries`,
  at any moment, and hands back at any moment, with nothing or several documents
  on their way. The form of a sub-account can be opened (`NewAccount`); what
  follows it (review, confirmation, deposit) shows nothing but pages of the same
  member and is in `TargetApp`. A person's reload, history and address bar are left
  out, and so is an operator who types while the agent does.
* `left` remembers how the handoff ended: the failed step, whether the page had
  settled, and which other members browser and bank were about (`Meant`).
* Every rule of the policy lets these steps pass, and every caller has valid
  inputs and an approved capability: `ReplayExecutor` has the other cases.

## 3. Runs

| Run | Question | Instance and why it is enough |
|---|---|---|
| `handoff` | Do request, token, surface and journal agree on who has the browser, whatever interleaves, fails or expires? Does every call return, and a resolved handback end the run? | 3 concurrent POSTs or the script; clock to 3 with a lease of 2, so it can expire in every suspended state; 2 actions of automation, before and after. Three callers give a stale take behind another take behind a handback. No symmetry, which liveness forbids. |
| `handoff_expiry` | Is an expired lease seen as ABORTED? (refuted) | 2 POSTs, a lease of 1 |
| `journal_crash` | Does the chain survive anything? | 2 processes, 3 records: one acknowledged, one interrupted, one attempted after it; power fails anywhere, also before the file just created is there to stay |
| `evidence_crash` | Does evidence survive process death? | 2 processes, two contents and two uses, hence same bytes for same and for different use |
| `replay` | Is a replay careful, authorised, final and terminating? | capabilities of 2 and 3 steps under a limit of 2, so the budget runs out in the middle; every combination of the caller's flags |
| `discovery` | Does a discovery run end once, spend within limits, act on what it saw, and detect dead ends exactly? | two pages, five moves, limits of 4 steps, 4 calls and 7 tokens, dead end at 3: both counters, every budget and a handoff before and after each of them |
| `websurface` | Is a settled page quiet, a target never from before a handoff, and settling bounded? | 2 pages, 1 request, ladder of 2, window 2, poll 1, timeout 4, clock to 7: an event can fall before, on and inside the window, between two samples and during one, and a second call can begin after a handoff. A second request adds nothing to `requests = {}`. |
| `compiler` | Is a capability, and a manifest, what the run did? | every journal of a run of 3 steps and 3 planner calls over 5 moves (one target read as one output and as another, a navigation, data entry, an irreversible submission), with a handoff, redacted by the command's rules or not |
| `artifact` | What can an approval, and an override, in an editable file be relied upon for? | 2 symmetric approvers, a compilation, a catalog call, 2 contents, one of them the compiled one |
| `target_app` | Does money move once, as reviewed, whatever requests of one session interleave? | 2 symmetric connections: one suspended while the other signs in, expires, reviews or commits; 2 tenants, one with the extra page; a member and a restricted one; 2 reviews, the least for a stale token and for a second deposit from an emptied account; one fault of each kind, posted at any time |
| `bank` | Does the lookup end as the README says, with the right member's balance? | 5 members, one for each kind of page (a plain one, another for a person to mistake it for, a restricted one, one with 500 on its page, an unknown one); each fault once, and the two that a recovery handles twice; a handoff to the script, to a person who types any of two members or an unknown one, or none. The two plain members are symmetric |
| `bank_missed_answer` | Is an unknown member always the business answer? (refuted) | the same |

`MCTargetApp` has a VIEW: an answer on its way out can do nothing but show a
token and leave, so answers that show none are one state.

Deadlock is checked in every run whose system cannot stop by itself; the
replays, the discovery and the recorded run stop at their end, so theirs say
`CHECK_DEADLOCK FALSE`. (`Handoff` has an explicit `Done`.)

Type invariants are part of the inductive invariants that TLAPS proves for every
instance, which leaves nothing for a run to add. `RecordedRun` has none of its
own: its variables are those of `DiscoveryAgent` and a journal that it only
builds.

### What the properties say

*Handoff.* `LeaseMatchesBrowser`, `OneTokenOwner`: no handler leaves the lease
and the surface telling different stories, nor two holders of the token, nor a
lent browser whose token nobody has, unless the hand-back that presented it has
failed; and whoever waits to present one has the one the surface expects.
`ActsMonitored`: automation never acts on a page whose request listeners came
off, which settle would take for a quiet one. `OneAccountableOperator`,
`ClosedRunIsAccounted`: the journal of a run names one operator in order, and a
run that closes in order has the summary before its end. `ExpiredLeaseIsInert`: after
expiry the request changes only by a take that had found the lease live before
its await. `CallsReturn`, `ResolvedRunEnds`: progress.

*Journal.* `InterruptedForGood`, and `ImplementsAppendOnlyLog`: every step is
one of the log's, which chains each record to the last and never changes one;
that the chain is unforked and acknowledged records stay are theorems. One consequence of these is
worth knowing: a directory whose process dies between creating the journal
file and its anchor can never be opened again.

*Evidence.* `ReferencesResolve`: a reference that `put` has returned stays
listed with a blob behind it. `EntriesAreDistinct`: one entry per bytes and
use, across crashes. (That a rotten blob is not
replaced is a theorem, `RottenStays`.)

*Replay.* `DispatchedOnce` (not after a recovery, a timeout with unknown
effect, or a handoff), `SuccessIsVerified`. `OutputsAreFresh`: no value that a
success returns was read before the operator's turn. `DispatchIsAuthorised`:
consent to a draft and every gate of an irreversible action, although the
resumed execution is given options built anew. `RunStops`.

*Discovery.* `EndsOnce`: the manifest relies on exactly one `RunEnded`
(`observability/manifest.py:151-167`) whichever node fails, and a true one; a second
one, a failure, has only the run that fails after its terminal node.
`SpendingIsBounded`: the budget is looked at after the planner has been paid,
so calls and tokens exceed their limits by one call, never two, handoff
included. `HumanConfirmsOnce`, `ActsOnWhatItSaw`. `DeadEndIsExact`: the two
counters of `verify` agree with the recorded turns although the handoff resets
neither. `RunCloses`.

*Surface.* `SettledIsQuiet`: when a page is called settled, nothing is in
flight but what was when the operator gave the browser back, whose beginning no
listener saw, and no handler has fired within the window, between two samples
or during one. `NoStaleTarget`: a target resolved before a
handoff is blocked even if the operator leaves an identical page. `SettleEnds`:
whatever observation hangs, the first included.

*Compiler.* `CompilesAsJournaled`: the pass's dictionaries, overwritten as
records come, yield for every step what the whole journal says of its attempt.
`GoalCompiles`: no journal of a run that reached its goal raises `KeyError`,
handoff or not. It compiles exactly when every attempt in it is legible and no
output was read twice, so a journal that `cua discover` wrote never does: the
reading that reached the goal is not legible. The steps it
compiles to are the agent's turns, in order, without failed attempts and
without the operator's action.

*Manifest.* `ManifestTellsTheRun`: the manifest of a run that closed with one end
can be written, whichever call failed last and whether or not amendments follow,
and that of one with two ends is refused; it has
the end the run had, counts every answer the planner was paid for (and one more
when a locator ladder failed after the decision was journaled), an escalated
decision behind an operator's action, and an output for every verified reading that had
a value.

*Artifact.* `ApprovalsAreSound`: an artifact that verifies as approved was
reviewed by its approver with the content it has, whatever was edited; and the
journal has the approval before the file does. `OverrideFitsBase`: a catalog
call never replays an override with another base than its own, although the
files are read again after the model's answer.

*Bank.* `OneReceiptPerToken`: "repeated confirmation tokens cannot debit twice"
(`target_app/workflow.py:45`), for repeats that come from anywhere, a notice's
kept request included. `MoneyIsConserved`. `DraftStaysPayable`: nothing empties
an account under an accepted review, so the check that `commit` repeats never
refuses. `CommitsAreAuthenticated`: only the cleared draft protects an expired
session from a request that was let in before. `ImplementsOneTimeDeposits`.

*Lookup.* `DemoEndsAsDocumented`: with a fault of any kind the replay ends as
the demos of `README.md` say, for any member, and after a server error at
sign-in the scripted operator's return leads to the answer.
`SuccessIsTheRequestedBalance`: a success is the balance of the member asked
for, and no restricted one's, unless a person left the browser about another
one. A settled page has to be left so at step 3 or later, for a run handed back
before types its own number; one that is still loading, at any step, for the
other member's results may come after the number was typed. The checkpoints of
the remaining steps do not tell.

### Fairness

* `Handoff`: the event loop resumes a coroutine whose turn it is, the run takes
  its next line, a server asked to exit does. Nobody is obliged to post
  anything and the clock may stand still.
* `ReplayExecutor`: `WF(Execute)`. `HandBack` has none: nobody makes the
  operator come back, so `RunStops` counts waiting for the operator as an end.
* `DiscoveryAgent`: `WF(Next)`; the operator is a script. LangGraph's own
  recursion limit is far above the step limits of any policy and is left out.
* `WebSurface`: `WF(Tick)` and `WF(Expire)`, the loop's clock and its timers.
  No observation is fair: `SettleEnds` must not rest on a browser that answers.
* `RunJournal`, `EvidenceStore`, `RecordedRun`, `ArtifactLifecycle`, `TargetApp`
  and `BankReplay` state no liveness and no fairness.

### Findings

Where the documents say one thing and the code does another, a run checks the
statement of the document and TLC refutes it (`findings` in `PROJECT.json` has
quotations and lines):

1. An expired lease is never stored as ABORTED; the waiting run polls for ever
   (`handoff_expiry`).
2. Outcomes are not looked for after a recovery, so that an unknown member whose
   search met a notice becomes a locator failure (`bank_missed_answer`).

Others were met and have no run of their own:

* the execution resumed after a handoff does not apply the tenant override
  (`cli/__main__.py:855-863` builds its options anew; `README.md:256-259`: "With
  the override, the same artifact succeeds"); `Resume` clears `patched`;
* a surface failure in `verify`, or in the locator resolution of `act`, ends a
  discovery run without escalation (`discovery/graph.py:264` and `226`;
  `REPORT.md:86-87` lists surface errors among what escalates);
* a discovery run that has just reached its goal does not compile
  (`README.md:156-159`), for two reasons. Nothing but
  `scripts/reconstruct_discovery_target.py`, written for one earlier run, writes the
  record that `discovery/compiler.py:165-168` asks for, and what every `Observed`
  carries now (`graph.py:96-97`) is not read. And the journal has redaction
  markers for the names of targets (`cli/__main__.py:226-248`), which the validation
  at `discovery/compiler.py:201` refuses;
* what fails after the terminal node of a discovery run adds a second `RunEnded`
  (`cli/__main__.py:303-325`), with which `write_manifest` refuses the run;
* after a person's handback at steps 3 to 5, and at any step when a page is still
  loading, the checkpoint (the shell's heading) accepts another member's page, and
  the run succeeds with that one's balance, while `README.md` has it resume "only
  if the recorded checkpoint is satisfied" so that the page is the "expected
  member state";
* the hard outcome `(?:System error|500)` (`discovery/compiler.py:115`) matches a
  balance or an address with these digits, and so a healthy page
  (`Alarming` in `BankReplay`);
* a session that expires again while it is being re-authenticated ends in a
  checkpoint failure, and a re-authentication from step 4 on leads to the search
  page, which has not the control of the next step;
* `max_attempts` of a recovery is not read by the executor, which recovers once
  for each step (`REPORT.md:54-55`: "at most twice");
* in the bank, an expired session can get a draft or a pending request back from
  a request that was let in before (`target_app/app.py:156`;
  `target_app/README.md` has expiry clear them); nothing can be committed from
  it;
* a dismissal runs the kept request under the tenant of the dismissing request
  (`target_app/app.py:170-172`), so a confirmation kept for one tenant can
  follow the confirmation rules of another;
* recovery actions reach the surface with no policy decision
  (`replay/executor.py:433` and `516`; `REPORT.md:107-108` has risk "checked ...
  immediately before surface action");
* the execution resumed after a handoff starts with empty outputs
  (`replay/executor.py:192`), so a success lacks what was read before it, while
  `README.md:266` lists "typed outputs";
* the stability window runs from the first look at the page, before the second
  snapshot it is compared with (`surface/web.py:569`; `REPORT.md:48-49`: "two equal
  consecutive AX snapshots across the stability window"): two equal snapshots
  may be one poll apart;
* the catalog derives a tool's schema so that "calls cannot drift from replay"
  (`catalog/registry.py:55`), and replays whatever approved content is in the
  file by then;
* `RunProvenanceVerifier` matches an approval's actor and digest with the
  journal, not its time and reason, which `domain/provenance.py:56` asks for;
* a recovered step is not resolved and performed again as `README.md:74` draws
  it (`replay/executor.py:437`);
* `HardFailure` carries a head of zeros when it is returned before the first
  append (`replay/executor.py:193`);
* a landing denied only because the step just counted used up the budget is
  journaled as `policy_denied` (`discovery/graph.py:267`).

## 4. Proofs

All theorems are about the same `Spec` that TLC runs, for every value of the
constants that satisfies the module's named assumption. Each family has an
inductive invariant `IInv`, proved from `Init` and one lemma or step per
action; `PROJECT.json` lists the results.

* **`HandoffProofs`**: `TypeOK`, `LeaseMatchesBrowser`, `StatusAdvances` (no copy
  read before an await takes a request back),
  `ImplementsExclusiveControl`, for any number of concurrent handlers, any
  lease time. `LeaseMatchesBrowser` is far from inductive: a take suspended in
  the lock carries a copy of a lease that others may have changed by the time
  it runs. What saves the code is the order of the lock's queue. Every take
  that found the request open is queued before the first of them cedes the
  surface, and a handback can only be queued after that, so stale takes meet a
  ceded surface, and fail, before any handback could make it free again. The
  invariant says this about positions in `lock`. An unfair lock, the mutant
  `Queue_NewestFirst`, breaks `ImplementsExclusiveControl` in the run.
* **`RunJournalProofs`**: every property of `journal_crash`, that the chain never
  forks and that acknowledged records stay, for any number of
  processes and records. The OS lock leaves one process inside; the anchor and
  the one it replaced are at most one record behind the file, and the process
  inside is at the place that explains the difference.
* **`EvidenceProofs`**: every property of `evidence_crash`, and that rot is
  preserved. One process inside;
  it knows the index, up to the entry it is writing, and has checked the blob.
* **`ReplayProofs`**: every safety property of `replay`, that answers are final,
  and the refinement of `StepwiseRun`, for any capabilities, callers and limits. *Progress* says where
  the index may stand at each place; *Order* that all dispatched steps are
  behind it; *Accepted* that every step behind was verified or performed;
  *Authority* that what authorises an action is decided before the page can
  change what the run has observed of it; *Fresh* that every value at hand was
  read after the last handback.
* **`DiscoveryProofs`**: every safety property of `discovery`, for any pages,
  moves and limits. *Spending* says at which nodes a budget may exceed its
  limit and by what, *Counts* relates both counters to the tail of the history
  at each node, *Seen* says where the last observation is current.
* **`WebSurfaceProofs`**: every safety property of `websurface`, for any pages,
  ladders and timing. *Held*: control is ceded between calls only. *Known*: the
  tables lack nothing that is in flight but what was missed. *Fresh*: what is in
  the handle table is younger than the last cession.
* **`ArtifactProofs`**: both properties of `artifact`, for any number of actors
  and contents. *Witnessed*: every approval of the journal, and everything
  about to become one, is of something its actor ran the command on; edits
  reach the file only. *Recorded*: a command past the journal has its record.
* **`TargetAppProofs`**: every property of `target_app`, for
  any clients, tenants, members, requests and faults. Whatever a request does,
  its step has one of a few *effects* on the money (nothing, a dropped draft, a
  new offer, a confirmed one, a deposit) or begins the session anew; `Sound` says
  that draft and receipts agree with ledger and tokens, `Unreachable` that no
  future number is known or used, `Opened` that accounts and receipts correspond one
  to one. Each effect, not each action, is then shown to keep the invariant.
  `MoneyConserved` needs what a sum over a sequence is: see below.

Four groups of theorems build on these.

* **The loan** (`HandoffProofs`, `LoanInv`): every other safety property of
  `handoff`. The invariant adds what a token needs to be in one place only
  (*TokensIssued*: whatever is held was issued before, so the next one is
  nobody's; a hand-back that waits has popped the surface's token, and a second finds
  none, so `OneTokenOwner` is inductive with it); that the listeners are off only
  while the surface is lent or the request still open, for a cession that failed
  half-way (*MonitoredAgain*); that a hand-back has the lease it stored
  (*LeaseCopied*); and what the journal holds: only the operator of the request and
  nobody before the loan (*OperatorKnown*), one transfer (*TransferredOnce*), its
  return after all the operator did (*ReturnedLast*), and the end of the run with
  nothing lent and nothing behind it (*RunAccounted*). `ExpiredLeaseIsInert` is
  proved action by action.
* **The journal of a discovery run** (`DiscoveryProofs`, `RecordedInv`): all of
  `compiler`, for journals of any length. `RecordedRunsAreRuns` carries the
  invariant of `DiscoveryAgent` over. *Telling* counts: decisions journaled and
  calls paid, ends journaled and runs ended, readings and the turns that read.
  *Compiling* says of the dictionaries after the records so far that they have
  what the compiler will look up (*Found*), and that the actions in them are the
  turns of the agent and the one under way (*Matched*). `CompiledAsJournaled` is
  independent of the run: what the dictionaries hold after n records is what the
  first n records say, the last observation of a page (*LastSeen*), the last
  allowed decision (*LastAllowed*), the first observation after an attempt
  (*FirstAfter*), the attempts in their order (*InOrder*).
* **The lookup at the bank** (`ReplayProofs`, `BankInv`): `BankRunsAreRuns` makes
  every theorem about the executor one about a replay against the bank.
  `RequestedBalance` has to follow the requested member from the form through
  the browser's requests, a notice that keeps one, the bank and its answer to the
  page (*About*, *Faithful*). It is inductive only with the reasons: `act()` has
  settled wherever the run looks at the page, but for a page a person handed
  back while it was loading, until the next look (*Rested*), so no other document
  of an earlier step arrives late; the bank serves the one being fetched
  (*Serving*); the form is empty or has what was typed since it came
  (*Displayed*); what a notice keeps is behind the notice, or behind what is about
  to be shown in its place, and an answer nobody waits for has been followed by
  another request (*Noticed*); how far the handoff has got (*Handing*). What a
  person left browser and bank about is one finite set of members, and *Faithful*
  says that the run meets no other; that of a settled page it goes on from the
  search form is why the exception begins at step 3.
* **How the demos end** (`ReplayProofs`, `DemoInv`): `DemosEnd` holds for any
  members and for an expired session or a notice any number of times. It has to
  say at which document of which step a fault strikes: `page`, the request under
  way and what is left of the posted fault are one of a few combinations at each
  place of the run. Before the sign-in every fault is still ahead (*Opened*); the
  form goes out and may come back expired (*SigningIn*, *Refused*); the frames fill
  in any order, and the search page is the first document that asks for an
  operation, so it meets every fault that is left (*Filling*, *Outcome*); a notice is
  acknowledged and hands the kept request on (*Acknowledging*, *Acknowledged*).
  From there no fault is left (*Steady*), each step knows its page (*Later*), and
  what the operator does after a server error leads to the same page
  (*Restoring*). The assumption it cannot do without is that one kind of fault is
  posted: with two, a second one meets the page that recovery has brought about,
  where only the checkpoint is looked at (`MissingMemberIsAnswered`).
* **Sums and passes.** What a definition computes along a sequence is an induction
  over its length. The library's induction theorems cannot be instantiated here,
  but that a nonempty set of naturals has a least element can be
  derived from `WellFoundedInduction` without an operator (`LeastNatural`,
  `NaturalsReached`), and with it that the recursive functions in `Total` and
  `Pass` exist, are unique, and go on by one element (`TotalAppend`,
  `TotalExcept`, `PassAppend`). The invariants use only these.

Only model-checked:

* liveness (`CallsReturn`, `ResolvedRunEnds`, `RunCloses`, `RunStops`,
  `SettleEnds`): fairness and ENABLED are beyond the prover.

Every invariant and action property of a passing run is stated by a theorem.

The constants' assumptions are facts of the code: `RecordedAssumption`, that
readings, and only they, name an output (`domain/actions.py`); `BankAssumption`, that
the capability is the lookup, that people type numbers, and that `None` is no
member, request or handover, as `null` is none;
`DemoAssumption`, that one kind of fault is posted, a server error once, as
`configure_test_fault` does with its default count (`cli/__main__.py:722-723`,
`surface/web.py:225-235`), and that the policy's limits leave room for the six
steps (`config/policy.yaml:39` allows 50).
No module that is proved about uses a RECURSIVE operator.

### Assumptions about the world

FIFO wake-up of `asyncio.Lock`; exclusion by `flock`, released at process
death; atomic `os.replace`; a written and fsynced file keeps its content (`Rot`
excepted); digests do not collide; one handoff per run, as the code has it.

## 5. Not modelled

Wall-clock limits of a policy (`wall_clock_s` is compared with a limit and
never updated); a page that navigates between the policy's answer and the act
that `WebSurface` checks; the substitution an override makes; the model's
choice of a tool; what a manifest copies from other files, its regeneration,
and `CostAmended`, which nothing in the program appends; a run that is
cancelled, which `_discover` does not catch and which leaves no `RunEnded`;
redaction, tracing and formatting; URL matching and the risk-rule table;
provider protocols; the desktop stub. Of the target application: rendering, the
signed cookie, more than one session (they share nothing), and the routes that
touch no session state. Of the lookup: a second capability and tenant, and a
page that changes while a step is performed. Hazards in these are listed with a
note where there are any.

## 6. Plan

The core came first: who has the browser (`Handoff`), what a run may rely on
afterwards (`RunJournal`, `EvidenceStore`), what the two drivers do
(`ReplayExecutor`, `DiscoveryAgent`), then how a page is acted on (`WebSurface`),
what a run becomes (`RecordedRun`) and how that is approved and used
(`ArtifactLifecycle`), and last the bank and a whole replay against it
(`TargetApp`, `BankReplay`). What is left, in order:

1. `ReplayExecutor` over `WebSurface`: the URL the policy was asked about against
   the page that is acted on (`replay/executor.py:261`).
2. A clock in `DiscoveryAgent` and `ReplayExecutor`: timeouts of a step and the
   wall-clock limit.
3. A composition of `RunJournal` with the runs that append to it: what a manifest
   may claim of a run that died, whose chain is not intact.
