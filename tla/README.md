# A TLA+ model of the autonomous software factory

The repository is a pipeline that turns a feature request into deployed code
with LLM agents. Most of what the agents *do* (inference, tests, deployments) is
a placeholder in the source. What the source does have is the control around it:
retry loops, circuit breakers, cost budgets, gates before production, and the
routing of errors. That control is what is modelled here.

Paths are relative to the repository (`workflow.py` is `orchestrator/workflow.py`,
`retry.py` is `pipeline/shared/retry.py`, and so on).

## 1. Inventory

| Component | State | Operations | Talks to |
|---|---|---|---|
| `CircuitBreaker` (`retry.py:60-114`) | state, value, time of the last trip | `state`, `is_open`, `check`, `record`, `reset` | called by `retry_async` and `CostTracker` |
| `retry_async` (`retry.py:120-185`) | per call: attempt, last exception | one loop with two awaits | awaits a function; shares a breaker with other coroutines |
| Workflow (`workflow.py`) | the `FeatureRequest` it is bound to, file and attempt of the retry loop | seven phases in order, three `except` clauses | awaits activities; returns a `WorkflowResult` |
| `BaseAgent`, `RetryableAgent` (`workers/base.py`) | attempt, accumulated errors | `run`, `run_with_retries` | run a subclass's `execute`; write the cost ledger |
| `CoderAgent` (`workers/coder_agent.py`) | `implementation_files`, ledger | `execute`, `_implement_file` | inference, alignment check, tests |
| `CostTracker` (`pipeline/shared/cost.py`) | three breakers and their totals | `check_budget`, `record_llm_call`, `record_retry` | fed by `LLMClient`; nothing in the source calls `check_budget` on a feature's own tracker |
| `LLMClient` (`pipeline/shared/llm_client.py`) | clients per role | `complete`, `complete_json` | the model server; charges the tracker |
| `tracked_activity` (`temporal_helpers.py:61-141`) | a tracker of its own per call | wraps an activity | marks the feature, raises `EscalationRequiredError` |
| Errors (`pipeline/errors.py`) | kind and context | - | raised by agents, routed by the workflow |
| SRE agent (`workers/sre_agent.py`) | `fire_drill_result`, `incident_history` | `detect_anomaly`, `execute_revert_protocol`, `run_fire_drill` | the workflow reads the drill result |
| QA agent (`workers/qa_agent.py`) | - | hash check and six placeholder stages in order | reads complexity bucket and hash of the feature; raises blocking errors through `BaseAgent.run` |
| Shared models (`pipeline/shared/models.py`) | `FeatureRequest`, blueprint, ledger | `lock`, `compute_hash`, `record_*` | everything |
| Specification factory (`src/.../specification/blueprint.py`) | phase, options, blueprint | `advance_phase`, `select_architecture`, `lock_blueprint`, two checks; options, blueprint and its `lock()` are open to its holders | artifacts embed its hash |
| Cost ledger (`src/.../pipeline/cost_ledger.py`) | entries, counters, `_tripped` | `record_*` | raises into the agent that charges |
| Decision functions (`complexity.py`, `thresholds.py`, `fire_drill.py`) | - | classify, detect, evaluate | nothing feeds the bucket to an agent; the others repeat decisions of the SRE agent and the workflow |
| Legacy state (`pipeline/state.py`) | a second `FeatureRequest`, blueprint and ledger | `lock`, `check_budget`, `validate_spec_hash` | - |
| Configuration, metrics (`config.py`, `metrics.py`) | constants, counters nobody reads | - | - |

What is hard, and not easily reached by the unit tests:

- **check and record are on two sides of an await.** Whoever passed a check
  records later, into a breaker that has meanwhile tripped, expired or been
  reset (breaker, `retry_async`, cost tracker).
- **timeouts and retries.** Stragglers re-arm the reset timeout; HALF_OPEN
  admits everyone; some failures are recorded late and some never.
- **a shared mutable `FeatureRequest`.** The blueprint can be edited and a fire
  drill can report while the workflow waits; the outer function may hold an
  older object than the phase that fails.
- **error routing.** Which exception is retried, which is wrapped, which ends
  the workflow, and which passes it by.
- **things done twice.** The repository has two packages that implement the same
  decisions: three budgets, three blueprint locks, two anomaly detectors, three
  drill gates. Where do they come to different answers?
- **locks that freeze nothing.** A lock stores a hash; every field stays
  assignable, and each of the checks notices something else.

`PROJECT.json` lists the hazards line by line with the properties that cover
them.

## 2. Plan

Written in this order; each later module reuses the earlier ones.

1. `Breaker` (operators), `SharedBreaker` (one object), `CircuitBreaker`,
   `RetryAsync` - done, proved.
2. `PipelineContract` (abstract) and `FeatureWorkflow`, which implements it -
   done; safety part of the implementation proved.
3. `CoderAgent` - done, proved.
4. `CostBudget`, which composes three breakers with the tracker, the client and
   the activity wrapper - done, proved.
5. `SREAgent` - concurrent revert protocols and fire drills with the gate they
   decide - done, proved; `SREDecisions` compares those decisions with their
   second implementation - done, proved.
6. `CostLedger` - trips and charges after a trip, beside the two other budgets -
   done, proved.
7. `Blueprints` (what is hashed), `SpecificationFactory` (phases, lock, checks,
   edits) and `BlueprintChecks`, the two other locks - done, proved.
8. `QAAgent` - which blueprint a pass stands for, and what becomes of errors -
   done, proved; `Complexity`, by itself - done.

Left: an abstract bounded-attempts loop that `RetryAsync`, `CoderAgent` and the
loop of `FeatureWorkflow` implement, and the steps of an abstract breaker that
`RetryAsync` and `CostBudget` both implement.

## 3. The modules

**`Breaker`** - the breaker as a record and its methods as operators. The
monotonic clock is abstracted to the time left (`cooldown`), so that
`elapsed >= reset_timeout_seconds` is `cooldown = 0`; a trip sets it to the
timeout and `Elapsed` counts it down. Reading the `state` property mutates the
breaker in the source (`retry.py:79-82`); so `check` is `Observed` as well as
`IsOpen`.

**`SharedBreaker`** - one breaker object as its callers see it: `threshold`,
`reset_timeout_seconds` and the variable. The next two modules extend it, each
with clients of its own.

**`CircuitBreaker`** - one breaker and any number of clients. `CheckPasses` and
`CheckRaises` are the two outcomes of `check()`, `Record` is `record(amount)`
after the await, `Abandon` an operation that fails in between. `quiet` is a
history clock used by the properties.

**`RetryAsync`** - coroutines in `retry_async`. A coroutine loses control at its
two awaits only, so that an action is the code from one await to the next:
`Invoke` (up to the first call), `FuncReturns`, `FuncRaisesOther`,
`FuncRaisesRetryable` (up to the sleep, or out of the loop), and `Wake` (the
record after the sleep, then the check of the next attempt, in one step).

**`FeatureWorkflow`** - the workflow of one feature. `pc` is the activity it
waits for. Each `...Returns` action does everything up to the next await; e.g.
`IntakeReturns` includes the hash check and `ShadowReturns` the fire drill gate,
which has no await before it. `ActivityRaises` is any other exception of any
activity and `HandlerOf` the `except` clauses; an exception outside
`PipelineError` makes the verdict "escaped", since there is no result then.
`shared` says whether the outer binding of `feature` and the one of the code
generation phase are the same object: an activity may return its argument or a
deserialized copy. `BlueprintDrifts` and `DrillReports` are other holders of the
request.

**`PipelineContract`** - what the orchestrator promises: stages in order, the
release only from the trial, one final verdict. `FeatureWorkflow` maps its `pc`
and `verdict` to the contract's (`StageOf`, `ContractVerdict`).

**`CoderAgent`** - `run_with_retries` around `execute`. `Retry` records and
begins the next attempt in one step (nothing is awaited in `_on_retry` that
gives up control), `CallRaises` covers every exception of an awaited call, with
foreign ones wrapped as retryable (`base.py:99-114`). `implementation_files` is
the list in the feature, which keeps the files of failed attempts;
`attemptStart` (its length when the current attempt began), `attemptHash` and
`fatal` are history.

**`CostBudget`** - three breakers, the totals, and agents that charge them. A
completion begins whenever its agent runs (`CallLLM`), because
`LLMClient.complete` looks at no budget; `LLMReturns` charges it after the await,
`LLMRaises` does not. `CheckPasses` and `CheckRaises` are `check_budget()`, which
touches the breakers in order and stops at the one that raises; it and
`record_retry` are public methods an agent may call at any time, and nothing in
the source does. What `check_budget` raises either meets `tracked_activity`,
which escalates, or is wrapped by `BaseAgent.run` first, and does not.
`StartActivity` is the wrapper with its fresh tracker. `quiet` is a history clock.

**`SREAgent`** - revert protocols, fire drills and releases on one feature.
`DetectAnomaly` is `detect_anomaly` and the begin of the protocol up to its
first await; then one action per answer of the infrastructure. The source has no
caller of these methods yet: the model lets any number of monitors and drills
run at once, since each is a coroutine that reads and writes the shared
`FeatureRequest`. `PassGate` is the orchestrator's read of the drill result, and
`ProductionPhaseEnds` the end of the production phase awaited behind it, so that
drills and protocols run in between; that phase is a placeholder, and the model
lets it number the deployments. `judged` is history: the result the gate read.
Of a report or an error the model keeps its trigger, its deployment and its
target.

**`SREDecisions`** extends it by what the newer package decides on the same
readings and drill results: `detect_anomaly` of `thresholds.py`,
`evaluate_fire_drill`, and `is_ready_for_deployment` of its `models.py` as far as
it looks at the drill. It adds no state.

**`CostLedger`** - the ledger that raises. A `record_*` method awaits nothing, so
`Charge` is one step: add, compare, and on exceeding the limit set the reason and
stop the calling agent with the exception. `GoOn` is a caller that catches it;
nothing in the ledger stops it from charging again. The same charge is recorded
in the breakers of a `CostTracker`, and `LegacyBudgetExceeded` is the answer of
the third budget, so that the three can be compared in every state.

**`Blueprints`** - what the three blueprint classes hash. A text is kept as far
as it decides whether two contents hash the same: as the parts between the
separators the class joins with. `sorted(list)` is the one rearrangement of the
list (`Rearranged`, by bijections of its positions) that is in order, which says
what sorting returns and not how. Joining no name gives the empty text, as
joining one empty name does. `SameMeaning` is the reference the digests are
compared with: equal fields, and lists that are rearrangements of each other.

**`SpecificationFactory`** - the factory with its blueprint and files that carry
a hash. A call that raises leaves the state alone and is no step. `EditBlueprint`,
`ReplaceBlueprint`, `ProposeOptions` (which also replaces the list, with options
selected or not) and `SelectArchitecture` are enabled at all times, because the
code has no check there. A blueprint is locked by `LockBlueprint`, after the
validation, or by `LockDirectly`, the public `lock()` without any. `sealed`,
`validated` and `writtenFor` are history: what the lock found, whether it
validated, and what an artifact's hash was taken of. The names are those of one
of several specifications that `SpecHashProofs` extends, hence `FactoryInit`,
`FactoryNext` and so on (as in `CircuitBreaker`, beside `RetryAsync`).

**`BlueprintChecks`** - the locks and checks of the two other blueprint classes
on one specification with edits in any order: the shared one, which the coder and
the QA agent recompute, and the one of `pipeline/state.py`, whose
`validate_spec_hash` compares two stored hashes. Both have the architecture as a
field.

**`Complexity`** - one call of `classify_complexity`, on the number of keywords
matched per bucket and the flags. `Floors` is the reference: what each flag and
the keywords ask for at least, without any order.

**`QAAgent`** - one action from the answer of a stage to the await of the next.
`Raise` is the whole way of an exception: wrapped by `BaseAgent.run`, then seen by
`tracked_activity`; a cancellation is wrapped by neither. `complexity_bucket` has
any value, since nothing computes it. `builtFrom` and `judged` remember which
version of the blueprint the coder agent built from and QA's check saw.

`MC*` modules give constants for TLC; `MCSpecification` explores the factory, the
blueprint checks and `classify_complexity` side by side in one run, not in product,
since they share nothing but the contents. `*Proofs` and `BreakerLemmas` hold proofs.
An operator whose comment begins with "Mutant" is a plausible bug of the
definition below it. The specification does not use it: it documents which
change of the code the properties would notice (`PROJECT.json`, "mutants").

## 4. What TLC checks

| Run | Properties | Bounds |
|---|---|---|
| `circuit_breaker` | `ClosedIffUnderThreshold`, `CooldownCountsQuiet`, `AdmissionNeedsQuiet`, `RecoveryNeedsReset`, `RejectionEnds` | threshold 3, timeout 3, amounts 0-2, value up to 8, 3 in flight |
| `retry_async` | `RetryAccounting`, `RetriesBounded`, `EveryInvocationEnds` | coroutines with 3, 2 and 0 attempts, 2 invocations each, threshold 3, timeout 2 |
| `feature_workflow` | `PromotionGates`, `NoSilentFailure`, `ResultLedger`, `RetryBound`, `ImplementsContract` | 3 files, limits 0, 1 and 3, one edit of the blueprint |
| `coder_agent` | `InferenceAccounting`, `ReturnedEndsWithOneAttempt`, `AgentEnds` | 3 files, 3 attempts, with and without a valid input, one edit |
| `cost_budget` | `BreakersMatchTotals`, `RefusedWhileCharged` | 2 agents, 2 activities each, limits 2 and 3, latencies 0-2, charges begun up to a total of 3, timeout 2 |
| `sre_agent` | `EveryProtocolAccounted`, `ReadsInOrder`, `DecisionsAgree`, `PromotionWithinTimes` | 2 monitors and 2 drills (symmetric), 2 metrics, 2 promotions, 2 protocols, readings and times below, at and above the thresholds |
| `cost_ledger` | `TripTellsTheTruth`, `OvershootPaidFor`, `BudgetsAgree` | 3 agents (symmetric), limits 1-3, charges 0-2, 2 exceptions survived |
| `specification` | `AcceptedIsOfSealedContent`, `IntegrityNotices`, `ChecksNotice`, `HighestFloorWins` | 10 contents, 2 options, 1 file, with and without an architecture; up to 2 keywords in each of the five buckets, all flags |
| `qa_agent` | `ReturnedIsVerified`, `SeverityKept` | every bucket, every kind of exception, up to two edits |

Every run checks its type invariant too (`TypeOK`, `BreakerTypeOK` or
`FactoryTypeOK`). What the less obvious results say:

- A tripped breaker is never closed by success or time, only by `reset()`, and
  it lets *everyone* in once per timeout (`RecoveryNeedsReset`,
  `AdmissionNeedsQuiet`). Late records push the timeout out, but not for ever:
  an operation in flight records once (`RejectionEnds`).
- With a shared breaker, second and later calls of the function are fewer than
  the threshold over all coroutines and all time, HALF_OPEN included: whoever is
  let in then trips the breaker again with the record that precedes his retry
  (`RetriesBounded`).
- `PromotionGates` says what the gates establish and no more: the hash was good
  when code generation began, all files passed their tests unless the limit is 0,
  and the drill result was not a failed one when the gate read it.
- What a successful coder agent returns *ends* with one attempt's whole
  implementation, which began with the hash intact; files of failed attempts stay
  in front of it, fewer than the number of files for each
  (`ReturnedEndsWithOneAttempt`).
- `check_budget` refuses exactly while a spent dimension was charged within the
  last reset timeout, whichever completions were charged late and whoever looked
  at the breakers before (`RefusedWhileCharged`). Nothing bounds the spending
  itself, because nothing calls it (see below).
- What a promotion rests on is the result that the gate read before the production
  phase was awaited, not the one in the feature when it ends
  (`PromotionWithinTimes`).
- The ledger in a `WorkflowResult` can be older than the failures it should
  count, exactly when the workflow halts inside code generation after an
  activity returned a copy (`ResultLedger`).
- `ImplementsContract` includes that the workflow ends: the contract has finitely
  many stages and is fair.
- A ledger that has tripped goes on counting and its reason stays true to the
  latest excess (`TripTellsTheTruth`). Its only brake is the exception: each
  limit is exceeded by at most one charge per agent, and one more for every
  exception someone swallowed (`OvershootPaidFor`).
- Ledger, tracker and legacy check differ only in a total exactly at its limit
  (`BudgetsAgree`); the two anomaly detectors only in a reading exactly at its
  threshold, and the drill gates only for a feature without a drill
  (`DecisionsAgree`).
- An artifact is accepted exactly if the contents that were sealed when it was
  written and that are sealed now mean the same, apart from hidden separators and
  empty names. Neither edits nor locks without validation change that; that the
  sealed content is complete is known only of `lock_blueprint`
  (`AcceptedIsOfSealedContent`).
- Which edits the checks notice differs for each of the three classes:
  `verify_integrity` misses a separator hidden in a text, an empty name for none,
  and another architecture (`IntegrityNotices`); the shared check notices even a
  reordered list, and `validate_spec_hash` nothing (`ChecksNotice`).
- No flag lowers the bucket another flag or the keywords ask for
  (`HighestFloorWins`).
- A blocking verdict is never wrapped into something retryable; and since every
  foreign exception is wrapped, `tracked_activity` never sees an exceeded budget
  of an agent (`SeverityKept`).
- A revert can hit a deployment promoted after the anomaly was seen, and its
  error can name one promoted after the revert; never the other way round
  (`ReadsInOrder`).

Three runs end in a violation, each of one statement of a doc, comment or test
that the code does not keep; `PROJECT.json` quotes them under "findings":

- `workflow_drill`: a feature without any drill result passes the fire drill
  gate (`workflow.py:238`).
- `workflow_retryable`: a retryable error outside code generation ends the
  workflow (`workflow.py:121`).
- `cost_activity`: an activity starts on an exhausted budget, since the wrapper
  checks a new tracker (`temporal_helpers.py:108`).

Other differences between text and code met on the way. The models have what the
code does; no run is spent on these:

- The failure of a last attempt is not recorded in the breaker
  (`retry.py:166`), while `tests/test_retry_extended.py:91` says "Circuit breaker
  records after each failed attempt." `RetryAccounting` counts it apart.
- A retry of the coder agent implements all files again (`coder_agent.py:56`);
  `docs/decisions/ADR-004-skeleton-first-generation.md:24` wants "only the failing
  file". The retry loop of the workflow does that.
- A revert that cannot be verified raises an error without the forensic capture
  (`sre_agent.py:185`), against "with full forensic context" (`sre_agent.py:65`).
- `workflow.py:8` says "Validates spec hash at every stage boundary". The code
  compares once, before code generation (`workflow.py:152`).
- `README.md:89` says "If the spec changes after lock, the entire pipeline
  resets." An edit during an attempt of the coder agent (`coder_agent.py:42`) or
  while a QA stage is awaited (`qa_agent.py:47`) goes unnoticed.
- `workflow.py:7` says "never silently gives up". With `max_code_retries = 0`
  the loop of `workflow.py:167` does not run, no file is implemented, no error is
  raised, and the workflow goes on to production.
- "Cost budget is checked before every inference call" (`coder_agent.py:33`),
  "Ensures no single feature exceeds budget limits" (`cost.py:43`), "Hard stop on
  budget exceeded" (`docs/ARCHITECTURE.md:273`). `LLMClient.complete` calls the
  model without a look at the tracker (`llm_client.py:104`), and nothing in the
  source calls `check_budget` on the tracker the calls are charged to.
- "Trigger human escalation when budget exceeded" (`cost.py:7`). Raised inside an
  agent, a `BudgetExceededError` is wrapped as a `TransientInfraError` before
  `tracked_activity` sees it (`base.py:99`).
- "the feature is NEVER promoted after a failed drill" (`sre_agent.py:227-228`).
  The result is read before the production phase is awaited
  (`workflow.py:238`, then line 78): a drill that fails in between, or after an
  earlier one has passed, does not stop it.
- "Verify blueprint hasn't been modified since locking" (`pipeline/models.py:167`
  of the newer package). Joined with commas and bars, `[]` and `[""]` and texts
  with a hidden separator hash the same (`models.py:174-178`).
- "Hard check: pipeline resets if spec hash drifts" (`state.py:231`).
  `validate_spec_hash` compares two stored hashes (`state.py:232`), never the
  content.
- "Severity levels map directly to pipeline actions" (`errors.py:7`; "should be
  retried by the orchestrator", line 61; "immediate escalation", line 243).
  `classify_error` tests for no `PipelineError` and answers "fatal" for retryable
  and critical ones (`temporal_helpers.py:169`). Nothing calls it on an agent's
  error.
- `classify_complexity` says "Higher complexity wins" (`complexity.py:63`), but
  more keywords win (line 91); only a draw goes to the higher bucket.
- The QA agent calls failed unit tests, typing and linting "retryable"
  (`qa_agent.py:35-37`); the documented `QABlockError` is a blocking error, and
  nothing retries QA.

**Bounds.** `MaxValue`, `MaxInFlight`, `MaxInvocations`, `MaxVersion`,
`MaxCharges`, `MaxStarts`, `MaxDeployments`, `MaxProtocols`, `MaxSurvived` and
`MaxOptions` cap what the program leaves unbounded. Each is
large enough for the cases the properties are about: a breaker that trips,
expires, trips again and is re-armed by two stragglers; coroutines that exhaust
their attempts with the breaker closed, open and half open; a second file
after a retried first; a hash that drifts before and after its check; both
agents charging past a limit, before the trip and again in a HALF_OPEN period. In
the workflow and the coder agent one edit of the blueprint is enough because a
hash only matches or does not; QA has one more, since the code can be built
from a later version than the first. Three agents overspend a
ledger together, and two of them go on after it. The contents of the factory are
a draft, a complete blueprint, and one edit of each kind the hashes treat
differently: another order, another value in each part, a separator hidden in a
name, one that wanders from the title to the description, and an empty name;
with two options a selection can change after the lock. Two keywords in each
bucket are enough for `classify_complexity`, since it only compares counts. A
clock unit stands for any length of time. `CHECK_DEADLOCK FALSE` is set for the
runs whose system ends: the workflow (three runs), the coder agent and the QA
agent have their result; a classification has its bucket (`specification`); in
the cost ledger all agents are stopped by their exceptions.

**Fairness.** `Tick` is weakly fair where time matters: time passes. A function
awaited by `retry_async`, an activity and an agent's calls are assumed to end,
in any of their ways: activities have a start-to-close timeout
(`temporal_helpers.py:45-52`) and the clients time out. The event loop wakes
sleepers. Nothing is assumed of the callers, of `reset()`, of edits or of
drills, nor of anything in the ledger, the cost tracker, the SRE agent, the
factory and the QA agent, about which only safety is stated (of the infrastructure
a revert protocol calls no timeout is known). `RejectionEnds` needs time alone.

## 5. What is proved

For every value of the constants that satisfies the modules' assumptions:

- **`RetryProofs`**, on the breaker with clients of any kind: the conjunction of
  `BreakerTypeOK`, `ClosedIffUnderThreshold` and `CooldownCountsQuiet` is
  inductive. The two action properties follow from it for one step.
  `BreakerLemmas` says once what each method returns; the rest never expands
  them.

  On `retry_async`: `RetriesBounded` alone is not inductive: nothing in it
  says why a retry was admitted. The missing part is `RetriesPaid`, `retried <=
  breaker.value`: each later attempt is preceded in the same step by a record.
  If the check then passes although the record reached the threshold, the
  breaker would have been observed right after a trip with no time left on it,
  which a timeout above zero excludes. Hence `TimeoutAssumption`.
  `RetryAccounting` needs that the coroutines are finite, for the number of
  sleepers. `TypeOK` holds the bounds of the loop: it needs that a coroutine
  which awaits or sleeps is in an attempt its configuration has.
  `PowersAssumption`, that the powers of the exponential base are natural
  numbers, is arithmetic: the prover knows nothing of `^`, and TLC evaluates it.
  `RetryClosedExactly` carries `ClosedIffUnderThreshold` over to the breaker
  that `retry_async` feeds.
- **`SpecHashProofs`**, on the coder agent: no invariant is inductive alone.
  `Within` says that an agent awaiting a call is in an attempt and a file there
  are, with no exception behind it; `Attempted` that the files before the
  current one are the last in the list and those of this attempt, and that the
  hash was intact when it began. `ReturnedEndsWithOneAttempt` follows at the last
  file, with the bound on what failed attempts left, one step per retry. In
  `InferenceAccounting` a retry pays one inference back and may charge the next
  in one step. Both hold for any number of attempts, none included.

  On the factory: `Locked` says what a lock leaves behind: the hash of what was
  sealed, and, of a lock that validated, a complete content in the last phase;
  and that each artifact carries the digest of what it was written for, or none.
  With the types it is inductive, `ReplaceBlueprint` and `LockDirectly` included.

  `AcceptedArtifacts` and `IntegrityComparesMeaning` rest on which contents have
  equal digests (`DigestMeaning`). For one
  direction: lists that are rearrangements of each other have the same set of
  rearrangements (`RearrangedFacts`), so sorting chooses the same one of it. For
  the other, sorting must return a rearrangement at all: `Before` is a strict
  total order, so the number of positions before a position is its place
  (`PlaceIsBijection`), and putting every name in its place is in order
  (`SortedIsRearranged`). The joined list of names without a comma then gives
  the sorted list back (`FlattenPlain`: the recursion of `FlattenSeq` has the
  solution one expects and no other, or there were a least position where two
  differ), unless it is the list of one empty name. The two texts need no sorting
  (`TwoParts`).

  On the two other classes: `ChecksInv` says whose digests the stored hashes are;
  `ChecksCompared` follows because the shared digest determines every field
  (`SharedDigestInjective`).
- **`FeatureWorkflowProofs`**: `PromotionGates` speaks of the end of the
  pipeline, so the induction needs `GatesPassed`, which says at each stage which
  gates are behind it: in code generation, that all files before the current one
  passed (no file with a limit of 0); from then on, that the hash was good when generation began. Together
  with `NoSilentFailure` and `ResultLedger` (which share `raised = retries`
  while the workflow runs) it is inductive. `Refinement` maps every step to a
  step of the contract or a stutter, without the invariant.
  `RetryBound` needs the count between code generation and production too
  (`RetriesCounted`), and that one more file may fail `limit - 1` more times.
- **`SREAgentProofs`**: `TypeOK` is inductive; with it, so is
  `EveryProtocolAccounted` (the monitors are finite). `ReadsInOrder` needs in
  addition that no anomaly was seen on a deployment later than the one in
  production, and `PromotionWithinTimes` the invariant `DrillsInTime`: a drill
  that measures its revert has measured its detection in time, and the result in
  the feature and the one the gate read are of such drills if they passed.
  `DecisionsDiffer` proves `DecisionsAgree` for any thresholds and readings. Of a
  list of thresholds both detectors take the first that is reached, so the proof
  needs the least element of a set of numbers (`LeastNumber`, by well-founded
  minimality) on both sides; the drill gates follow from `DrillsInTime` and from
  there being one result at most.
- **`CostBudgetProofs`**: `RefusedWhileCharged` needs `ClockTold`: the time a
  tripped breaker has left and the time its dimension has been quiet add up to the
  reset timeout. A charge at or over the limit sets both sides anew, whatever the
  breaker's state was; a tick moves both; looking at a breaker changes it to
  HALF_OPEN only with no time left. With the types and `BreakersMatchTotals` for
  which breakers are tripped this is inductive.
- **`CostLedgerProofs`**: `TripTellsTheTruth` is inductive with the types.
  `OvershootPaidFor` counts the stopped agents, which are finite, and rests on a
  charge over the limit stopping its agent in the same step. `BudgetsAgree` needs
  `SameCounts`: ledger and tracker have counted the same, a breaker of the tracker
  is tripped only from the limit on and always above it, and the ledger has
  raised for exactly the limits that are exceeded.
- **`QAAgentProofs`**: `ReturnedIsVerified` needs three parts: `Progress` (the
  stages passed are those before the one awaited), `HashBinds` (a spec hash is
  the hash of what the code was built from) and `JudgedRight` (past the start, the
  check of QA saw that version). `SeverityKept` needs that nothing leaves
  `BaseAgent.run` as an exceeded budget (`WrappedKinds`).

Left to TLC:

- liveness (`RejectionEnds`, `EveryInvocationEnds`, `AgentEnds`, and the fairness
  part of `ImplementsContract`), because the prover handles neither ENABLED nor
  leads-to from fairness;
- `classify_complexity` (`HighestFloorWins`): the fold over the buckets is
  evaluated by TLC for every combination of matches and flags in its bounds.

## 6. What is not modelled

- Placeholders: the bodies of QA stages, deployments, load tests, migrations,
  archival, human approval. They appear as activities that return or raise
  anything.
- Content: prompts, generated code, messages, logs, metrics. SHA-256 (in the
  factory its first 48 bits) is taken to be collision-free.
- Fractions: money, GPU minutes and thresholds are natural numbers; the only
  comparison made of them is with the limit.
- Temporal itself: replay, heartbeats, and its own retry policy.
- In the factory's package: `compute_spec_hash` and `FormalSpec.is_complete`, which nothing
  calls; the sums per category and agent of the cost ledger; the tables of
  timeouts and fault types, the severity score and the confidence, by which
  nothing decides.
- `classify_error` (`temporal_helpers.py:155`): nothing calls it on an error of an
  agent, and it keeps no state.
- Field ownership (`get_field_owner`, `validate_field_access`) and token estimates:
  never consulted by the control modelled here.
- The rest of `pipeline/state.py`: data classes no agent imports.
- `config.py` and `metrics.py`: constants, which are CONSTANTS of the modules, and
  counters that are written and never read.
- The contents of incident reports and forensic captures, and incident ids.
