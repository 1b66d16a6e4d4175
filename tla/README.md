# SentinelFlow in TLA+

A verification project for the SentinelFlow observability engine: TLA+ modules
translated from its Python source, TLC runs on small instances, and theorems that
TLAPS proves for every value of the constants. Paths such as
`src/engine/executor.py` are relative to the repository's root.

## 1. The system

SentinelFlow reads a list of *checks* from a YAML file. For each check it fetches a
metric, evaluates rules on it, and sends the alerts that the rules raise to handlers
(Slack). It runs the list once, or as a daemon every `interval_seconds`, in one
process on one asyncio event loop. Nothing is persisted: a restart begins with empty
state.

Because there is one event loop, a task runs alone until it awaits something that is
not ready. The hard behaviours all lie between two such awaits: other executions run,
timers fire, `wait_for` or the scheduler cancels the task.

### Components

| Component | State | Operations | What makes it correct |
|---|---|---|---|
| Check circuit breaker, `runtime/resilience.py:16-52` | state, failures, last_failure_time | `call` | counter and state agree; an open circuit refuses until the reset timeout, then is tried again, and only a trial closes it |
| Check resilience, `runtime/resilience.py:55-98` | semaphore, breaker; a dictionary by metric_id | `execute`, `for_check` | at most `max_inflight` executions; a hung execution blocks nobody for ever |
| Alert policy, `src/core/policies.py` | three dictionaries by fingerprint | `should_dispatch`, `purge_old_state` | one dispatch per window, none lost, nothing forgotten too early |
| Executor, `src/engine/executor.py` | global semaphore and all of the above | `execute_batch`, `_execute_single_check`, `startup`, `shutdown` | every check ends and leaves consistent traces, whatever times out or is cancelled |
| Execution history, `src/core/history.py` | a bounded deque per check | `add_result`, `get_recent` | agrees with the counters |
| Metrics, `observability/metrics.py` | counters, gauge, histograms | `inc_check`, `inflight_inc`, ... | counters and gauge add up |
| Scheduler, `src/engine/scheduler.py` | `next_run`, `_running` | `run_once`, `run_daemon` | one batch per slot, no drift, no overlap, stops when cancelled |
| Application, `src/main.py` | shutdown event, daemon task, servers | `async_main`, signal handler | serves only what was validated, ends on a signal, closes components after the last check |
| Readiness and admin server, `runtime/` | ready flag | `set_ready`, `set_not_ready`, probes | ready only while the daemon serves |
| Slack handler, `src/handlers/slack.py` | HTTP session, breaker | `dispatch`, `shutdown` | an alert is posted, or its failure is reported |
| Slack circuit breaker, `resilience/circuit_breaker.py` | as above | `allow_request`, `record_*` | as above |
| Retry decorator, `src/utils/retry.py` | attempt number | the wrapped call | bounded attempts, only for retryable errors |
| HTTP ingestor, `src/data/ingestors/http_api.py` | none | `fetch` | errors classified, value extracted or None |
| Evaluators, `src/core/evaluators/` | none | `evaluate` | an alert exactly when the rule is breached |
| Registry, `src/engine/registry.py` | classes by kind and name, instances by name | `register_*`, `get_*` | one instance per name for the program's life, of the kind it is used as |
| Configuration, `src/config/` | settings singleton | `load_config`, `get_settings`, `validate_required_integrations` | what a dispatch will need is there when the program starts |
| Analytics, `analytics/` | a window of values | `add_value` | outliers detected; unused by the program |
| Persistence, `persistence/` | an SQLite table | `get`, `set` | last write wins; unused by the program |
| HTTP API, `api/app.py` | an AlertPolicy of its own | read-only views | started by nothing |
| Tracing and logging | output only | | |

### Interactions

`async_main` loads the configuration, whose validation already makes the components'
instances, reads the settings and checks that they hold what the handlers require; it
starts tracing, the metrics server and the admin server. Then it runs `executor.startup`, sets readiness, and awaits `scheduler.run_once`,
or starts `scheduler.run_daemon` as a task and waits for the signal handler's event.
The scheduler awaits `executor.execute_batch`, which gathers one task per check. Each
task takes a global permit, obtains the `CheckResilience` of its metric_id, and under
`wait_for` takes one of its permits and passes its breaker; then it fetches, evaluates,
asks the `AlertPolicy` about every alert, gathers the dispatches of the handlers, and
records history and metrics. All checks share the policy, the history and the metrics;
checks with one metric_id share permits and breaker; all checks share one
`SlackHandler`, with its session and its own breaker. A signal leads to
`daemon_task.cancel()`, which cancels the gather and so every task of the batch.

### Hard behaviours

- executions that overlap on one breaker, and end in another order than they began;
- the check's timer, which may end an execution while it waits for its permit,
  fetches, or dispatches, and a `TimeoutError` of the ingestor's own that looks like it;
- two levels of semaphores, with a global permit held while the metric's is awaited;
- an alert's window that opens before its dispatches are known to succeed;
- an exception between two writes of `should_dispatch`;
- retries whose breaker is opened by another check's errors;
- batches that overrun their interval; signals at any moment;
- what was checked at the start and is used later: settings whose `.env` is edited, classes
  that are registered again under the name of an instance.

`PROJECT.json` lists each of these hazards at its line, with the properties that watch it.

## 2. The modules

    Lifecycle --(running, cancelling)--> Batch <--(implements)-- CheckExecutor
                                                                  |        |
                                               CheckResilience <--+        +--> AlertWindow
                                                     |     (implements)  (uses)    ^
                                                  Circuit <-- SlackHandler         | (implements)
                                                                              AlertPolicy
    Evaluators <--(extends)-- HttpIngestor <--(extends)-- Measurement
    Registry <--(extends)-- Startup

| Module | Models | Correspondence |
|---|---|---|
| `Circuit` | both circuit breakers, as operators on a value | `Refuses`/`Admit` are the entry of `call` (`allow_request`), `Succeed` and `Fail` its two branches (`record_success`, `record_failure`) |
| `CheckResilience` | one `CheckResilience` and the executions that share it | `Call`, `Acquire`: the semaphore, then the breaker; `Return`, `Raise`, `Cancel`: how the coroutine ends |
| `AlertWindow` | abstract promise of the policy: the open windows, the fingerprints that have repeated in them | no time, no dictionaries |
| `AlertPolicy` | the policy with clock and dictionaries | `Suppress`, `Break`, `Grant` are the three ends of `should_dispatch`; `Purge` is `purge_old_state` |
| `Batch` | abstract promise of `execute_batch` to whoever awaits it | `Start`, `End`, `Cancel` |
| `CheckExecutor` | `execute_batch` and `_execute_single_check` with everything they share | one action per stretch between two awaits; see below |
| `SlackHandler` | `dispatch` under the retry decorator, session and breaker | `Attempt` is one call up to its first await; `Succeeds`, `Errs`, `TimesOut`, `Cancel` are its ends |
| `Evaluators` | which rules the parser accepts, and when they alert | operators on a payload and a rule; the value of a rule is a sequence, marked when it was written as a list |
| `HttpIngestor` | one `fetch` under the retry decorator, in time | `Attempt` is one call up to its first await; `Headers`, `Body` and the errors end its two awaits; `Raise` is the decorator's decision |
| `Measurement` | the rules evaluated on the payload that was fetched | no state of its own: the executor awaits nothing in between |
| `Registry` | the classes by kind and name, the cache of instances by name | `Served` and `Obtained` are what the three `get_*` return and leave behind; `Register` is the three `register_*` |
| `Startup` | `async_main` up to readiness, `load_config`, the settings, and what dispatches and the shutdown make of both | one action per stretch of `async_main` between two inputs; an action per way to give up would only repeat the guards, so each stretch holds its own |
| `Lifecycle` | `async_main` from there on, `run_daemon`, signals, readiness, session | one action per stretch between two awaits of main and of the daemon |
| `CircuitProofs` | lemmas: what the operators of `Circuit` return | used by the proofs of all who hold a breaker |
| `CheckResilienceProofs`, `AlertPolicyProofs`, `MeasurementProofs`, `CheckExecutorProofs`, `LifecycleProofs`, `StartupProofs`, `SlackHandlerProofs` | theorems | section 5 |

`MC*` modules only give values to constants.

In `CheckExecutor` a check's task is *idle*, *queued* (global semaphore), *gated*
(semaphore of its metric), *fetching*, *deciding* (between two awaits, with alerts left)
or *sending* (the gather of the dispatches). While a task is deciding nobody else runs
(`LoopFree`); this splits one stretch of code that handles several alerts into one step
per alert without adding an interleaving. Both semaphores serve first come, first
served, as asyncio's do; since tasks are created in the order of the list, the queue's
order is the checks' order.

What the data are abstracted to:

- Time in a breaker is the flag `cooled`: the code asks nothing else of
  `last_failure_time`. `failures` saturates at the threshold, above which no comparison
  tells counts apart. The two breakers differ in `>` against `>=`, in counting failures
  while half-open, and in stamping `last_failure_time` while closed; none of it changes an
  answer that the flag abstracts.
- A cancelled execution leaves its breaker alone: `CancelledError` is not an `Exception`.
- A history result is a success or a failure; histograms, timestamps and alert counters,
  which nothing reads, are left out.
- Payloads and rules are, in `CheckExecutor`, the set of alert lists that evaluating may
  yield. `Measurement` shows where they come from.
- In `HttpIngestor` what `_extract_value` finds is a number (NaN among them, which `float`
  takes from a string and `json` from a literal), something `float` refuses, an integer
  beyond the range of floats, or nothing. Integers stand for the other floats: the rules only
  compare them, and floats without NaN are ordered as integers are. The bounds of the backoffs
  add up by recursive functions of the attempts. Statuses are good or not, content types JSON or
  not. `fetch`'s own checks of its configuration always succeed, because the parser has made
  them before; the parser also forbids `timeout_seconds`, so the session's timeout is always
  the default of 10 seconds.
- The check of the frozen `AlertEvent` is modelled by what it does: the assignment to
  `event.message` raises.
- aiohttp's total timeout is a plain `TimeoutError`, which Python 3.11 and later identify
  with `asyncio.TimeoutError` (`pyproject.toml` requires 3.11).
- In `Lifecycle` a sleeping daemon wakes on time. A signal that comes before the handlers
  are registered ends the process by default and is left out, as is the maintenance hook that
  `Executor` does not have. `Configure` stands for all of `Startup`.
- In `Startup` a configuration is the names of a check's components; everything else that the
  schema may refuse is the input *invalid*. A webhook is unset, refused (empty, plain http) or
  one of two https URLs, in the environment and in `.env`, of which the former wins. The key of
  a handler is that of the webhook, that of another setting, or none of a setting. What a
  registered handler of another class does is taken to be what `SlackHandler` does. An instance
  is known by its name and class.

Operators named after a fault (`RefusesForever`, `JoinAtOnce`, ...; their comments begin
with "Fault:") belong to no specification. Put in the place of the definition that follows
them, each makes a property fail; `PROJECT.json` pairs them under "mutants". That shows
that the property is not satisfied by the model's shape alone.

## 3. The runs that pass

| Run | Instance | What it shows |
|---|---|---|
| `resilience` | 4 callers, 2 permits, threshold 2 | `ClosedIffBelowThreshold`: state and counter agree in whatever order overlapping calls end. `OpenLeavesPermit`: an open circuit has a permit to spare, so that the trial waits behind no hung execution. `OpenIsEventuallyTried`: it does not stay open for ever, although late failures keep pushing `last_failure_time` back |
| `policy` | 2 fingerprints, windows 2 and 3, purge ages 0, 1 and 2, time up to 7, counts up to 2 | `DispatchSpacing`: dispatches keep their window's distance, unless a purge was told to forget the earlier one. `ImplementsAlertWindow`: every answer is the one that the windows call for which granted dispatches opened |
| `executor_shared` | 3 checks of one metric_id with different settings, 2 batches, history of 3, timeouts of both kinds, cancellation | `PipelinesAccounted`, `HistoryAgreesWithTotals`: gauge, counters and history agree. `OwnerIsFirst`: the shared settings are those of the first check of the list. `NoConcurrentDuplicate`: no alert is sent twice at once. `ImplementsCheckResilience`: each metric's share of the executor is a `CheckResilience` |
| `executor_mixed` | 2 checks of one metric_id with 1 permit, 1 check of its own, global limit 2, 2 batches, fairness | `EveryCheckEnds`, although fetches and dispatches may hang. `ImplementsBatch`. `CircuitClosesThroughTrial`: a check with a metric_id of its own never meets the stale success below, whatever `max_inflight` is |
| `lifecycle` | 2 checks, interval 2, time up to 8, both modes, a signal at any time, fairness | `SlotsKept`, `NoBatchBeforeItsSlot`: drift control. `ReadyMeansServing`: while the probe says ready the daemon's task lives and is not being cancelled. `ClosedAfterLastCheck`: components outlive the checks. `ImplementsBatch`: no overlap, nothing starts after the cancellation. `SignalEndsProgram` |
| `measurement` | one fetch of 3 attempts, fifths of a second, client timeout 4 s, check timeout 15 s, numbers around a bound and NaN, every shape of rule | `FetchIsBounded`: a server that stalls anywhere holds a fetch no longer than its timeouts and backoffs. `FailureOutlastsBackoffs`: a network failure is reported only after all attempts and the backoffs between them. `NothingPassesUnmeasured`: no threshold rule is quiet for want of data. `ComplementsMeet`: of `<` and `>=` (`<=` and `>`) exactly one alerts on a number, also on the bound, both on a missing value, and neither where NaN or a list leaves nothing to compare |
| `slack` | 3 alerts, one without webhook, threshold 2, 3 attempts, fairness | `SilentDropNeedsOutage`: an alert is dropped in silence only with `failure_threshold` network errors on record since the last success. `DispatchEnds` |
| `startup` | any configuration file, 4 values in the environment and in `.env`, which is edited at any time, ports that are taken, 2 registrations of shipped or other classes under any name, before the start or while the program runs | `StartedCanDispatch`: a handler configured with the webhook's key always finds the URL that was checked at the start. `ServesItsKind`: although the cache is shared no component is of the wrong kind. `ConfiguredClassesStay`: the validation of the configuration fixes the instances, later registrations change nothing. `SessionsAreClosed`: the shutdown closes the very instance that a dispatch used. `RefusedStartLeavesNothing`: no server is up before everything is checked |

Every run also checks the module's `TypeOK`, except `executor_mixed`, which shares its
module with `executor_shared`.

Why the bounds are enough. The interesting cases of a breaker need an execution older
than its opening, one that opens it, one that waits and one that is refused: four callers,
two permits. A window's cases need a suppressed alert, a purge and a second window: seven
units of time, and two fingerprints, because `purge_old_state` sweeps all of them at once. Its
ages lie inside both windows, at the end of one, and between them; 0 and 1 are those
of the repository's tests (`tests/unit/test_alert_policy.py:125`,
`tests/test_alert_policy.py:44`).
Three checks are the least with which one of a metric waits behind another while a third
waits behind both; two batches are the least that carries state over. Slots are skipped or
doubled only by an overrun of several intervals: four slots. In `slack` one dispatch's
attempts suffice to open the breaker under another. In `measurement` the client timeout is
shortened to 4 seconds, so that the check's timeout cuts off the third attempt only in the
slowest fetches; the unit makes the jitter of the two backoffs one and two units. `ClientTimeout` and `LongWindows` say
whether ingestors may raise a `TimeoutError` of their own, and whether a window outlives
the check's timeout, as the defaults (3600 and 15 seconds) make sure: with a shorter window
the same alert can be sent twice at once. It rests as well on nothing in the program
calling `purge_old_state`. `MaxTime` bounds the clock (`AlertPolicy`,
`Lifecycle`), `MaxBatches` the batches, `MaxCount` the suppressed alerts of the policy,
`MaxRegistrations` the registrations; the theorems hold for any of them. The other counters
need no bound.

### Fairness

- `CheckResilience`: time passes (the reset timeout), `release()` hands its permit to some
  waiter, the daemon calls again, and `wait_for` ends every execution
  (`src/engine/executor.py:273`). The coroutine itself may hang, and no particular waiter
  is assumed to be served.
- `CheckExecutor`: the loop runs every ready task, semaphores are first come first served,
  and `wait_for`'s timer fires. Fetches and dispatches may hang. Weak fairness is enough:
  each of these steps stays enabled until taken, but for the stretches in which another
  task holds the loop, which are themselves finite and fair.
- `SlackHandler`: the session's total timeout and the backoff's timer.
- `Lifecycle`: the loop, and the end of each check of a batch, which is what `Batch`
  promises and `executor_mixed` shows of `CheckExecutor`. No signal is assumed, nor that
  time passes.

## 4. Where the code and its documents disagree

Each of these runs checks one statement of the repository and finds a counterexample.

| Run | Statement | What happens |
|---|---|---|
| `resilience_stale_success` | an open circuit closes through a trial after the reset timeout (`tests/unit/test_circuit_breaker.py:36`) | the success of an execution older than the failures closes it at once |
| `policy_count` | the dispatch after a window reports how many alerts it suppressed (`src/core/policies.py:49`) | `AlertEvent` is frozen: the assignment raises, after the count was popped and before the dispatch was stamped; the check fails |
| `executor_refusal` | a refused check is counted as skipped (`src/engine/executor.py:253-255`) | the refusal is raised before `run_pipeline`, whose handler would count it |
| `executor_suppression` | duplicates are suppressed (`README.md:29`) | so is the next alert when the first was never delivered |

Also met while modelling, and visible in the modules without a run of their own:
`cooldown_seconds` is never read (`src/core/policies.py:28`); `purge_old_state` leaves the
counts behind, and nothing calls it; a check that times out while its pipeline runs is
counted both as *cancelled* and as *timeout* (`CheckExecutor!Timeout`), and a `TimeoutError`
of the ingestor as *failed* and *timeout* (`FetchTimesOut`); the Slack session's total
timeout is neither retried nor recorded (`SlackHandler!TimesOut`); in `run_once` mode
readiness is never withdrawn, and a signal does not shorten the batch (`Lifecycle`); with its
breaker open `dispatch` returns normally, although `src/interfaces/handler.py:18` asks it to
raise on failure (`SlackHandler!Refused`), and the executor counts the alert as
dispatched (`src/engine/executor.py:219`). A timeout is a failure for the history but not for
the circuit breaker, which `CancelledError` passes by: a check that always times out never
opens its circuit (`README.md:103`). A freshness rule, which is to alert on stale
data (`README.md:91`, `src/core/evaluators/freshness.py:9`), never alerts on what `fetch`
returns, however old the data are: the payload is dated when it has arrived
(`src/data/ingestors/http_api.py:132`) and evaluated at once, so its age is next to nothing
(`HttpIngestor!Return`, `Measurement!Alerts`). With the shipped ingestor the rule is idle; no
property is stated of it, as none could fail. The parser accepts a list with an
operator other than *between*; such a rule alerts on a missing value only, although
`src/core/evaluators/thresholds.py:43` says that pydantic guards it (`Evaluators!Breaches`).
NaN breaches no rule. A list as top-level JSON document, which `_extract_value` can walk
through, is refused by `MetricPayload` (`HttpIngestor!BadBody`). Any status of 400 or above
is retried, those that no retry can mend included.

About the start (`Startup`): the integrations are checked by the handlers' types, not by
the keys they are configured with, so with a `webhook_url_env_key` that is no setting the
program starts and every dispatch raises `MISSING_WEBHOOK`, although `SETUP.md:231` promises
`CONFIGURATION_INCOMPLETE` for a missing variable of a configured handler; a key that names
another setting posts to its value (`Resolved`). That error code is lost besides:
`DispatchError` overwrites it (`src/utils/exceptions.py`). An empty `SLACK_WEBHOOK_URL`, which
`SETUP.md:73` offers as a way to skip it, is refused by pydantic, and so are the empty
`SMTP_PORT` and `DEFAULT_SITE_URL` of `.env.example`; the error is not caught (`ReadSettings`).
`load_config` promises `ConfigError` but lets others out (`LoadConfig`). `METRICS_PORT` and
`ADMIN_PORT` of the environment, which `SETUP.md:234` tells one to change, are read by nothing:
the ports are those of the configuration. `validate_registry_types` never refuses anything,
because the literals of the schema admit only names that are registered, and for the same
reason no other registered component can be configured. A class registered under a name that
has an instance is never used (`Registry!Register`).

## 5. What is proved

`CheckResilienceProofs`, for any finite set of callers, any `max_inflight` and
`failure_threshold` (`CheckResilienceAssumption`):

- `TypeCorrect`: `Spec => []TypeOK`. The lemmas of `CircuitProofs` on `Admit`, `Fail` and
  `CooledDown` say what the breaker's operators return; the theorem has one step per action.
- `CounterAgreesWithState`: `Spec => []ClosedIffBelowThreshold`, inductive given `TypeOK`.
- `TrialFindsPermit`: `Spec => []OpenLeavesPermit`. Not inductive by itself: one needs that
  permits are never exceeded (the failure that opens the circuit leaves one free) and that a
  disabled breaker stays fresh (else it could be open and admit). `IInv` adds both. The only
  actions that could use the last permit, `Call` and `Acquire`, make an open circuit half-open.
- `SerialClosesThroughTrial`: with `max_inflight = 1`, `Spec => ClosesThroughTrial`. From
  `IInv`: a permit to spare out of one means that nothing is in flight, so no stale success
  exists. The run `resilience_stale_success` shows that the assumption is needed.

`AlertPolicyProofs`, for any fingerprints, any windows and any ages that purges are given
(`AlertPolicyAssumption`: natural numbers, not related to each other, as neither the parser
nor `purge_old_state` relates them):

- `TypeCorrect`.
- `GrantsAreSpaced`: `Spec => DispatchSpacing`. The stamps alone do not tell when a dispatch was
  granted, since purges delete them. Two history variables do: `granted`, and `forgotten`, the
  fingerprints whose last grant some purge since was told to forget. By the invariant
  `StampsTellGrants` the dictionary holds the last grant exactly for those not forgotten, so a purge
  deletes what it was told to and no more; `ForgottenAreOld` adds that what is forgotten
  is older than one of the ages.
- `SparedWindowsAreKept`: if no window exceeds an age by more than a unit, dispatches are spaced
  without exception. The condition is an assumption of this theorem only. It holds of the
  defaults, an hour and a day, and not of the tests' purges with ages 0 and 1.
- `Refinement`: `Spec => ImplementsAlertWindow`, where the windows are those which grants have
  opened, whatever the dictionaries say (`WindowsAgree`). A step of the policy is a step of
  `AlertWindow` or a stutter; a tick, or a purge told to forget them, closes a set of windows.

`MeasurementProofs`, for any numbers, rules, timeouts and number of attempts
(`HttpIngestorAssumption`, `MeasurementAssumption`, which say among the rest that a number other
than NaN is an integer, and the value of a rule whose operator takes one is a number):

- `TypeCorrect`: in particular no attempt beyond `max_attempts`. It needs that a fetch in its
  backoff has an attempt left.
- `QuietIsMeasured`: `Spec => []NothingPassesUnmeasured`. `IInv` adds what a body is read after
  (`ReadsGoodResponse`) and what a payload rests on (`PayloadIsEvidence`). One lemma for each
  way an await ends (`AttemptOutcome`, `FailureOutcome`, `ReturnOutcome`) shows that it
  preserves `IInv`; the step theorem only sorts the actions among them.
- `NeverGivesUpEarly`: `Spec => []FailureOutlastsBackoffs`, and `NeverHeldLonger`:
  `Spec => []FetchIsBounded`. Neither is inductive: a state says nothing of how long the attempts
  before lasted. `Timeline` does, for every place a fetch can be in: an attempt has the backoffs
  before it behind it and a deadline that timeouts and backoffs bound, and a backoff counts
  already. One lemma for each step that moves the deadline (`AttemptInTime`, `RaiseInTime`). The
  bounds are recursive functions of the number of attempts, so their lemmas (`SumIsDefined`,
  `SumIsInt`) need induction over the natural numbers; it is done once for both
  bounds, on the set of counterexamples, which has a least element (`WFMin` of the library): the
  library's induction theorems take an operator, which the provers cannot instantiate.
- `ComplementsAgree`: `Spec => []ComplementsMeet`. What a payload carries is one of the
  numbers or nothing (`PayloadIsEvidence`), and integers are totally ordered; every comparison
  with NaN is false, and so is every operator but *between* of a list.

`CheckExecutorProofs`, for any list of checks, any settings, limits and alerts and any number of
batches (`CheckExecutorAssumption`). `IInv` adds to the type what the following need:

- `NoPipelineLost`: `Spec => []PipelinesAccounted`. Inductive given `TypeOK`, but a statement
  about cardinalities: the lemmas `Joins`, `Leaves` and `Stays` say what a task that moves does to
  the set of the pipelines of each metric, `EndsAccounted` that however it ends exactly one
  outcome is counted as the gauge goes down, and `CancelBatchOK` that the cancellation counts as
  many as it takes away.
- `FirstOwns`: `Spec => []OwnerIsFirst`. A check that enters sets the owner only while all checks
  are still queued, because whoever has left the queue in this batch or an earlier one has set it
  (`Owners`).
- `NeverTwiceAtOnce`: `LongWindows` implies `Spec => []NoConcurrentDuplicate`. What is being sent
  is in an open window (`SendsInWindow`), so that nobody is granted it again. The assumption is
  needed: it is what `dedupe_window_seconds` against `timeout_seconds` makes sure by default.
- `SharesAreCheckResilience`: `Spec => ImplementsCheckResilience`, the whole refinement. With
  `FirstOwns` the settings of the abstract object are those the executor uses (`FirstIsLeast`);
  `SharedEntry`, `SharedEnds` and `SharedCancel` translate the operators of `CheckResilience` into
  the executor's state, and `SharedStep` matches every step of a task with one of its steps or
  none. So the invariants proved in `CheckResilienceProofs` hold of each metric's share of
  any executor.
- `UniqueClosesThroughTrial`: `Spec => CircuitClosesThroughTrial`, for any `max_inflight`. Two more
  invariants: a metric_id of one check has no pipeline in flight while its circuit is open (`Solo`),
  and where circuit breakers are disabled none is ever touched (`Untouched`).
- `HistoryTellsTotals`: `Spec => []HistoryAgreesWithTotals`. Inductive given the types, but about the
  number of successes in a sequence. `KeptLength` says how long a deque is after `add_result`, and
  that it is the old one with the results appended unless it overflows; `OneMoreSuccess` and
  `NoMoreSuccess` what appending a result does to the set of its successes; so `TellsOn`: a history
  that tells of some outcomes tells of one more. `EachHistoryTells` restates the property per metric,
  and `TotalsGrow` ties the statuses an end counts to the results it records (`Matches`), one or two.
- `TrialsFindPermits`: `OpenLeavesPermit` of every metric's share, by the invariant `PermitsKept`. A
  pipeline starts only with a permit in hand and then the circuit is not open; it opens only as a
  pipeline ends, which frees one; `Untouched` excludes a disabled circuit that is open.
- `OnlyRefusalsAreUncounted`: every step that ends a check uncounted while its batch goes on is a
  refusal by an open circuit. This is the exact extent of what `executor_refusal` finds
  (section 4). Hence `CountedWithoutBreakers`: `RefusalIsCounted` holds of every list of checks none
  of which enables its circuit breaker.
- `BatchesInOrder`: every step is a step of `Batch` or a stutter, which is `ImplementsBatch`
  without its fairness.
- `TypeCorrect`: a breaker that is in use fits the threshold of its owner, which never changes.

`LifecycleProofs`, for any interval, any checks and any `MaxTime` (`LifecycleAssumption`):

- `EverySlotOnce`: `Spec => []SlotsKept`, and `NeverEarly`: `Spec => NoBatchBeforeItsSlot`. `Slots`
  says that `next_run` is the birth of the daemon plus one interval per batch started, and that
  a sleeping daemon is not late; drift would break the first, overruns the second.
- `ReadyIsTrue` and `ClosedLast`: `Control` lists where main and the daemon's task can be together,
  and what the flags, the session and the batch then are.
- `BatchesInOrder`: the step simulation of `Batch` again. The two together say that what the
  scheduler relies on is what the executor does.

`StartupProofs`, for any plugins and classes beside the shipped ones, any webhooks and number of
registrations (`RegistryAssumption`, `StartupAssumption`):

- `CheckedIsFound`, `RefusedIsUnseen`: with `Checked`, what has been checked by whoever has come how far.
- `KindsAgree`, `InstancesStay`: with `WellRegistered` (a class is registered as its kind only, and no
  shipped name is ever without a class) and `Instantiated` (before the validation there is no
  instance, after it each configured component has one of its kind). The lemmas
  `ObtainedKeeps` and `ValidatedKeeps` say that neither replaces an instance.
- `NothingLeftOpen`: what is open is the session of the one instance of the one handler
  (`OneSession`), which is the one the shutdown asks the registry for.

`SlackHandlerProofs`, for any alerts, attempts and threshold (`SlackHandlerAssumption`):

- `SilenceMeansOutage`: `Spec => []SilentDropNeedsOutage`. The breaker counts no failure that is not
  on record, and one that is not closed has seen `failure_threshold` of them (`ErrorsOnRecord`).
  `AttemptsCounted` ties each alert's attempts to where its dispatch is.

Every module has its `TypeCorrect`, and every invariant and action property of a passing run is
stated by a theorem. Only model-checked is liveness, for which the prover has no rules (fairness and
`ENABLED`): `OpenIsEventuallyTried`, `EveryCheckEnds`, `DispatchEnds`, `SignalEndsProgram`, and the
fairness part of both `ImplementsBatch`, whose steps are proved.

## 6. What is not modelled

- Of the configuration, the types and ranges of single fields: pydantic's. `CheckExecutor`
  and the others take the configuration as valid.
- Of the metrics, histograms, timestamps, the counters of alerts and of HTTP requests: nothing
  reads them back, and they would multiply the states of `CheckExecutor`.
- Analytics (`analytics/`), persistence (`persistence/`) and the HTTP API (`api/`): nothing in
  the program calls or starts them; there is no use of theirs to be faithful to. The store is
  two SQL statements and the detector one formula, on floats; the API reads a policy object
  that nobody writes.
- Lookups that code around the program makes in the registry before the configuration is loaded;
  `Startup` lets it register classes only.
- Tracing, logging, the servers' transport and pydantic's schema validation: output or
  library code, without state that the engine reads back.

## 7. Plan

1. Done: `Circuit`, `CheckResilience`, `AlertWindow`, `AlertPolicy`, `Batch`,
   `CheckExecutor`, `SlackHandler`, `Lifecycle`, and the proofs of the two shared objects.
2. Done: `Evaluators`, `HttpIngestor`, `Measurement`, and the proofs of the latter.
3. Done: `Registry` and `Startup`.
4. Done: the proofs of `CheckExecutor`, `Lifecycle`, `Startup` and `SlackHandler`, with them
   every safety property of the runs.
5. Left: a theorem on what loses an alert (`OnlyDuplicatesAreSuppressed`), as there is one
   on what leaves a check uncounted; `analytics/` as pure operators, once the program calls it.
