--------------------------- MODULE CheckExecutor ---------------------------
(***************************************************************************)
(* The Executor of src/engine/executor.py running batches of checks, with  *)
(* the objects its tasks share: the global semaphore, one CheckResilience  *)
(* per metric_id (runtime/resilience.py), the AlertPolicy                  *)
(* (src/core/policies.py), the ExecutionHistory (src/core/history.py) and  *)
(* the counters of observability/metrics.py.                               *)
(*                                                                         *)
(* One task per check of the list, all on one event loop: a task runs      *)
(* until it awaits something that is not ready, so a step is what a task   *)
(* does between two such awaits.  They are the two semaphores, the fetch   *)
(* and the gather of the dispatches.  The locks of the breaker, the        *)
(* history and the ResilienceManager guard bodies without an await: they   *)
(* are never contended and suspend nobody.                                 *)
(*                                                                         *)
(* External: asyncio's semaphores, first come first served; wait_for, which *)
(* may end an execution wherever it waits; ingestors, evaluators and       *)
(* handlers, known by their outcomes.                                      *)
(***************************************************************************)
EXTENDS Circuit, Integers, FiniteSets, Sequences

CONSTANTS
  N,               \* the number of checks in AppConfig.checks
  Metric,          \* the metric_ids
  MetricOf,        \* metric_id of each check
  Resilience,      \* resilience section of each check
  Alerts,          \* the lists of alerts that evaluating a payload may yield
  Fingerprint,     \* metric_id:evaluator_type:severity, the names of alerts
  Limit,           \* concurrency_limit
  HistorySize,     \* max_size of the ExecutionHistory
  MaxBatches,      \* bound on the batches executed
  ClientTimeout,   \* the ingestor's own client may raise TimeoutError
  LongWindows      \* dedupe_window_seconds exceeds timeout_seconds

Check == 1..N

ASSUME CheckExecutorAssumption ==
  /\ N \in Nat \ {0}
  /\ MetricOf \in [Check -> Metric]
  /\ Resilience \in [Check -> [max_inflight      : Nat \ {0},
                               enabled           : BOOLEAN,
                               failure_threshold : Nat \ {0}]]
  /\ \A c \in Check : Alerts[c] \subseteq Seq(Fingerprint)
  /\ Limit \in Nat \ {0}
  /\ HistorySize \in Nat \ {0}
  /\ MaxBatches \in Nat
  /\ ClientTimeout \in BOOLEAN
  /\ LongWindows \in BOOLEAN

\* The label "status" of sentinelflow_checks_total.
Status == {"started", "passed", "alerted", "failed", "cancelled", "timeout", "skipped"}

VARIABLES
  pc,            \* where each check's task is
  todo,          \* valid_events still to be dispatched, the current one first
  owner,         \* the check whose settings for_check() captured; 0 if none yet
  breaker,       \* circuit_breaker of each metric's CheckResilience
  open,          \* AlertPolicy: fingerprints inside their dedupe window
  repeating,     \* AlertPolicy: fingerprints with suppressed alerts to report
  delivered,     \* history: open windows whose alert reached some handler
  checks_total,  \* sentinelflow_checks_total
  inflight,      \* sentinelflow_inflight_requests
  history,       \* recent results of each metric: TRUE is a success
  batches,       \* batches started
  stopped        \* the scheduler's task has been cancelled

vars == <<pc, todo, owner, breaker, open, repeating, delivered,
          checks_total, inflight, history, batches, stopped>>

\* AlertWindow is the part of AlertPolicy the executor sees.
Policy == INSTANCE AlertWindow

TypeOK ==
  /\ pc \in [Check -> {"idle", "queued", "gated", "fetching", "deciding", "sending"}]
  /\ todo \in [Check -> Seq(Fingerprint)]
  /\ owner \in [Metric -> 0..N]
  /\ breaker \in [Metric -> [state : CircuitState, failures : Nat, cooled : BOOLEAN]]
  /\ \A m \in Metric :
       IF owner[m] = 0 THEN breaker[m] = NewBreaker
       ELSE breaker[m] \in Breaker(Resilience[owner[m]].failure_threshold)
  /\ Policy!TypeOK
  /\ delivered \subseteq open
  /\ checks_total \in [Metric -> [Status -> Nat]]
  /\ inflight \in [Metric -> Nat]
  /\ history \in [Metric -> Seq(BOOLEAN)]
  /\ batches \in 0..MaxBatches
  /\ stopped \in BOOLEAN

ChecksOf(m) == {c \in Check : MetricOf[c] = m}
Running == {c \in Check : pc[c] \in {"fetching", "deciding", "sending"}}
Gated == {c \in Check : pc[c] = "gated"}
Admitted == Gated \cup Running

Init ==
  /\ pc = [c \in Check |-> "idle"]
  /\ todo = [c \in Check |-> <<>>]
  /\ owner = [m \in Metric |-> 0]
  /\ breaker = [m \in Metric |-> NewBreaker]
  /\ Policy!Init
  /\ delivered = {}
  /\ checks_total = [m \in Metric |-> [s \in Status |-> 0]]
  /\ inflight = [m \in Metric |-> 0]
  /\ history = [m \in Metric |-> <<>>]
  /\ batches = 0
  /\ stopped = FALSE

\* A task between two awaits holds the event loop: nothing else happens.
LoopFree == \A c \in Check : pc[c] # "deciding"

-----------------------------------------------------------------------------
(***************************************************************************)
(* What a task does to the shared objects.                                 *)
(***************************************************************************)

\* inc_check, once for each of the statuses.
Counted(m, statuses) ==
  [checks_total EXCEPT ![m] =
     [s \in Status |-> @[s] + IF s \in statuses THEN 1 ELSE 0]]

\* Fault: of several results only the last is kept.
RememberedLast(m, results) ==
  [history EXCEPT ![m] = IF Len(@) = HistorySize
                           THEN Append(Tail(@), results[Len(results)])
                           ELSE Append(@, results[Len(results)])]

\* history.add_result, for each of the results: a deque of HistorySize.
Remembered(m, results) ==
  LET all  == history[m] \o results
      over == Len(all) - HistorySize
  IN  [history EXCEPT ![m] = IF over > 0 THEN SubSeq(all, over + 1, Len(all)) ELSE all]

\* What circuit_breaker.call does when the pipeline returns, and when it raises.
AfterReturn(m) ==
  IF Resilience[owner[m]].enabled THEN Succeed(breaker[m]) ELSE breaker[m]
AfterRaise(m) ==
  IF Resilience[owner[m]].enabled
    THEN Fail(breaker[m], Resilience[owner[m]].failure_threshold)
    ELSE breaker[m]

\* Fault: the pipeline leaves the gauge only when it ends by itself.
EndsLeakingGauge(c, statuses, results, b) ==
  LET m == MetricOf[c] IN
  /\ pc' = [pc EXCEPT ![c] = "idle"]
  /\ todo' = [todo EXCEPT ![c] = <<>>]
  /\ breaker' = [breaker EXCEPT ![m] = b]
  /\ checks_total' = Counted(m, statuses)
  /\ history' = Remembered(m, results)
  /\ inflight' =
       [inflight EXCEPT ![m] = @ - IF c \in Running /\ "cancelled" \notin statuses THEN 1 ELSE 0]

\* The execution of check c ends: its permits are released, its pipeline, if it
\* was running, leaves the gauge, and it leaves these traces.
Ends(c, statuses, results, b) ==
  LET m == MetricOf[c] IN
  /\ pc' = [pc EXCEPT ![c] = "idle"]
  /\ todo' = [todo EXCEPT ![c] = <<>>]
  /\ breaker' = [breaker EXCEPT ![m] = b]
  /\ checks_total' = Counted(m, statuses)
  /\ history' = Remembered(m, results)
  /\ inflight' = [inflight EXCEPT ![m] = @ - IF c \in Running THEN 1 ELSE 0]

\* Fault: an open circuit refuses nobody.
StartsRegardless(c, b) ==
  LET m == MetricOf[c] IN
  /\ pc' = [pc EXCEPT ![c] = "fetching"]
  /\ UNCHANGED breaker
  /\ checks_total' = Counted(m, {"started"})
  /\ inflight' = [inflight EXCEPT ![m] = @ + 1]

\* CheckResilience.execute with a permit in hand: the circuit admits the
\* pipeline, which counts itself started and awaits its fetch, or refuses it.
\* The refusal is raised outside run_pipeline and leaves no trace.
Starts(c, b) ==
  LET m == MetricOf[c]
      o == owner'[m] IN
  IF Resilience[o].enabled /\ Refuses(b)
    THEN /\ pc' = [pc EXCEPT ![c] = "idle"]
         /\ UNCHANGED <<breaker, checks_total, inflight>>
    ELSE /\ pc' = [pc EXCEPT ![c] = "fetching"]
         /\ breaker' = [breaker EXCEPT ![m] = IF Resilience[o].enabled THEN Admit(b) ELSE b]
         /\ checks_total' = Counted(m, {"started"})
         /\ inflight' = [inflight EXCEPT ![m] = @ + 1]

-----------------------------------------------------------------------------
\* Fault: the scheduler does not wait for the batch before.
StartBatchUnawaited ==
  /\ ~stopped
  /\ batches < MaxBatches
  /\ LoopFree
  /\ pc' = [c \in Check |-> IF pc[c] = "idle" THEN "queued" ELSE pc[c]]
  /\ batches' = batches + 1
  /\ UNCHANGED <<todo, owner, breaker, open, repeating, delivered,
                 checks_total, inflight, history, stopped>>

\* execute_batch: one task per check of the list.
StartBatch ==
  /\ ~stopped
  /\ batches < MaxBatches
  /\ \A c \in Check : pc[c] = "idle"
  /\ pc' = [c \in Check |-> "queued"]
  /\ batches' = batches + 1
  /\ UNCHANGED <<todo, owner, breaker, open, repeating, delivered,
                 checks_total, inflight, history, stopped>>

\* A permit of the CheckResilience of metric m is free.
PermitFree(m, o) ==
  Cardinality(Running \cap ChecksOf(m)) < Resilience[o].max_inflight

\* Fault: every check brings its own settings to the shared object.
EnterReconfiguring(c) ==
  LET m == MetricOf[c] IN
  /\ LoopFree
  /\ pc[c] = "queued"
  /\ \A d \in Check : d < c => pc[d] # "queued"
  /\ Cardinality(Admitted) < Limit
  /\ owner' = [owner EXCEPT ![m] = c]
  /\ IF PermitFree(m, owner'[m]) /\ Gated \cap ChecksOf(m) = {}
       THEN Starts(c, breaker[m])
       ELSE /\ pc' = [pc EXCEPT ![c] = "gated"]
            /\ UNCHANGED <<breaker, checks_total, inflight>>
  /\ UNCHANGED <<todo, open, repeating, delivered, history, batches, stopped>>

\* The global semaphore lets the first task of its queue in.  for_check makes the
\* metric's CheckResilience if there is none, from this check's settings; then
\* its semaphore is acquired at once, unless it is exhausted or others wait.
Enter(c) ==
  LET m == MetricOf[c] IN
  /\ LoopFree
  /\ pc[c] = "queued"
  /\ \A d \in Check : d < c => pc[d] # "queued"
  /\ Cardinality(Admitted) < Limit
  /\ owner' = [owner EXCEPT ![m] = IF @ = 0 THEN c ELSE @]
  /\ IF PermitFree(m, owner'[m]) /\ Gated \cap ChecksOf(m) = {}
       THEN Starts(c, breaker[m])
       ELSE /\ pc' = [pc EXCEPT ![c] = "gated"]
            /\ UNCHANGED <<breaker, checks_total, inflight>>
  /\ UNCHANGED <<todo, open, repeating, delivered, history, batches, stopped>>

\* The semaphore of the CheckResilience lets the first task of its queue in.
PassGate(c) ==
  LET m == MetricOf[c] IN
  /\ LoopFree
  /\ pc[c] = "gated"
  /\ \A d \in Gated \cap ChecksOf(m) : c =< d
  /\ PermitFree(m, owner[m])
  /\ UNCHANGED owner
  /\ Starts(c, breaker[m])
  /\ UNCHANGED <<todo, open, repeating, delivered, history, batches, stopped>>

\* The fetch returns a payload, and the evaluators find nothing.
Pass(c) ==
  /\ LoopFree
  /\ pc[c] = "fetching"
  /\ <<>> \in Alerts[c]
  /\ Ends(c, {"passed"}, <<TRUE>>, AfterReturn(MetricOf[c]))
  /\ UNCHANGED <<owner, open, repeating, delivered, batches, stopped>>

\* The fetch returns a payload, and the evaluators find valid_events.
Fire(c) ==
  /\ LoopFree
  /\ pc[c] = "fetching"
  /\ \E events \in Alerts[c] \ {<<>>} : todo' = [todo EXCEPT ![c] = events]
  /\ pc' = [pc EXCEPT ![c] = "deciding"]
  /\ UNCHANGED <<owner, breaker, open, repeating, delivered,
                 checks_total, inflight, history, batches, stopped>>

\* The fetch or an evaluator raises.
FetchFails(c) ==
  /\ LoopFree
  /\ pc[c] = "fetching"
  /\ Ends(c, {"failed"}, <<FALSE>>, AfterRaise(MetricOf[c]))
  /\ UNCHANGED <<owner, open, repeating, delivered, batches, stopped>>

\* The fetch raises a TimeoutError of its own: the pipeline fails, and the handler
\* of wait_for's timeout takes the same exception for its own and records it again.
FetchTimesOut(c) ==
  /\ ClientTimeout
  /\ LoopFree
  /\ pc[c] = "fetching"
  /\ Ends(c, {"failed", "timeout"}, <<FALSE, FALSE>>, AfterRaise(MetricOf[c]))
  /\ UNCHANGED <<owner, open, repeating, delivered, batches, stopped>>

\* The next event is suppressed by the policy.
Suppress(c) ==
  /\ pc[c] = "deciding" /\ todo[c] # <<>>
  /\ Policy!Suppress(Head(todo[c]))
  /\ todo' = [todo EXCEPT ![c] = Tail(@)]
  /\ UNCHANGED <<pc, owner, breaker, delivered,
                 checks_total, inflight, history, batches, stopped>>

\* Fault: the window opens after the dispatches instead of before them.
SendBeforeMarking(c) ==
  /\ pc[c] = "deciding" /\ todo[c] # <<>>
  /\ Head(todo[c]) \notin open \cup repeating
  /\ pc' = [pc EXCEPT ![c] = "sending"]
  /\ UNCHANGED <<todo, owner, breaker, open, repeating, delivered,
                 checks_total, inflight, history, batches, stopped>>

\* The policy grants the next event: its dispatches are gathered.
Send(c) ==
  /\ pc[c] = "deciding" /\ todo[c] # <<>>
  /\ Policy!Grant(Head(todo[c]))
  /\ pc' = [pc EXCEPT ![c] = "sending"]
  /\ UNCHANGED <<todo, owner, breaker, delivered,
                 checks_total, inflight, history, batches, stopped>>

\* The policy raises: the pipeline fails with the rest of its events.
Break(c) ==
  /\ pc[c] = "deciding" /\ todo[c] # <<>>
  /\ Policy!Break(Head(todo[c]))
  /\ Ends(c, {"failed"}, <<FALSE>>, AfterRaise(MetricOf[c]))
  /\ UNCHANGED <<owner, delivered, batches, stopped>>

\* The dispatches are over.  Some handler has delivered the event, or all have
\* failed: the exceptions are logged and dropped.
Sent(c) ==
  /\ LoopFree
  /\ pc[c] = "sending"
  /\ pc' = [pc EXCEPT ![c] = "deciding"]
  /\ todo' = [todo EXCEPT ![c] = Tail(@)]
  /\ delivered' \in {delivered, delivered \cup ({Head(todo[c])} \cap open)}
  /\ UNCHANGED <<owner, breaker, open, repeating,
                 checks_total, inflight, history, batches, stopped>>

\* All events are dealt with.
Complete(c) ==
  /\ pc[c] = "deciding" /\ todo[c] = <<>>
  /\ Ends(c, {"alerted"}, <<TRUE>>, AfterReturn(MetricOf[c]))
  /\ UNCHANGED <<owner, open, repeating, delivered, batches, stopped>>

\* Fault: the timer covers the wait for the permit only, not the pipeline.
TimeoutOfGatedOnly(c) ==
  /\ LoopFree
  /\ c \in Gated
  /\ Ends(c, {"timeout"}, <<FALSE>>, breaker[MetricOf[c]])
  /\ UNCHANGED <<owner, open, repeating, delivered, batches, stopped>>

\* Fault: a check that times out while it waits for its permit is a failure too.
TimeoutAsFailure(c) ==
  /\ LoopFree
  /\ c \in Admitted
  /\ Ends(c, {"timeout"} \cup IF c \in Running THEN {"cancelled"} ELSE {},
          <<FALSE>>, AfterRaise(MetricOf[c]))
  /\ UNCHANGED <<owner, open, repeating, delivered, batches, stopped>>

\* wait_for's timer ends an execution, even before its pipeline has started.
\* CancelledError passes the breaker by.
Timeout(c) ==
  /\ LoopFree
  /\ c \in Admitted
  /\ Ends(c, {"timeout"} \cup IF c \in Running THEN {"cancelled"} ELSE {},
          <<FALSE>>, breaker[MetricOf[c]])
  /\ UNCHANGED <<owner, open, repeating, delivered, batches, stopped>>

\* The daemon's task is cancelled in the middle of a batch, and every task of the
\* batch with it.
CancelBatch ==
  /\ LoopFree
  /\ ~stopped
  /\ \E c \in Check : pc[c] # "idle"
  /\ pc' = [c \in Check |-> "idle"]
  /\ todo' = [c \in Check |-> <<>>]
  /\ checks_total' =
       [m \in Metric |->
          [checks_total[m] EXCEPT !["cancelled"] = @ + Cardinality(Running \cap ChecksOf(m))]]
  /\ inflight' = [m \in Metric |-> inflight[m] - Cardinality(Running \cap ChecksOf(m))]
  /\ stopped' = TRUE
  /\ UNCHANGED <<owner, breaker, open, repeating, delivered, history, batches>>

\* External: reset_timeout_seconds of metric m's breaker have passed.
Elapse(m) ==
  /\ LoopFree
  /\ Cooling(breaker[m])
  /\ breaker' = [breaker EXCEPT ![m] = CooledDown(@)]
  /\ UNCHANGED <<pc, todo, owner, open, repeating, delivered,
                 checks_total, inflight, history, batches, stopped>>

\* The fingerprints whose alert is being dispatched.
Sending == {Head(todo[c]) : c \in {d \in Check : pc[d] = "sending"}}

\* External: dedupe_window_seconds of a fingerprint have passed.
WindowEnds(f) ==
  /\ LoopFree
  /\ f \in open
  /\ LongWindows => f \notin Sending
  /\ Policy!Expire({f})
  /\ delivered' = delivered \ {f}
  /\ UNCHANGED <<pc, todo, owner, breaker,
                 checks_total, inflight, history, batches, stopped>>

\* The last batch is over and the program ends.
Finished ==
  /\ stopped \/ batches = MaxBatches
  /\ \A c \in Check : pc[c] = "idle"
  /\ UNCHANGED vars

\* One step of check c's task.
Step(c) ==
  \/ Enter(c) \/ PassGate(c)
  \/ Pass(c) \/ Fire(c) \/ FetchFails(c) \/ FetchTimesOut(c)
  \/ Suppress(c) \/ Send(c) \/ Break(c) \/ Sent(c) \/ Complete(c)
  \/ Timeout(c)

Next ==
  \/ StartBatch
  \/ \E c \in Check : Step(c)
  \/ CancelBatch
  \/ \E m \in Metric : Elapse(m)
  \/ \E f \in Fingerprint : WindowEnds(f)
  \/ Finished

Spec == Init /\ [][Next]_vars

(***************************************************************************)
(* Fairness.  The event loop runs every ready task, and wait_for's timer   *)
(* fires: nothing is assumed of fetches and dispatches, which may hang.    *)
(***************************************************************************)
Fairness ==
  \A c \in Check :
    /\ WF_vars(Enter(c))
    /\ WF_vars(PassGate(c))
    /\ WF_vars(Suppress(c) \/ Send(c) \/ Break(c) \/ Complete(c))
    /\ WF_vars(Timeout(c))

FairSpec == Spec /\ Fairness

-----------------------------------------------------------------------------
\* No pipeline is lost: every one that started has passed, alerted, failed or
\* been cancelled, or is running and in the gauge, whatever ends it and however
\* many end at once (src/engine/executor.py:122-124, 172-174, 237-269).
PipelinesAccounted ==
  \A m \in Metric :
    LET total == checks_total[m] IN
    /\ inflight[m] = Cardinality(Running \cap ChecksOf(m))
    /\ total["started"] =
         total["passed"] + total["alerted"] + total["failed"] + total["cancelled"] + inflight[m]

\* The history and the counters tell the same story: as many results as outcomes
\* that record one, and as many successes among them as pipelines that passed or
\* alerted, up to the size of the deque
\* (src/engine/executor.py:172, 237, 264, 283, src/core/history.py:14-18).
HistoryAgreesWithTotals ==
  \A m \in Metric :
    LET total     == checks_total[m]
        successes == total["passed"] + total["alerted"]
        outcomes  == successes + total["failed"] + total["timeout"]
        recorded  == Cardinality({i \in DOMAIN history[m] : history[m][i]})
    IN  /\ Len(history[m]) = IF outcomes < HistorySize THEN outcomes ELSE HistorySize
        /\ outcomes =< HistorySize => recorded = successes

\* All checks of one metric_id run under the settings of the first of them in the
\* list, whichever is slow, refused or cancelled first
\* (runtime/resilience.py:82-98, src/engine/executor.py:120, 304-310).
OwnerIsFirst ==
  \A m \in Metric : \A c \in ChecksOf(m) : owner[m] =< c

\* An alert is not sent twice at once: the window opens before the first await of
\* the dispatch, and outlives it (src/core/policies.py:51, src/engine/executor.py:194-226).
NoConcurrentDuplicate ==
  \A c, d \in Check :
    /\ pc[c] = "sending" /\ pc[d] = "sending"
    /\ Head(todo[c]) = Head(todo[d])
    => c = d

\* Each metric's share of the executor is a CheckResilience whose callers are the
\* checks of that metric and whose settings are those of the first
\* (src/engine/executor.py:120, 273-276).
Shared(m) ==
  INSTANCE CheckResilience WITH
    Caller      <- ChecksOf(m),
    MaxInflight <- Resilience[CHOOSE c \in ChecksOf(m) : \A d \in ChecksOf(m) : c =< d].max_inflight,
    Threshold   <- Resilience[CHOOSE c \in ChecksOf(m) : \A d \in ChecksOf(m) : c =< d].failure_threshold,
    CbEnabled   <- Resilience[CHOOSE c \in ChecksOf(m) : \A d \in ChecksOf(m) : c =< d].enabled,
    pc          <- [c \in ChecksOf(m) |-> IF pc[c] \in {"idle", "queued"} THEN "idle"
                                         ELSE IF pc[c] = "gated" THEN "waiting" ELSE "running"],
    breaker     <- breaker[m]

ImplementsCheckResilience ==
  /\ \A m \in Metric : Shared(m)!Init
  /\ [][\A m \in Metric : [Shared(m)!Next]_(Shared(m)!vars)]_vars

\* A check of the list that hangs, for ever if it can, holds none of the others
\* up for ever: every check of a batch ends (README.md:28,
\* src/engine/executor.py:273-276, 300-310).
EveryCheckEnds == \A c \in Check : (pc[c] = "queued") ~> (pc[c] = "idle")

\* The scheduler's view: batches do not overlap, every check of a batch ends, and none
\* starts after a cancellation (src/engine/scheduler.py:41-68,
\* src/engine/executor.py:309-317).
Batches == INSTANCE Batch WITH
  running   <- {c \in Check : pc[c] # "idle"},
  cancelled <- stopped

ImplementsBatch == Batches!Spec

\* When a metric_id is unique, as SETUP.md:113 asks, executions of its check never
\* overlap, whatever max_inflight is: its open circuit is left only by a trial made
\* after the reset timeout, never by the late success of an older execution
\* (README.md:103, src/engine/scheduler.py:46, src/engine/executor.py:304-310).
CircuitClosesThroughTrial ==
  [][\A m \in {MetricOf[c] : c \in Check} :
       Cardinality(ChecksOf(m)) = 1 /\ breaker[m].state = "OPEN" /\ breaker'[m].state # "OPEN" =>
         breaker[m].cooled /\ breaker'[m].state = "HALF_OPEN"]_vars

-----------------------------------------------------------------------------
\* Every check that ends while its batch goes on is counted under some status, the
\* refused ones under "skipped" (src/engine/executor.py:250-257).
RefusalIsCounted ==
  [][\A c \in Check :
       pc[c] \in {"queued", "gated"} /\ pc'[c] = "idle" /\ ~stopped' =>
         checks_total'[MetricOf[c]] # checks_total[MetricOf[c]]]_vars

\* Only duplicates are suppressed: an alert about to be suppressed has been
\* delivered in its window, or is being sent (README.md:29).
OnlyDuplicatesAreSuppressed ==
  \A c \in Check :
    pc[c] = "deciding" /\ todo[c] # <<>> /\ Head(todo[c]) \in open =>
      Head(todo[c]) \in delivered \cup Sending

=============================================================================
