-------------------------- MODULE MCCheckExecutor --------------------------
(***************************************************************************)
(* Bounds for CheckExecutor.                                               *)
(***************************************************************************)
EXTENDS CheckExecutor

CONSTANTS cpu, disk, high, critical

Settings(inflight_, threshold) ==
  [max_inflight |-> inflight_, enabled |-> TRUE, failure_threshold |-> threshold]

\* Three entries of the list share one metric_id; two of them may run at once,
\* under the settings of the first, and the last two may raise the same alerts.
SharedMetricOf == <<cpu, cpu, cpu>>
SharedResilience == <<Settings(2, 2), Settings(3, 1), Settings(1, 1)>>
SharedAlerts == <<{<<>>}, {<<>>, <<high>>}, {<<high, critical>>}>>

\* Two entries share a metric_id with a single permit, behind which the second waits
\* while it holds a permit of the global semaphore; the third has a metric_id of its
\* own, room for overlaps that never happen, and a circuit that opens at once.
MixedMetricOf == <<cpu, cpu, disk>>
MixedResilience == <<Settings(1, 2), Settings(1, 2), Settings(2, 1)>>
MixedAlerts == <<{<<>>}, {<<high>>}, {<<>>, <<critical>>}>>

\* One check.
SingleMetricOf == <<cpu>>
SingleResilience == <<Settings(1, 2)>>
SingleAlerts == <<{<<>>, <<high>>}>>
FragileResilience == <<Settings(1, 1)>>

=============================================================================
