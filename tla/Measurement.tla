---------------------------- MODULE Measurement ----------------------------
(***************************************************************************)
(* From the response to the alert: the rules of a check, evaluated on the  *)
(* payload that its fetch has returned.  The executor evaluates them       *)
(* without awaiting anything in between, in the step in which fetch        *)
(* returns (src/engine/executor.py:155-167).                               *)
(***************************************************************************)
EXTENDS HttpIngestor

CONSTANT Rules  \* the rules of which checks are made

ASSUME MeasurementAssumption ==
  \A rule \in Rules :
    /\ rule.type = "freshness" => rule.max_age_seconds \in Int
    /\ rule.type = "threshold" /\ ~rule.list => rule.value[1] \in Number

\* The evaluator of the rule raises an alert on the payload.
Alerts(rule) ==
  \/ rule.type = "threshold" /\ ThresholdAlerts(payload, rule)
  \/ rule.type = "freshness" /\ FreshnessAlerts(payload, rule.max_age_seconds * Second, now)

\* The rules that raise no alert.
Quiet == {rule \in Rules : Accepted(rule) /\ ~Alerts(rule)}

\* No check passes for want of data: a threshold rule is quiet only on a number that
\* a response without error has reported as JSON, after whatever retries; a missing
\* value, another type or a text raise an alert or an error
\* (src/data/ingestors/http_api.py:93-135, src/core/evaluators/thresholds.py:13-22).
NothingPassesUnmeasured ==
  pc = "returned" =>
    \A rule \in Quiet : rule.type = "threshold" =>
      response.ok /\ response.json /\ payload.raw \in Number

\* Rules that split the numbers at one bound, if they have been given a number as bound.
Complementary(low, high) ==
  /\ low.type = "threshold" /\ high.type = "threshold"
  /\ <<low.operator, high.operator>> \in {<<"<", ">=">>, <<"<=", ">">>}
  /\ low.list = high.list /\ low.value = high.value

\* A rule and its complement leave no value unjudged but those that cannot be compared: of
\* the two exactly one alerts on a number, also on the bound itself; both alert on a
\* missing value; and where the value or the bound is NaN, or the bound was written as a
\* list, neither does, so that each is consistently quiet
\* (src/core/evaluators/thresholds.py:13-57, src/config/parser.py:24-56).
ComplementsMeet ==
  pc = "returned" =>
    \A low, high \in Rules : Complementary(low, high) =>
      IF payload.value = None
        THEN Alerts(low) /\ Alerts(high)
      ELSE IF low.list \/ NaN \in {payload.value, low.value[1]}
        THEN ~Alerts(low) /\ ~Alerts(high)
      ELSE Alerts(low) <=> ~Alerts(high)

=============================================================================
