----------------------------- MODULE Evaluators -----------------------------
(***************************************************************************)
(* The rules of a check: what the parser accepts (src/config/parser.py)    *)
(* and when ThresholdEvaluator and FreshnessEvaluator                      *)
(* (src/core/evaluators) raise an alert on a payload.                      *)
(*                                                                         *)
(* A rule is a record.  The value of a threshold rule is a sequence of     *)
(* numbers, and list tells whether it was written as a list: the parser    *)
(* accepts a list of any length with any operator but "between".           *)
(***************************************************************************)
EXTENDS Integers, Sequences

CONSTANTS
  NaN,   \* the float that is not a number
  None   \* no value

Operator == {"<", "<=", ">", ">=", "between"}

\* The validation of a rule when the configuration is loaded.
Accepted(rule) ==
  \/ rule.type = "threshold" /\ (~rule.list => Len(rule.value) = 1)
     /\ (rule.operator = "between" => rule.list /\ Len(rule.value) = 2)
  \/ rule.type = "freshness" /\ rule.max_age_seconds > 0

\* Floating point comparisons: whatever is asked of NaN is false.
Less(x, y) == NaN \notin {x, y} /\ x < y
AtMost(x, y) == NaN \notin {x, y} /\ x =< y

\* Fault: the bound itself does not breach.
BreachesStrictly(value, rule) ==
  \/ ~rule.list /\ LET bound == rule.value[1] IN
       \/ rule.operator \in {"<", "<="} /\ Less(value, bound)
       \/ rule.operator \in {">", ">="} /\ Less(bound, value)
  \/ /\ rule.list /\ Len(rule.value) = 2 /\ rule.operator = "between"
     /\ AtMost(rule.value[1], value) /\ AtMost(value, rule.value[2])

\* Fault: the upward operators negate the downward ones, and so breach on NaN.
BreachesByNegation(value, rule) ==
  \/ ~rule.list /\ LET bound == rule.value[1] IN
       \/ rule.operator = "<"  /\ Less(value, bound)
       \/ rule.operator = "<=" /\ AtMost(value, bound)
       \/ rule.operator = ">"  /\ ~AtMost(value, bound)
       \/ rule.operator = ">=" /\ ~Less(value, bound)
  \/ /\ rule.list /\ Len(rule.value) = 2 /\ rule.operator = "between"
     /\ AtMost(rule.value[1], value) /\ AtMost(value, rule.value[2])

\* is_breach.  A list with another operator than "between" never breaches.
Breaches(value, rule) ==
  \/ ~rule.list /\ LET bound == rule.value[1] IN
       \/ rule.operator = "<"  /\ Less(value, bound)
       \/ rule.operator = "<=" /\ AtMost(value, bound)
       \/ rule.operator = ">"  /\ Less(bound, value)
       \/ rule.operator = ">=" /\ AtMost(bound, value)
  \/ /\ rule.list /\ Len(rule.value) = 2 /\ rule.operator = "between"
     /\ AtMost(rule.value[1], value) /\ AtMost(value, rule.value[2])

\* ThresholdEvaluator.evaluate: a missing value is an alert.
ThresholdAlerts(payload, rule) ==
  payload.value = None \/ Breaches(payload.value, rule)

\* FreshnessEvaluator.evaluate.
FreshnessAlerts(payload, max_age, time) == time - payload.timestamp > max_age

=============================================================================
