--------------------------- MODULE MCMeasurement ---------------------------
(***************************************************************************)
(* Bounds for Measurement: fifths of a second, so that the jitter of one   *)
(* second is a unit; three numbers around a bound; every shape of rule.    *)
(***************************************************************************)
EXTENDS Measurement

MCNumber == {0, 1, 2, NaN}

MCRules ==
  [type : {"threshold"}, operator : Operator, list : {FALSE}, value : {<<1>>, <<NaN>>}]
  \cup [type : {"threshold"}, operator : Operator, list : {TRUE}, value : {<<0, 1>>, <<1, 1, 2>>}]
  \cup [type : {"freshness"}, max_age_seconds : {1, 2}]

=============================================================================
