------------------------ MODULE CheckExecutorProofs ------------------------
(***************************************************************************)
(* What holds of the executor for any list of checks, any settings and     *)
(* limits, any alerts and any number of batches.                           *)
(***************************************************************************)
EXTENDS CheckExecutor, CircuitProofs, FiniteSetTheorems, SequenceTheorems

Pipeline == {"fetching", "deciding", "sending"}

\* Whoever has entered has made the CheckResilience of his metric, from the settings of the
\* first of its checks; and nobody runs before the first batch or after a cancellation.
Owners ==
  /\ stopped \/ batches = 0 => \A c \in Check : pc[c] = "idle"
  /\ ~stopped /\ batches > 0 => \A c \in Check : pc[c] # "queued" => owner[MetricOf[c]] # 0
  /\ \A m \in Metric : owner[m] # 0 => owner[m] \in ChecksOf(m)
  /\ OwnerIsFirst

\* What is being sent is in an open window, if windows outlast the sending.
SendsInWindow ==
  \A c \in Check : pc[c] = "sending" =>
    /\ todo[c] # <<>>
    /\ LongWindows => Head(todo[c]) \in open

Duplicates == SendsInWindow /\ (LongWindows => NoConcurrentDuplicate)

IInv == TypeOK /\ PipelinesAccounted /\ Owners /\ Duplicates

-----------------------------------------------------------------------------
\* The checks are finitely many, and so are those that run.
LEMMA FinitelyMany ==
  \A S \in SUBSET Check : IsFiniteSet(S) /\ Cardinality(S) \in Nat
<1>1. IsFiniteSet(Check)
  BY CheckExecutorAssumption, FS_Interval DEF Check
<1> QED
  BY <1>1, FS_Subset, FS_CardinalityType

\* How the number of pipelines of each metric follows a task that moves.
LEMMA Joins ==
  ASSUME TypeOK, NEW c \in Check \ Running, NEW place \in Pipeline,
         pc' = [pc EXCEPT ![c] = place], NEW m \in Metric
  PROVE  /\ m = MetricOf[c] =>
              Cardinality(Running \cap ChecksOf(m))' = Cardinality(Running \cap ChecksOf(m)) + 1
         /\ m # MetricOf[c] =>
              Cardinality(Running \cap ChecksOf(m))' = Cardinality(Running \cap ChecksOf(m))
<1>1. Running \cap ChecksOf(m) \in SUBSET Check
  BY DEF Running
<1>2. ASSUME m = MetricOf[c]
      PROVE  Cardinality(Running \cap ChecksOf(m))' = Cardinality(Running \cap ChecksOf(m)) + 1
  <2>1. /\ (Running \cap ChecksOf(m))' = (Running \cap ChecksOf(m)) \cup {c}
        /\ c \notin Running \cap ChecksOf(m)
    BY <1>2 DEF TypeOK, Running, ChecksOf, Pipeline
  <2>2. Cardinality((Running \cap ChecksOf(m)) \cup {c}) = Cardinality(Running \cap ChecksOf(m)) + 1
    BY <1>1, <2>1, FinitelyMany, FS_AddElement
  <2> QED
    BY <2>1, <2>2
<1>3. ASSUME m # MetricOf[c]
      PROVE  (Running \cap ChecksOf(m))' = Running \cap ChecksOf(m)
  BY <1>3 DEF TypeOK, Running, ChecksOf
<1> QED
  BY <1>2, <1>3

LEMMA Leaves ==
  ASSUME TypeOK, NEW c \in Running,
         pc' = [pc EXCEPT ![c] = "idle"], NEW m \in Metric
  PROVE  /\ m = MetricOf[c] =>
              /\ Cardinality(Running \cap ChecksOf(m))' = Cardinality(Running \cap ChecksOf(m)) - 1
              /\ Cardinality(Running \cap ChecksOf(m))' \in Nat
         /\ m # MetricOf[c] =>
              Cardinality(Running \cap ChecksOf(m))' = Cardinality(Running \cap ChecksOf(m))
<1>1. Running \cap ChecksOf(m) \in SUBSET Check
  BY DEF Running
<1>2. ASSUME m = MetricOf[c]
      PROVE  /\ Cardinality(Running \cap ChecksOf(m))' = Cardinality(Running \cap ChecksOf(m)) - 1
             /\ Cardinality(Running \cap ChecksOf(m))' \in Nat
  <2>1. /\ (Running \cap ChecksOf(m))' = (Running \cap ChecksOf(m)) \ {c}
        /\ c \in Running \cap ChecksOf(m)
    BY <1>2 DEF TypeOK, Running, ChecksOf
  <2>2. /\ Cardinality((Running \cap ChecksOf(m)) \ {c}) = Cardinality(Running \cap ChecksOf(m)) - 1
        /\ Cardinality((Running \cap ChecksOf(m)) \ {c}) \in Nat
    BY <1>1, <2>1, FinitelyMany, FS_RemoveElement, FS_CardinalityType
  <2> QED
    BY <2>1, <2>2
<1>3. ASSUME m # MetricOf[c]
      PROVE  (Running \cap ChecksOf(m))' = Running \cap ChecksOf(m)
  BY <1>3 DEF TypeOK, Running, ChecksOf
<1> QED
  BY <1>2, <1>3

LEMMA Stays ==
  ASSUME TypeOK, NEW c \in Check, NEW place,
         c \in Running <=> place \in Pipeline,
         pc' = [pc EXCEPT ![c] = place], NEW m \in Metric
  PROVE  Cardinality(Running \cap ChecksOf(m))' = Cardinality(Running \cap ChecksOf(m))
<1>1. (Running \cap ChecksOf(m))' = Running \cap ChecksOf(m)
  BY DEF TypeOK, Running, ChecksOf, Pipeline
<1> QED
  BY <1>1

\* inc_check counts each of the statuses once, for its metric only.
LEMMA CountedOnce ==
  ASSUME checks_total \in [Metric -> [Status -> Nat]], NEW m \in Metric, NEW statuses
  PROVE  /\ Counted(m, statuses) \in [Metric -> [Status -> Nat]]
         /\ \A s \in Status :
              Counted(m, statuses)[m][s] = checks_total[m][s] + IF s \in statuses THEN 1 ELSE 0
         /\ \A n \in Metric \ {m} : Counted(m, statuses)[n] = checks_total[n]
BY DEF Counted

\* A history stays a sequence of results.
LEMMA RememberedIsHistory ==
  ASSUME history \in [Metric -> Seq(BOOLEAN)], NEW m \in Metric, NEW results \in Seq(BOOLEAN)
  PROVE  Remembered(m, results) \in [Metric -> Seq(BOOLEAN)]
<1> DEFINE all == history[m] \o results
           over == Len(all) - HistorySize
<1>1. all \in Seq(BOOLEAN) /\ Len(all) \in Nat
  OBVIOUS
<1>2. over > 0 => over \in Int /\ over + 1 \in 1..Len(all)
  BY <1>1, CheckExecutorAssumption
<1>3. over > 0 => SubSeq(all, over + 1, Len(all)) \in Seq(BOOLEAN)
  <2> HIDE DEF all, over
  <2> QED
    BY <1>1, <1>2
<1>4. Remembered(m, results) =
        [history EXCEPT ![m] = IF over > 0 THEN SubSeq(all, over + 1, Len(all)) ELSE all]
  BY DEF Remembered
<1> HIDE DEF all, over
<1> QED
  BY <1>1, <1>3, <1>4

-----------------------------------------------------------------------------
\* Breakers of any threshold are breakers.
LEMMA AnyBreaker ==
  ASSUME NEW threshold \in Nat
  PROVE  Breaker(threshold) \subseteq [state : CircuitState, failures : Nat, cooled : BOOLEAN]
BY DEF Breaker

\* The settings of a metric whose CheckResilience exists, and what its breaker becomes.
LEMMA Settings ==
  ASSUME IInv, NEW m \in Metric, owner[m] # 0
  PROVE  /\ owner[m] \in Check /\ owner[m] \in Nat
         /\ Resilience[owner[m]].failure_threshold \in Nat \ {0}
         /\ breaker[m] \in Breaker(Resilience[owner[m]].failure_threshold)
         /\ AfterReturn(m) \in Breaker(Resilience[owner[m]].failure_threshold)
         /\ AfterRaise(m) \in Breaker(Resilience[owner[m]].failure_threshold)
<1>1. owner[m] \in Check
  BY DEF IInv, Owners, ChecksOf
<1>2. Resilience[owner[m]].failure_threshold \in Nat \ {0}
  BY <1>1, CheckExecutorAssumption
<1>3. breaker[m] \in Breaker(Resilience[owner[m]].failure_threshold)
  BY DEF IInv, TypeOK
<1> QED
  BY <1>1, <1>2, <1>3, NewBreakerIsBreaker, FailBreaker DEF AfterReturn, AfterRaise, Succeed, Check

\* Who is past the global semaphore has a CheckResilience.
LEMMA AdmittedIsOwned ==
  ASSUME IInv, NEW c \in Check, pc[c] \notin {"idle", "queued"}
  PROVE  MetricOf[c] \in Metric /\ owner[MetricOf[c]] # 0 /\ ~stopped /\ batches > 0
  BY CheckExecutorAssumption DEF IInv, Owners, TypeOK

\* The statuses under which a pipeline that has started ends.
Outcome == {"passed", "alerted", "failed", "cancelled"}

\* From counts t to counts u, one more execution has ended as s.
OneMore(t, u, s) ==
  /\ u["started"] = t["started"]
  /\ \A o \in Outcome : (o = s => u[o] = t[o] + 1) /\ (o # s => u[o] = t[o])

\* The counts t make up for i pipelines.
MakeUpFor(t, i) ==
  t["started"] = t["passed"] + t["alerted"] + t["failed"] + t["cancelled"] + i

\* One more outcome makes up for one pipeline less.
LEMMA OneMoreOutcome ==
  ASSUME NEW t \in [Status -> Nat], NEW u \in [Status -> Nat], NEW i \in Nat, NEW j \in Nat,
         NEW s \in Outcome, j = i - 1, MakeUpFor(t, i), OneMore(t, u, s)
  PROVE  MakeUpFor(u, j)
<1>1. \A o \in Outcome : t[o] \in Nat /\ u[o] \in Nat
  BY DEF Outcome, Status
<1>2. s = "passed" \/ s = "alerted" \/ s = "failed" \/ s = "cancelled"
  BY DEF Outcome
<1>3. /\ "passed" \in Outcome /\ "alerted" \in Outcome
      /\ "failed" \in Outcome /\ "cancelled" \in Outcome
  BY DEF Outcome
<1>4. \/ u["passed"] = t["passed"] + 1 /\ u["alerted"] = t["alerted"]
         /\ u["failed"] = t["failed"] /\ u["cancelled"] = t["cancelled"]
      \/ u["passed"] = t["passed"] /\ u["alerted"] = t["alerted"] + 1
         /\ u["failed"] = t["failed"] /\ u["cancelled"] = t["cancelled"]
      \/ u["passed"] = t["passed"] /\ u["alerted"] = t["alerted"]
         /\ u["failed"] = t["failed"] + 1 /\ u["cancelled"] = t["cancelled"]
      \/ u["passed"] = t["passed"] /\ u["alerted"] = t["alerted"]
         /\ u["failed"] = t["failed"] /\ u["cancelled"] = t["cancelled"] + 1
  <2>1. CASE s = "passed"
    BY <1>3, <2>1 DEF OneMore
  <2>2. CASE s = "alerted"
    BY <1>3, <2>2 DEF OneMore
  <2>3. CASE s = "failed"
    BY <1>3, <2>3 DEF OneMore
  <2>4. CASE s = "cancelled"
    BY <1>3, <2>4 DEF OneMore
  <2> QED
    BY <1>2, <2>1, <2>2, <2>3, <2>4
<1>5. /\ t["passed"] \in Nat /\ t["alerted"] \in Nat /\ t["failed"] \in Nat
      /\ t["cancelled"] \in Nat
  BY <1>1, <1>3
<1>6. PICK p, a, f, n : p = t["passed"] /\ a = t["alerted"] /\ f = t["failed"] /\ n = t["cancelled"]
  OBVIOUS
<1>7. p \in Nat /\ a \in Nat /\ f \in Nat /\ n \in Nat
  BY <1>5, <1>6
<1>8. u["passed"] + u["alerted"] + u["failed"] + u["cancelled"] = p + a + f + n + 1
  BY <1>4, <1>6, <1>7
<1>9. u["started"] = p + a + f + n + i
  BY <1>6 DEF MakeUpFor, OneMore
<1> QED
  BY <1>7, <1>8, <1>9 DEF MakeUpFor

\* However an execution ends, its pipeline, if it runs, is counted under one outcome as it
\* leaves the gauge.
LEMMA EndsAccounted ==
  ASSUME IInv, NEW c \in Admitted, NEW statuses \in SUBSET Status, NEW results, NEW b,
         Ends(c, statuses, results, b),
         "started" \notin statuses,
         c \in Running => \E s \in Outcome : statuses \cap Outcome = {s},
         c \notin Running => statuses \cap Outcome = {}
  PROVE  PipelinesAccounted' /\ inflight' \in [Metric -> Nat]
<1> DEFINE home == MetricOf[c]
<1> USE DEF IInv
<1>1. c \in Check /\ home \in Metric
  BY CheckExecutorAssumption DEF Admitted, Gated, Running
<1>2. /\ pc' = [pc EXCEPT ![c] = "idle"]
      /\ checks_total' = Counted(home, statuses)
      /\ inflight' = [inflight EXCEPT ![home] = @ - IF c \in Running THEN 1 ELSE 0]
  BY DEF Ends
<1>3. /\ checks_total' \in [Metric -> [Status -> Nat]]
      /\ \A s \in Status : checks_total'[home][s] = checks_total[home][s] + IF s \in statuses THEN 1 ELSE 0
      /\ \A n \in Metric \ {home} : checks_total'[n] = checks_total[n]
  <2>1. checks_total \in [Metric -> [Status -> Nat]]
    BY DEF TypeOK
  <2> QED
    BY <1>1, <1>2, <2>1, CountedOnce
<1>4. /\ \A m \in Metric : inflight[m] \in Nat /\ inflight[m] = Cardinality(Running \cap ChecksOf(m))
      /\ \A m \in Metric : checks_total[m] \in [Status -> Nat]
  BY DEF TypeOK, PipelinesAccounted
<1>5. ASSUME NEW m \in Metric
      PROVE  /\ inflight'[m] = Cardinality(Running \cap ChecksOf(m))' /\ inflight'[m] \in Nat
             /\ checks_total'[m]["started"] =
                  checks_total'[m]["passed"] + checks_total'[m]["alerted"]
                  + checks_total'[m]["failed"] + checks_total'[m]["cancelled"] + inflight'[m]
  <2>1. checks_total[m]["started"] =
          checks_total[m]["passed"] + checks_total[m]["alerted"]
          + checks_total[m]["failed"] + checks_total[m]["cancelled"] + inflight[m]
    BY DEF PipelinesAccounted
  <2>2. CASE m # home
    <3>1. inflight'[m] = inflight[m] /\ checks_total'[m] = checks_total[m]
      BY <1>1, <1>2, <1>3, <2>2 DEF TypeOK
    <3>2. Cardinality(Running \cap ChecksOf(m))' = Cardinality(Running \cap ChecksOf(m))
      <4>1. CASE c \in Running
        BY <1>2, <2>2, <4>1, Leaves
      <4>2. CASE c \notin Running
        BY <1>1, <1>2, <4>2, Stays DEF Pipeline
      <4> QED
        BY <4>1, <4>2
    <3> QED
      BY <1>4, <2>1, <3>1, <3>2
  <2>3. CASE m = home /\ c \in Running
    <3>1. inflight'[m] = inflight[m] - 1
      BY <1>1, <1>2, <2>3 DEF TypeOK
    <3>2. /\ Cardinality(Running \cap ChecksOf(m))' = Cardinality(Running \cap ChecksOf(m)) - 1
          /\ Cardinality(Running \cap ChecksOf(m))' \in Nat
      BY <1>2, <2>3, Leaves
    <3>3. inflight'[m] = Cardinality(Running \cap ChecksOf(m))' /\ inflight'[m] \in Nat
      BY <1>4, <3>1, <3>2
    <3>4. PICK s \in Outcome : statuses \cap Outcome = {s}
      BY <2>3
    <3>5. \A t \in Outcome : t \in Status /\ (t \in statuses <=> t = s)
      BY <3>4 DEF Outcome, Status
    <3>6. /\ checks_total'[m]["started"] = checks_total[m]["started"]
          /\ \A t \in Outcome : checks_total'[m][t] = checks_total[m][t] + IF t = s THEN 1 ELSE 0
      BY <1>3, <1>4, <2>3, <3>5 DEF Status
    <3>7. \A t \in Status : checks_total[m][t] \in Nat
      BY <1>4
    <3>8. checks_total[m] \in [Status -> Nat] /\ checks_total'[m] \in [Status -> Nat]
      BY <1>3, <1>4
    <3>9. checks_total'[m]["started"] =
            checks_total'[m]["passed"] + checks_total'[m]["alerted"]
            + checks_total'[m]["failed"] + checks_total'[m]["cancelled"] + inflight'[m]
      <4>1. PICK t, u : t = checks_total[m] /\ u = checks_total'[m]
        OBVIOUS
      <4>2. PICK i, j : i = inflight[m] /\ j = inflight'[m]
        OBVIOUS
      <4>3. t \in [Status -> Nat] /\ u \in [Status -> Nat]
        BY <3>8, <4>1
      <4>4. i \in Nat /\ j \in Nat /\ j = i - 1
        BY <1>4, <3>1, <3>3, <4>2
      <4>5. MakeUpFor(t, i)
        BY <2>1, <4>1, <4>2 DEF MakeUpFor
      <4>6. OneMore(t, u, s)
        BY <3>6, <3>8, <4>1 DEF OneMore, Outcome, Status
      <4>7. MakeUpFor(u, j)
        BY <4>3, <4>4, <4>5, <4>6, OneMoreOutcome
      <4> QED
        BY <4>1, <4>2, <4>7 DEF MakeUpFor
    <3> QED
      BY <3>3, <3>9
  <2>4. CASE m = home /\ c \notin Running
    <3>1. inflight'[m] = inflight[m]
      BY <1>1, <1>2, <1>4, <2>4 DEF TypeOK
    <3>2. Cardinality(Running \cap ChecksOf(m))' = Cardinality(Running \cap ChecksOf(m))
      BY <1>1, <1>2, <2>4, Stays DEF Pipeline
    <3>3. \A t \in Outcome \cup {"started"} : t \in Status /\ t \notin statuses
      BY <2>4 DEF Outcome, Status
    <3>4. \A t \in Outcome \cup {"started"} : checks_total'[m][t] = checks_total[m][t]
      BY <1>3, <1>4, <2>4, <3>3
    <3> QED
      BY <1>4, <2>1, <3>1, <3>2, <3>4 DEF Outcome
  <2> QED
    BY <2>2, <2>3, <2>4
<1>6. inflight' \in [Metric -> Nat]
  <2>1. inflight' \in [Metric -> Int]
    BY <1>1, <1>2 DEF TypeOK
  <2> QED
    BY <1>5, <2>1
<1> QED
  BY <1>5, <1>6 DEF PipelinesAccounted

LEMMA EndsOK ==
  ASSUME IInv, NEW c \in Admitted, NEW statuses \in SUBSET Status, NEW results \in Seq(BOOLEAN),
         NEW b \in {breaker[MetricOf[c]], AfterReturn(MetricOf[c]), AfterRaise(MetricOf[c])},
         Ends(c, statuses, results, b),
         "started" \notin statuses,
         c \in Running => \E s \in Outcome : statuses \cap Outcome = {s},
         c \notin Running => statuses \cap Outcome = {},
         UNCHANGED <<owner, open, delivered, batches, stopped>>,
         repeating' \subseteq repeating
  PROVE  IInv'
<1> USE DEF IInv
<1>1. c \in Check /\ MetricOf[c] \in Metric /\ owner[MetricOf[c]] # 0
  BY AdmittedIsOwned DEF Admitted, Gated, Running
<1>2. PipelinesAccounted' /\ inflight' \in [Metric -> Nat]
  BY EndsAccounted
<1>3. /\ pc' = [pc EXCEPT ![c] = "idle"]
      /\ todo' = [todo EXCEPT ![c] = <<>>]
      /\ breaker' = [breaker EXCEPT ![MetricOf[c]] = b]
      /\ checks_total' = Counted(MetricOf[c], statuses)
      /\ history' = Remembered(MetricOf[c], results)
  BY DEF Ends
<1>4. checks_total' \in [Metric -> [Status -> Nat]] /\ history' \in [Metric -> Seq(BOOLEAN)]
  BY <1>1, <1>3, CountedOnce, RememberedIsHistory DEF TypeOK
<1>5. b \in Breaker(Resilience[owner[MetricOf[c]]].failure_threshold)
  BY <1>1, Settings
<1>6. \A m \in Metric :
        IF owner'[m] = 0 THEN breaker'[m] = NewBreaker
        ELSE breaker'[m] \in Breaker(Resilience[owner'[m]].failure_threshold)
  BY <1>1, <1>3, <1>5 DEF TypeOK
<1>7. breaker' \in [Metric -> [state : CircuitState, failures : Nat, cooled : BOOLEAN]]
  BY <1>1, <1>3, <1>5, AnyBreaker, Settings DEF TypeOK
<1>8. todo' \in [Check -> Seq(Fingerprint)]
  <2>1. <<>> \in Seq(Fingerprint)
    OBVIOUS
  <2> QED
    BY <1>3, <2>1 DEF TypeOK
<1>9. TypeOK'
  BY <1>1, <1>2, <1>3, <1>4, <1>6, <1>8, <1>7 DEF TypeOK, Policy!TypeOK
<1>10. Owners'
  BY <1>1, <1>3 DEF Owners, OwnerIsFirst, TypeOK
<1>11. Duplicates'
  <2>1. \A d \in Check : pc'[d] = "sending" => pc[d] = "sending" /\ todo'[d] = todo[d]
    BY <1>1, <1>3 DEF TypeOK
  <2> QED
    BY <2>1 DEF Duplicates, SendsInWindow, NoConcurrentDuplicate
<1> QED
  BY <1>2, <1>9, <1>10, <1>11

-----------------------------------------------------------------------------
\* An execution with a permit in hand joins the gauge as it is counted started, or is
\* refused and leaves no trace.
LEMMA StartsAccounted ==
  ASSUME IInv, NEW c \in Check, pc[c] \in {"queued", "gated"},
         owner'[MetricOf[c]] \in Check,
         breaker[MetricOf[c]] \in Breaker(Resilience[owner'[MetricOf[c]]].failure_threshold),
         Starts(c, breaker[MetricOf[c]])
  PROVE  /\ PipelinesAccounted'
         /\ inflight' \in [Metric -> Nat] /\ checks_total' \in [Metric -> [Status -> Nat]]
         /\ \E place \in {"idle", "fetching"} : pc' = [pc EXCEPT ![c] = place]
         /\ \E b \in Breaker(Resilience[owner'[MetricOf[c]]].failure_threshold) :
              breaker' = [breaker EXCEPT ![MetricOf[c]] = b]
<1> DEFINE home == MetricOf[c]
           o == owner'[home]
<1> USE DEF IInv
<1>1. home \in Metric /\ Resilience[o].failure_threshold \in Nat \ {0}
  BY CheckExecutorAssumption
<1>2. c \notin Running
  BY DEF Running
<1>3. \A m \in Metric :
        /\ checks_total[m]["started"] =
             checks_total[m]["passed"] + checks_total[m]["alerted"]
             + checks_total[m]["failed"] + checks_total[m]["cancelled"] + inflight[m]
        /\ inflight[m] = Cardinality(Running \cap ChecksOf(m)) /\ inflight[m] \in Nat
        /\ checks_total[m] \in [Status -> Nat]
  BY DEF PipelinesAccounted, TypeOK
<1>4. CASE Resilience[o].enabled /\ Refuses(breaker[home])
  <2>1. pc' = [pc EXCEPT ![c] = "idle"] /\ UNCHANGED <<breaker, checks_total, inflight>>
    BY <1>4 DEF Starts
  <2>2. \A m \in Metric : Cardinality(Running \cap ChecksOf(m))' = Cardinality(Running \cap ChecksOf(m))
    BY <1>2, <2>1, Stays DEF Pipeline
  <2>3. PipelinesAccounted'
    BY <1>3, <2>1, <2>2 DEF PipelinesAccounted
  <2>4. breaker' = [breaker EXCEPT ![home] = breaker[home]]
    BY <1>1, <2>1 DEF TypeOK
  <2> QED
    BY <1>1, <2>1, <2>3, <2>4 DEF TypeOK
<1>5. CASE ~(Resilience[o].enabled /\ Refuses(breaker[home]))
  <2>1. /\ pc' = [pc EXCEPT ![c] = "fetching"]
        /\ breaker' = [breaker EXCEPT ![home] =
                         IF Resilience[o].enabled THEN Admit(breaker[home]) ELSE breaker[home]]
        /\ checks_total' = Counted(home, {"started"})
        /\ inflight' = [inflight EXCEPT ![home] = @ + 1]
    BY <1>5 DEF Starts
  <2>2. (IF Resilience[o].enabled THEN Admit(breaker[home]) ELSE breaker[home])
          \in Breaker(Resilience[o].failure_threshold)
    BY <1>1, AdmitBreaker
  <2>3. /\ checks_total' \in [Metric -> [Status -> Nat]]
        /\ \A s \in Status : checks_total'[home][s] = checks_total[home][s] + IF s \in {"started"} THEN 1 ELSE 0
        /\ \A n \in Metric \ {home} : checks_total'[n] = checks_total[n]
    <3>1. checks_total \in [Metric -> [Status -> Nat]]
      BY DEF TypeOK
    <3> QED
      BY <1>1, <2>1, <3>1, CountedOnce
  <2>4. inflight' \in [Metric -> Nat]
    BY <1>1, <2>1 DEF TypeOK
  <2>5. ASSUME NEW m \in Metric
        PROVE  /\ inflight'[m] = Cardinality(Running \cap ChecksOf(m))'
               /\ checks_total'[m]["started"] =
                    checks_total'[m]["passed"] + checks_total'[m]["alerted"]
                    + checks_total'[m]["failed"] + checks_total'[m]["cancelled"] + inflight'[m]
    <3>1. CASE m = home
      <4>1. inflight'[m] = inflight[m] + 1
        BY <1>1, <2>1, <3>1 DEF TypeOK
      <4>2. Cardinality(Running \cap ChecksOf(m))' = Cardinality(Running \cap ChecksOf(m)) + 1
        BY <1>2, <2>1, <3>1, Joins DEF Pipeline
      <4>3. /\ checks_total'[m]["started"] = checks_total[m]["started"] + 1
            /\ checks_total'[m]["passed"] = checks_total[m]["passed"]
            /\ checks_total'[m]["alerted"] = checks_total[m]["alerted"]
            /\ checks_total'[m]["failed"] = checks_total[m]["failed"]
            /\ checks_total'[m]["cancelled"] = checks_total[m]["cancelled"]
        <5>1. \A s \in {"started", "passed", "alerted", "failed", "cancelled"} :
                s \in Status /\ checks_total[m][s] \in Nat
          BY <1>3 DEF Status
        <5> QED
          BY <2>3, <3>1, <5>1
      <4>4. \A s \in {"started", "passed", "alerted", "failed", "cancelled"} : checks_total[m][s] \in Nat
        BY <1>3 DEF Status
      <4> QED
        BY <1>3, <4>1, <4>2, <4>3, <4>4
    <3>2. CASE m # home
      <4>1. inflight'[m] = inflight[m] /\ checks_total'[m] = checks_total[m]
        BY <1>1, <2>1, <2>3, <3>2 DEF TypeOK
      <4>2. Cardinality(Running \cap ChecksOf(m))' = Cardinality(Running \cap ChecksOf(m))
        BY <1>2, <2>1, <3>2, Joins DEF Pipeline
      <4> QED
        BY <1>3, <4>1, <4>2
    <3> QED
      BY <3>1, <3>2
  <2>6. PipelinesAccounted'
    BY <2>5 DEF PipelinesAccounted
  <2> QED
    BY <2>1, <2>2, <2>3, <2>4, <2>6
<1> QED
  BY <1>4, <1>5

\* The step of a task that leaves the semaphores' queues, with the settings that its metric
\* has or, if it is the first of the list, is given.
LEMMA LetInOK ==
  ASSUME IInv, NEW c \in Check, Enter(c) \/ PassGate(c)
  PROVE  IInv'
<1> DEFINE home == MetricOf[c]
           o == owner'[home]
<1> USE DEF IInv
<1>1. /\ home \in Metric /\ pc[c] \in {"queued", "gated"} /\ c \in Nat \ {0}
      /\ ~stopped /\ batches > 0
      /\ UNCHANGED <<todo, open, repeating, delivered, history, batches, stopped>>
  <2>1. home \in Metric /\ c \in Nat \ {0} /\ batches \in Nat /\ stopped \in BOOLEAN
    <3>1. home \in Metric /\ c \in Nat \ {0}
      BY CheckExecutorAssumption DEF Check
    <3>2. batches \in Nat /\ stopped \in BOOLEAN
      BY CheckExecutorAssumption DEF TypeOK
    <3> QED
      BY <3>1, <3>2
  <2>2. /\ pc[c] \in {"queued", "gated"}
        /\ UNCHANGED <<todo, open, repeating, delivered, history, batches, stopped>>
    BY DEF Enter, PassGate
  <2> QED
    BY <2>1, <2>2 DEF Owners
<1>2. owner' = [owner EXCEPT ![home] = IF @ = 0 THEN c ELSE @]
  <2>1. CASE PassGate(c)
    <3>1. owner[home] # 0 /\ owner' = owner
      BY <1>1, <2>1 DEF PassGate, Owners
    <3> QED
      BY <1>1, <3>1 DEF TypeOK
  <2> QED
    BY <2>1 DEF Enter
<1>3. o = IF owner[home] = 0 THEN c ELSE owner[home]
  BY <1>1, <1>2 DEF TypeOK
<1>4. o \in Check /\ o \in ChecksOf(home) /\ o # 0 /\ Resilience[o].failure_threshold \in Nat \ {0}
  BY <1>1, <1>3, CheckExecutorAssumption DEF Owners, ChecksOf, Check
<1>5. breaker[home] \in Breaker(Resilience[o].failure_threshold)
  BY <1>1, <1>3, <1>4, NewBreakerIsBreaker DEF TypeOK
<1>6. \/ Starts(c, breaker[home])
      \/ pc' = [pc EXCEPT ![c] = "gated"] /\ UNCHANGED <<breaker, checks_total, inflight>>
  BY DEF Enter, PassGate
<1>7. /\ PipelinesAccounted'
      /\ inflight' \in [Metric -> Nat] /\ checks_total' \in [Metric -> [Status -> Nat]]
      /\ \E place \in {"idle", "gated", "fetching"} : pc' = [pc EXCEPT ![c] = place]
      /\ \E b \in Breaker(Resilience[o].failure_threshold) : breaker' = [breaker EXCEPT ![home] = b]
  <2>1. CASE Starts(c, breaker[home])
    BY <1>1, <1>4, <1>5, <2>1, StartsAccounted
  <2>2. CASE pc' = [pc EXCEPT ![c] = "gated"] /\ UNCHANGED <<breaker, checks_total, inflight>>
    <3>1. \A m \in Metric : Cardinality(Running \cap ChecksOf(m))' = Cardinality(Running \cap ChecksOf(m))
      <4>1. c \notin Running /\ "gated" \notin Pipeline
        BY <1>1 DEF Running, Pipeline
      <4> QED
        BY <2>2, <4>1, Stays
    <3>2. PipelinesAccounted'
      BY <2>2, <3>1 DEF PipelinesAccounted
    <3>3. breaker' = [breaker EXCEPT ![home] = breaker[home]]
      BY <1>1, <2>2 DEF TypeOK
    <3> QED
      BY <1>5, <2>2, <3>2, <3>3 DEF TypeOK
  <2> QED
    BY <1>6, <2>1, <2>2
<1>8. PICK place \in {"idle", "gated", "fetching"} : pc' = [pc EXCEPT ![c] = place]
  BY <1>7
<1>9. TypeOK'
  <2>1. PICK b \in Breaker(Resilience[o].failure_threshold) : breaker' = [breaker EXCEPT ![home] = b]
    BY <1>7
  <2>2. /\ breaker' \in [Metric -> [state : CircuitState, failures : Nat, cooled : BOOLEAN]]
        /\ breaker'[home] = b
        /\ \A m \in Metric \ {home} : breaker'[m] = breaker[m] /\ owner'[m] = owner[m]
    BY <1>1, <1>2, <1>4, <2>1, AnyBreaker DEF TypeOK
  <2>3. \A m \in Metric :
          IF owner'[m] = 0 THEN breaker'[m] = NewBreaker
          ELSE breaker'[m] \in Breaker(Resilience[owner'[m]].failure_threshold)
    BY <1>4, <2>2 DEF TypeOK
  <2>4. owner' \in [Metric -> 0..N]
    BY <1>1, <1>2, CheckExecutorAssumption DEF TypeOK, Check
  <2>5. pc' \in [Check -> {"idle", "queued", "gated", "fetching", "deciding", "sending"}]
    BY <1>8 DEF TypeOK
  <2> QED
    BY <1>1, <1>7, <2>2, <2>3, <2>4, <2>5 DEF TypeOK, Policy!TypeOK
<1>10. Owners'
  <2>1. \A d \in Check : pc'[d] # "queued" => owner'[MetricOf[d]] # 0
    <3> SUFFICES ASSUME NEW d \in Check, pc'[d] # "queued" PROVE owner'[MetricOf[d]] # 0
      OBVIOUS
    <3>1. MetricOf[d] \in Metric
      BY CheckExecutorAssumption
    <3>2. MetricOf[d] = home => owner'[MetricOf[d]] # 0
      BY <1>4
    <3>3. MetricOf[d] # home => owner'[MetricOf[d]] # 0
      <4>1. ASSUME MetricOf[d] # home PROVE pc[d] # "queued" /\ owner'[MetricOf[d]] = owner[MetricOf[d]]
        BY <1>1, <1>2, <1>8, <3>1, <4>1 DEF TypeOK
      <4> QED
        BY <1>1, <4>1 DEF Owners
    <3> QED
      BY <3>2, <3>3
  <2>2. \A m \in Metric : owner'[m] # 0 => owner'[m] \in ChecksOf(m)
    BY <1>1, <1>2, <1>4 DEF Owners, TypeOK
  <2>3. \A d \in ChecksOf(home) : o =< d
    <3> SUFFICES ASSUME NEW d \in ChecksOf(home) PROVE o =< d
      OBVIOUS
    <3>1. d \in Check /\ MetricOf[d] = home
      BY DEF ChecksOf
    <3>2. CASE owner[home] # 0
      BY <1>1, <1>3, <3>2 DEF Owners, OwnerIsFirst
    <3>3. CASE owner[home] = 0
      <4>1. Enter(c) /\ o = c
        BY <1>1, <1>3, <3>3 DEF PassGate, Owners
      <4>2. pc[d] = "queued"
        BY <1>1, <3>1, <3>3 DEF Owners
      <4>3. ~(d < c)
        BY <3>1, <4>1, <4>2 DEF Enter
      <4> QED
        BY <1>1, <3>1, <4>1, <4>3 DEF Check
    <3> QED
      BY <3>2, <3>3
  <2>4. OwnerIsFirst'
    BY <1>1, <1>2, <2>3 DEF OwnerIsFirst, Owners, ChecksOf, TypeOK
  <2> QED
    BY <1>1, <2>1, <2>2, <2>4 DEF Owners, ChecksOf
<1>11. Duplicates'
  <2>1. \A d \in Check : pc'[d] = "sending" => pc[d] = "sending"
    BY <1>8 DEF TypeOK
  <2> QED
    BY <1>1, <2>1 DEF Duplicates, SendsInWindow, NoConcurrentDuplicate
<1> QED
  BY <1>7, <1>9, <1>10, <1>11

-----------------------------------------------------------------------------
\* While a pipeline deals with its alerts no counter moves.
LEMMA InsideOK ==
  ASSUME IInv, NEW c \in Check, Fire(c) \/ Suppress(c) \/ Send(c) \/ Sent(c)
  PROVE  IInv'
<1> USE DEF IInv
<1>1. /\ UNCHANGED <<owner, breaker, checks_total, inflight, history, batches, stopped>>
      /\ pc[c] \in Pipeline
      /\ \E place \in {"deciding", "sending"} : pc' = [pc EXCEPT ![c] = place]
      /\ \A d \in Check \ {c} : todo'[d] = todo[d]
  <2>1. CASE Suppress(c)
    <3>1. pc[c] = "deciding" /\ pc' = pc /\ todo' = [todo EXCEPT ![c] = Tail(@)]
          /\ UNCHANGED <<owner, breaker, checks_total, inflight, history, batches, stopped>>
      BY <2>1 DEF Suppress
    <3>2. pc' = [pc EXCEPT ![c] = "deciding"]
      BY <3>1 DEF TypeOK
    <3> QED
      BY <3>1, <3>2 DEF TypeOK, Pipeline
  <2>2. CASE Fire(c) \/ Send(c) \/ Sent(c)
    BY <2>2 DEF Fire, Send, Sent, TypeOK, Pipeline
  <2> QED
    BY <2>1, <2>2
<1>2. PICK place \in {"deciding", "sending"} : pc' = [pc EXCEPT ![c] = place]
  BY <1>1
<1>3. PipelinesAccounted'
  <2>1. \A m \in Metric : Cardinality(Running \cap ChecksOf(m))' = Cardinality(Running \cap ChecksOf(m))
    <3>1. c \in Running /\ place \in Pipeline
      BY <1>1 DEF Running, Pipeline
    <3> QED
      BY <1>2, <3>1, Stays
  <2> QED
    BY <1>1, <2>1 DEF PipelinesAccounted
<1>4. todo' \in [Check -> Seq(Fingerprint)]
  <2>1. CASE Fire(c)
    <3>1. PICK events \in Alerts[c] : todo' = [todo EXCEPT ![c] = events]
      BY <2>1 DEF Fire
    <3>2. events \in Seq(Fingerprint)
      BY CheckExecutorAssumption
    <3> QED
      BY <3>1, <3>2 DEF TypeOK
  <2>2. CASE Suppress(c) \/ Sent(c)
    <3>1. todo' = [todo EXCEPT ![c] = Tail(@)] /\ todo[c] # <<>> /\ todo[c] \in Seq(Fingerprint)
      BY <2>2 DEF Suppress, Sent, TypeOK, Duplicates, SendsInWindow
    <3>2. Tail(todo[c]) \in Seq(Fingerprint)
      BY <3>1
    <3> QED
      BY <3>1, <3>2 DEF TypeOK
  <2>3. CASE Send(c)
    BY <2>3 DEF Send, TypeOK
  <2> QED
    BY <2>1, <2>2, <2>3
<1>5. /\ Policy!TypeOK' /\ delivered' \subseteq open'
      /\ open \subseteq open'
  <2>1. CASE Fire(c)
    BY <2>1 DEF Fire, TypeOK, Policy!TypeOK
  <2>2. CASE Suppress(c)
    <3>1. /\ Head(todo[c]) \in open /\ repeating' = repeating \cup {Head(todo[c])}
          /\ open' = open /\ delivered' = delivered
      BY <2>2 DEF Suppress, Policy!Suppress
    <3> QED
      BY <3>1 DEF TypeOK, Policy!TypeOK
  <2>3. CASE Send(c)
    <3>1. /\ open' = open \cup {Head(todo[c])} /\ repeating' = repeating /\ delivered' = delivered
          /\ todo[c] # <<>> /\ todo[c] \in Seq(Fingerprint)
      BY <2>3 DEF Send, Policy!Grant, TypeOK
    <3>2. Head(todo[c]) \in Fingerprint
      BY <3>1
    <3> QED
      BY <3>1, <3>2 DEF TypeOK, Policy!TypeOK
  <2>4. CASE Sent(c)
    <3>1. UNCHANGED <<open, repeating>>
          /\ delivered' \in {delivered, delivered \cup ({Head(todo[c])} \cap open)}
      BY <2>4 DEF Sent
    <3> QED
      BY <3>1 DEF TypeOK, Policy!TypeOK
  <2> QED
    BY <2>1, <2>2, <2>3, <2>4
<1>6. TypeOK'
  BY <1>1, <1>2, <1>4, <1>5 DEF TypeOK
<1>7. Owners'
  BY <1>1, <1>2 DEF Owners, OwnerIsFirst, TypeOK, Pipeline
<1>8. Duplicates'
  <2>1. \A d \in Check \ {c} : pc'[d] = pc[d] /\ todo'[d] = todo[d]
    BY <1>1, <1>2 DEF TypeOK
  <2>2. CASE pc'[c] # "sending"
    BY <1>5, <2>1, <2>2 DEF Duplicates, SendsInWindow, NoConcurrentDuplicate
  <2>3. CASE pc'[c] = "sending"
    <3>1. Send(c)
      <4>1. ~Fire(c) /\ ~Sent(c)
        BY <2>3 DEF Fire, Sent, TypeOK
      <4>2. ~Suppress(c)
        BY <2>3 DEF Suppress
      <4> QED
        BY <4>1, <4>2
    <3>2. /\ todo' = todo /\ todo[c] # <<>>
          /\ Head(todo[c]) \notin open /\ open' = open \cup {Head(todo[c])}
      BY <3>1 DEF Send, Policy!Grant
    <3>3. SendsInWindow'
      BY <1>5, <2>1, <3>2 DEF Duplicates, SendsInWindow
    <3>4. ASSUME LongWindows PROVE NoConcurrentDuplicate'
      <4>1. \A d \in Check \ {c} : pc[d] = "sending" => Head(todo[d]) # Head(todo[c])
        BY <3>2, <3>4 DEF Duplicates, SendsInWindow
      <4> QED
        BY <2>1, <3>2, <3>4, <4>1 DEF Duplicates, NoConcurrentDuplicate
    <3> QED
      BY <3>3, <3>4 DEF Duplicates
  <2> QED
    BY <2>2, <2>3
<1> QED
  BY <1>3, <1>6, <1>7, <1>8

\* How an execution ends.
LEMMA EndOK ==
  ASSUME IInv, NEW c \in Check,
         Pass(c) \/ FetchFails(c) \/ FetchTimesOut(c) \/ Break(c) \/ Complete(c) \/ Timeout(c)
  PROVE  IInv'
<1> USE DEF Outcome, Status
<1>1. <<TRUE>> \in Seq(BOOLEAN) /\ <<FALSE>> \in Seq(BOOLEAN) /\ <<FALSE, FALSE>> \in Seq(BOOLEAN)
  OBVIOUS
<1>2. CASE Pass(c) \/ Complete(c)
  <2>1. c \in Running /\ c \in Admitted
    BY <1>2 DEF Pass, Complete, Running, Admitted
  <2>2. CASE Pass(c)
    <3>1. Ends(c, {"passed"}, <<TRUE>>, AfterReturn(MetricOf[c]))
          /\ UNCHANGED <<owner, open, repeating, delivered, batches, stopped>>
      BY <2>2 DEF Pass
    <3>2. {"passed"} \in SUBSET Status /\ "started" \notin {"passed"}
          /\ {"passed"} \cap Outcome = {"passed"} /\ "passed" \in Outcome
      OBVIOUS
    <3> QED
      BY <1>1, <2>1, <3>1, <3>2, EndsOK
  <2>3. CASE Complete(c)
    <3>1. Ends(c, {"alerted"}, <<TRUE>>, AfterReturn(MetricOf[c]))
          /\ UNCHANGED <<owner, open, repeating, delivered, batches, stopped>>
      BY <2>3 DEF Complete
    <3>2. {"alerted"} \in SUBSET Status /\ "started" \notin {"alerted"}
          /\ {"alerted"} \cap Outcome = {"alerted"} /\ "alerted" \in Outcome
      OBVIOUS
    <3> QED
      BY <1>1, <2>1, <3>1, <3>2, EndsOK
  <2> QED
    BY <1>2, <2>2, <2>3
<1>3. CASE FetchFails(c) \/ Break(c)
  <2>1. c \in Running /\ c \in Admitted
    BY <1>3 DEF FetchFails, Break, Running, Admitted
  <2>2. /\ Ends(c, {"failed"}, <<FALSE>>, AfterRaise(MetricOf[c]))
        /\ UNCHANGED <<owner, open, delivered, batches, stopped>>
        /\ repeating' \subseteq repeating
    BY <1>3 DEF FetchFails, Break, Policy!Break
  <2>3. {"failed"} \in SUBSET Status /\ "started" \notin {"failed"}
        /\ {"failed"} \cap Outcome = {"failed"} /\ "failed" \in Outcome
    OBVIOUS
  <2> QED
    BY <1>1, <2>1, <2>2, <2>3, EndsOK
<1>4. CASE FetchTimesOut(c)
  <2>1. c \in Running /\ c \in Admitted
    BY <1>4 DEF FetchTimesOut, Running, Admitted
  <2>2. /\ Ends(c, {"failed", "timeout"}, <<FALSE, FALSE>>, AfterRaise(MetricOf[c]))
        /\ UNCHANGED <<owner, open, repeating, delivered, batches, stopped>>
    BY <1>4 DEF FetchTimesOut
  <2>3. {"failed", "timeout"} \in SUBSET Status /\ "started" \notin {"failed", "timeout"}
        /\ {"failed", "timeout"} \cap Outcome = {"failed"} /\ "failed" \in Outcome
    OBVIOUS
  <2> QED
    BY <1>1, <2>1, <2>2, <2>3, EndsOK
<1>5. CASE Timeout(c)
  <2> DEFINE statuses == {"timeout"} \cup IF c \in Running THEN {"cancelled"} ELSE {}
  <2>1. /\ c \in Admitted
        /\ Ends(c, statuses, <<FALSE>>, breaker[MetricOf[c]])
        /\ UNCHANGED <<owner, open, repeating, delivered, batches, stopped>>
    BY <1>5 DEF Timeout
  <2>2. /\ statuses \in SUBSET Status /\ "started" \notin statuses
        /\ c \in Running => statuses \cap Outcome = {"cancelled"}
        /\ c \notin Running => statuses \cap Outcome = {}
        /\ "cancelled" \in Outcome
    OBVIOUS
  <2> HIDE DEF statuses
  <2> QED
    BY <1>1, <2>1, <2>2, EndsOK
<1> QED
  BY <1>2, <1>3, <1>4, <1>5

-----------------------------------------------------------------------------
LEMMA InitOK == Init => IInv
<1> SUFFICES ASSUME Init PROVE IInv
  OBVIOUS
<1>1. TypeOK
  <2>1. NewBreaker \in [state : CircuitState, failures : Nat, cooled : BOOLEAN]
    BY DEF NewBreaker, CircuitState
  <2>2. /\ <<>> \in Seq(Fingerprint) /\ <<>> \in Seq(BOOLEAN)
        /\ 0 \in 0..N /\ 0 \in 0..MaxBatches
    BY CheckExecutorAssumption
  <2>3. breaker \in [Metric -> [state : CircuitState, failures : Nat, cooled : BOOLEAN]]
    BY <2>1 DEF Init
  <2>4. \A m \in Metric : owner[m] = 0 /\ breaker[m] = NewBreaker
    BY DEF Init
  <2>5. /\ owner \in [Metric -> 0..N] /\ batches \in 0..MaxBatches
        /\ checks_total \in [Metric -> [Status -> Nat]] /\ inflight \in [Metric -> Nat]
        /\ history \in [Metric -> Seq(BOOLEAN)] /\ todo \in [Check -> Seq(Fingerprint)]
    BY <2>2 DEF Init
  <2> QED
    BY <2>3, <2>4, <2>5 DEF Init, TypeOK, Policy!Init, Policy!TypeOK
<1>2. PipelinesAccounted
  <2>1. \A m \in Metric : Running \cap ChecksOf(m) = {}
    BY DEF Init, Running
  <2>2. \A m \in Metric : Cardinality(Running \cap ChecksOf(m)) = 0
    BY <2>1, FS_EmptySet
  <2>3. \A m \in Metric : inflight[m] = 0 /\ \A s \in Status : checks_total[m][s] = 0
    BY DEF Init
  <2> QED
    BY <2>2, <2>3 DEF PipelinesAccounted, Status
<1>3. Owners
  BY DEF Init, Owners, OwnerIsFirst, ChecksOf, Check
<1>4. Duplicates
  BY DEF Init, Duplicates, SendsInWindow, NoConcurrentDuplicate
<1> QED
  BY <1>1, <1>2, <1>3, <1>4 DEF IInv

\* A new batch queues its tasks, and starts no pipeline yet.
LEMMA StartBatchOK == IInv /\ StartBatch => IInv'
<1> SUFFICES ASSUME IInv, StartBatch PROVE IInv'
  OBVIOUS
<1> USE DEF IInv
<1>1. /\ pc' = [c \in Check |-> "queued"] /\ batches' = batches + 1 /\ batches < MaxBatches
      /\ \A c \in Check : pc[c] = "idle"
      /\ UNCHANGED <<todo, owner, breaker, open, repeating, delivered,
                     checks_total, inflight, history, stopped>>
  BY DEF StartBatch
<1>2. TypeOK'
  BY <1>1, CheckExecutorAssumption DEF TypeOK, Policy!TypeOK
<1>3. PipelinesAccounted'
  <2>1. \A m \in Metric : (Running \cap ChecksOf(m))' = Running \cap ChecksOf(m)
    BY <1>1 DEF Running, ChecksOf
  <2> QED
    BY <1>1, <2>1 DEF PipelinesAccounted
<1>4. Owners' /\ Duplicates'
  BY <1>1 DEF Owners, OwnerIsFirst, ChecksOf, TypeOK, Duplicates, SendsInWindow,
              NoConcurrentDuplicate, StartBatch
<1> QED
  BY <1>2, <1>3, <1>4

\* The cancellation counts every pipeline that runs, of each metric, as it empties the gauge.
LEMMA CancelBatchOK == IInv /\ CancelBatch => IInv'
<1> SUFFICES ASSUME IInv, CancelBatch PROVE IInv'
  OBVIOUS
<1> USE DEF IInv
<1>1. /\ pc' = [c \in Check |-> "idle"] /\ todo' = [c \in Check |-> <<>>] /\ stopped' = TRUE
      /\ checks_total' =
           [m \in Metric |->
              [checks_total[m] EXCEPT !["cancelled"] = @ + Cardinality(Running \cap ChecksOf(m))]]
      /\ inflight' = [m \in Metric |-> inflight[m] - Cardinality(Running \cap ChecksOf(m))]
      /\ UNCHANGED <<owner, breaker, open, repeating, delivered, history, batches>>
  BY DEF CancelBatch
<1>2. ASSUME NEW m \in Metric
      PROVE  /\ inflight'[m] = 0
             /\ Cardinality(Running \cap ChecksOf(m))' = 0
             /\ checks_total'[m] \in [Status -> Nat]
             /\ checks_total'[m]["started"] =
                  checks_total'[m]["passed"] + checks_total'[m]["alerted"]
                  + checks_total'[m]["failed"] + checks_total'[m]["cancelled"] + inflight'[m]
  <2> DEFINE many == Cardinality(Running \cap ChecksOf(m))
  <2>1. many \in Nat /\ inflight[m] = many
    BY FinitelyMany DEF PipelinesAccounted, Running
  <2>2. checks_total[m] \in [Status -> Nat]
        /\ checks_total[m]["started"] =
             checks_total[m]["passed"] + checks_total[m]["alerted"]
             + checks_total[m]["failed"] + checks_total[m]["cancelled"] + inflight[m]
    BY DEF TypeOK, PipelinesAccounted
  <2>3. /\ checks_total'[m] = [checks_total[m] EXCEPT !["cancelled"] = @ + many]
        /\ inflight'[m] = inflight[m] - many
    BY <1>1
  <2>4. (Running \cap ChecksOf(m))' = {}
    BY <1>1 DEF Running
  <2>5. Cardinality(Running \cap ChecksOf(m))' = 0
    BY <2>4, FS_EmptySet
  <2> HIDE DEF many
  <2>6. \A s \in {"started", "passed", "alerted", "failed", "cancelled"} :
          s \in Status /\ checks_total[m][s] \in Nat
    BY <2>2 DEF Status
  <2> QED
    BY <2>1, <2>2, <2>3, <2>5, <2>6
<1>3. PipelinesAccounted'
  BY <1>2 DEF PipelinesAccounted
<1>4. checks_total' \in [Metric -> [Status -> Nat]] /\ inflight' \in [Metric -> Nat]
  <2> DEFINE total(m) ==
        [checks_total[m] EXCEPT !["cancelled"] = @ + Cardinality(Running \cap ChecksOf(m))]
  <2>1. checks_total' = [m \in Metric |-> total(m)]
    BY <1>1
  <2> HIDE DEF total
  <2>2. \A m \in Metric : total(m) \in [Status -> Nat]
    BY <1>2, <2>1
  <2>3. inflight' = [m \in Metric |-> 0]
    BY <1>1, <1>2
  <2> QED
    BY <2>1, <2>2, <2>3
<1>5. TypeOK'
  <2>1. <<>> \in Seq(Fingerprint)
    OBVIOUS
  <2> QED
    BY <1>1, <1>4, <2>1 DEF TypeOK, Policy!TypeOK
<1>6. Owners' /\ Duplicates'
  BY <1>1 DEF Owners, OwnerIsFirst, ChecksOf, TypeOK, Duplicates, SendsInWindow, NoConcurrentDuplicate
<1> QED
  BY <1>3, <1>5, <1>6

\* Time passes for a breaker, or for a window.
LEMMA TimeOK ==
  ASSUME IInv, (\E m \in Metric : Elapse(m)) \/ (\E f \in Fingerprint : WindowEnds(f))
  PROVE  IInv'
<1> USE DEF IInv
<1>1. /\ UNCHANGED <<pc, todo, owner, checks_total, inflight, history, batches, stopped>>
      /\ Owners'
  <2>1. UNCHANGED <<pc, todo, owner, checks_total, inflight, history, batches, stopped>>
    BY DEF Elapse, WindowEnds
  <2> QED
    BY <2>1 DEF Owners, OwnerIsFirst, ChecksOf
<1>2. PipelinesAccounted'
  <2>1. \A m \in Metric : (Running \cap ChecksOf(m))' = Running \cap ChecksOf(m)
    BY <1>1 DEF Running, ChecksOf
  <2> QED
    BY <1>1, <2>1 DEF PipelinesAccounted
<1>3. CASE \E m \in Metric : Elapse(m)
  <2>1. PICK m \in Metric : Elapse(m)
    BY <1>3
  <2>2. /\ breaker' = [breaker EXCEPT ![m] = CooledDown(@)] /\ breaker[m].state = "OPEN"
        /\ UNCHANGED <<open, repeating, delivered>>
    BY <2>1 DEF Elapse, Cooling
  <2>3. owner[m] # 0
    BY <2>2 DEF TypeOK, NewBreaker
  <2>4. CooledDown(breaker[m]) \in Breaker(Resilience[owner[m]].failure_threshold)
    BY <2>3, Settings, CooledDownBreaker
  <2>5. breaker' \in [Metric -> [state : CircuitState, failures : Nat, cooled : BOOLEAN]]
    BY <2>2, <2>3, <2>4, Settings, AnyBreaker DEF TypeOK
  <2>6. \A n \in Metric :
          IF owner'[n] = 0 THEN breaker'[n] = NewBreaker
          ELSE breaker'[n] \in Breaker(Resilience[owner'[n]].failure_threshold)
    BY <1>1, <2>2, <2>3, <2>4 DEF TypeOK
  <2>7. TypeOK'
    BY <1>1, <2>2, <2>5, <2>6 DEF TypeOK, Policy!TypeOK
  <2>8. Duplicates'
    BY <1>1, <2>2 DEF Duplicates, SendsInWindow, NoConcurrentDuplicate
  <2> QED
    BY <1>1, <1>2, <2>7, <2>8
<1>4. CASE \E f \in Fingerprint : WindowEnds(f)
  <2>1. PICK f \in Fingerprint : WindowEnds(f)
    BY <1>4
  <2>2. /\ open' = open \ {f} /\ delivered' = delivered \ {f}
        /\ UNCHANGED <<breaker, repeating>>
        /\ LongWindows => f \notin Sending
    BY <2>1 DEF WindowEnds, Policy!Expire
  <2>3. TypeOK'
    BY <1>1, <2>2 DEF TypeOK, Policy!TypeOK
  <2>4. Duplicates'
    BY <1>1, <2>2 DEF Duplicates, SendsInWindow, NoConcurrentDuplicate, Sending
  <2> QED
    BY <1>1, <1>2, <2>3, <2>4
<1> QED
  BY <1>3, <1>4

LEMMA NextOK == IInv /\ [Next]_vars => IInv'
<1> SUFFICES ASSUME IInv, [Next]_vars PROVE IInv'
  OBVIOUS
<1>1. CASE \E c \in Check : Step(c)
  <2>1. PICK c \in Check : Step(c)
    BY <1>1
  <2> QED
    BY <2>1, LetInOK, InsideOK, EndOK DEF Step
<1>2. CASE UNCHANGED vars
  <2>1. TypeOK'
    BY <1>2 DEF vars, IInv, TypeOK, Policy!TypeOK
  <2>2. PipelinesAccounted'
    <3>1. Running' = Running
      BY <1>2 DEF vars, Running
    <3> QED
      BY <1>2, <3>1 DEF vars, IInv, PipelinesAccounted, ChecksOf
  <2>3. Owners' /\ Duplicates'
    BY <1>2 DEF vars, IInv, Owners, OwnerIsFirst, ChecksOf, Duplicates, SendsInWindow, NoConcurrentDuplicate
  <2> QED
    BY <2>1, <2>2, <2>3 DEF IInv
<1> QED
  BY <1>1, <1>2, StartBatchOK, CancelBatchOK, TimeOK DEF Next, Finished

LEMMA AlwaysIInv == Spec => []IInv
  BY InitOK, NextOK, PTL DEF Spec

-----------------------------------------------------------------------------
\* The state has its type: every breaker in use is one of the settings it was made from, and
\* neither the gauge nor a total ever goes below zero
\* (src/engine/executor.py:112-317, runtime/resilience.py:80-98).
THEOREM TypeCorrect == Spec => []TypeOK
<1>1. IInv => TypeOK
  BY DEF IInv
<1> QED
  BY <1>1, AlwaysIInv, PTL

\* No pipeline is lost between the totals and the gauge, for any list of checks and whatever
\* ends them (src/engine/executor.py:122-124, 172-174, 237-269).
THEOREM NoPipelineLost == Spec => []PipelinesAccounted
<1>1. IInv => PipelinesAccounted
  BY DEF IInv
<1> QED
  BY <1>1, AlwaysIInv, PTL

\* The settings of a metric_id are those of its first check, for any list
\* (runtime/resilience.py:82-98, src/engine/executor.py:120, 304-310).
THEOREM FirstOwns == Spec => []OwnerIsFirst
<1>1. IInv => OwnerIsFirst
  BY DEF IInv, Owners
<1> QED
  BY <1>1, AlwaysIInv, PTL

\* If windows outlast executions, no alert is being sent twice at once, whoever raises it
\* (src/core/policies.py:51, src/engine/executor.py:194-226).
THEOREM NeverTwiceAtOnce == ASSUME LongWindows PROVE Spec => []NoConcurrentDuplicate
<1>1. IInv => NoConcurrentDuplicate
  BY DEF IInv, Duplicates
<1> QED
  BY <1>1, AlwaysIInv, PTL

\* The executor keeps to the order of Batch, whatever its checks do. This is
\* ImplementsBatch without its fairness
\* (src/engine/scheduler.py:41-68, src/engine/executor.py:309-317).
THEOREM BatchesInOrder == Spec => Batches!Init /\ [][Batches!Next]_(Batches!vars)
<1> DEFINE unended == {c \in Check : pc[c] # "idle"}
<1>1. Init => Batches!Init
  BY DEF Init, Batches!Init
<1>2. IInv /\ [Next]_vars => [Batches!Next]_(Batches!vars)
  <2> SUFFICES ASSUME IInv, [Next]_vars PROVE [Batches!Next]_(Batches!vars)
    OBVIOUS
  <2> USE DEF Batches!Next, Batches!vars
  <2>1. CASE StartBatch
    BY <2>1 DEF StartBatch, Batches!Start
  <2>2. CASE CancelBatch
    <3>1. unended' = {} /\ ~stopped /\ stopped' = TRUE
      BY <2>2 DEF CancelBatch
    <3> QED
      BY <3>1 DEF Batches!Cancel
  <2>3. CASE \E c \in Check : Step(c)
    <3>1. PICK c \in Check : Step(c)
      BY <2>3
    <3>2. /\ pc[c] # "idle" /\ stopped' = stopped
          /\ \E place : pc' = [pc EXCEPT ![c] = place]
      <4>1. CASE Suppress(c)
        <5>1. pc' = [pc EXCEPT ![c] = pc[c]]
          BY <4>1 DEF Suppress, IInv, TypeOK
        <5> QED
          BY <4>1, <5>1 DEF Suppress
      <4>2. CASE Enter(c) \/ PassGate(c)
        BY <4>2 DEF Enter, PassGate, Starts
      <4>3. CASE Fire(c) \/ Send(c) \/ Sent(c)
        BY <4>3 DEF Fire, Send, Sent
      <4>4. CASE Pass(c) \/ FetchFails(c) \/ FetchTimesOut(c) \/ Break(c) \/ Complete(c) \/ Timeout(c)
        BY <4>4 DEF Pass, FetchFails, FetchTimesOut, Break, Complete, Timeout, Ends,
                    Admitted, Gated, Running
      <4> QED
        BY <3>1, <4>1, <4>2, <4>3, <4>4 DEF Step
    <3>3. unended' \subseteq unended
      BY <3>2 DEF IInv, TypeOK
    <3> QED
      BY <3>2, <3>3 DEF Batches!End
  <2>4. CASE (\E m \in Metric : Elapse(m)) \/ (\E f \in Fingerprint : WindowEnds(f)) \/ UNCHANGED vars
    BY <2>4 DEF Elapse, WindowEnds, vars
  <2> QED
    BY <2>1, <2>2, <2>3, <2>4 DEF Next, Finished
<1> QED
  BY <1>1, <1>2, AlwaysIInv, PTL DEF Spec

-----------------------------------------------------------------------------
First(m) == CHOOSE c \in ChecksOf(m) : \A d \in ChecksOf(m) : c =< d

\* Where the callers of metric m are, in the eyes of its CheckResilience.
View(m) == [c \in ChecksOf(m) |-> IF pc[c] \in {"idle", "queued"} THEN "idle"
                                  ELSE IF pc[c] = "gated" THEN "waiting" ELSE "running"]

LEMMA ViewMoves ==
  ASSUME TypeOK, NEW m \in Metric, NEW c \in ChecksOf(m), NEW place, pc' = [pc EXCEPT ![c] = place]
  PROVE  /\ place = "idle" => View(m)' = [View(m) EXCEPT ![c] = "idle"]
         /\ place = "gated" => View(m)' = [View(m) EXCEPT ![c] = "waiting"]
         /\ place \in Pipeline => View(m)' = [View(m) EXCEPT ![c] = "running"]
BY DEF TypeOK, View, ChecksOf, Pipeline

\* A step of a check's task moves no other task and no other metric's breaker.
LEMMA StepIsLocal ==
  ASSUME TypeOK, NEW c \in Check, Step(c)
  PROVE  /\ \A d \in Check \ {c} : pc'[d] = pc[d]
         /\ \A m \in Metric \ {MetricOf[c]} : breaker'[m] = breaker[m]
<1>1. (\E place : pc' = [pc EXCEPT ![c] = place])
      /\ (\E b : breaker' = [breaker EXCEPT ![MetricOf[c]] = b])
  <2>1. pc = [pc EXCEPT ![c] = pc[c]] /\ breaker = [breaker EXCEPT ![MetricOf[c]] = breaker[MetricOf[c]]]
    BY DEF TypeOK
  <2>2. CASE Enter(c) \/ PassGate(c)
    BY <2>1, <2>2 DEF Enter, PassGate, Starts
  <2>3. CASE Fire(c) \/ Suppress(c) \/ Send(c) \/ Sent(c)
    BY <2>1, <2>3 DEF Fire, Suppress, Send, Sent
  <2>4. CASE Pass(c) \/ FetchFails(c) \/ FetchTimesOut(c) \/ Break(c) \/ Complete(c) \/ Timeout(c)
    BY <2>4 DEF Pass, FetchFails, FetchTimesOut, Break, Complete, Timeout, Ends
  <2> QED
    BY <2>2, <2>3, <2>4 DEF Step
<1> QED
  BY <1>1 DEF TypeOK

\* Where the tasks are, in the eyes of the CheckResilience.
LEMMA ViewOf ==
  ASSUME TypeOK, NEW m \in Metric, NEW c \in ChecksOf(m)
  PROVE  /\ pc[c] = "queued" => View(m)[c] = "idle"
         /\ pc[c] = "gated" => View(m)[c] = "waiting"
         /\ pc[c] \in Pipeline => View(m)[c] = "running"
BY DEF TypeOK, View, ChecksOf, Pipeline

\* There is one first check.
LEMMA FirstIsLeast ==
  ASSUME NEW m \in Metric, NEW o \in ChecksOf(m), \A d \in ChecksOf(m) : o =< d
  PROVE  First(m) = o
<1>1. First(m) \in ChecksOf(m) /\ \A d \in ChecksOf(m) : First(m) =< d
  BY DEF First
<1>2. First(m) =< o /\ o =< First(m) /\ First(m) \in Nat /\ o \in Nat
  BY <1>1 DEF ChecksOf, Check
<1> QED
  BY <1>2

LEMMA SharedSets ==
  ASSUME TypeOK, NEW m \in Metric
  PROVE  /\ Shared(m)!Running = Running \cap ChecksOf(m)
         /\ Shared(m)!Waiting = Gated \cap ChecksOf(m)
BY DEF Shared!Running, Shared!Waiting, Running, Gated, ChecksOf, TypeOK

\* The permits and the entry of the CheckResilience, said of the executor's state.
LEMMA SharedEntry ==
  ASSUME TypeOK, NEW m \in Metric, NEW c \in ChecksOf(m),
         First(m) \in Check, First(m) = owner'[m]
  PROVE  /\ Shared(m)!PermitFree <=> PermitFree(m, owner'[m])
         /\ Shared(m)!Start(c) <=>
              IF Resilience[owner'[m]].enabled /\ Refuses(breaker[m])
                THEN /\ View(m)' = [View(m) EXCEPT ![c] = "idle"]
                     /\ breaker'[m] = breaker[m]
                ELSE /\ View(m)' = [View(m) EXCEPT ![c] = "running"]
                     /\ breaker'[m] = IF Resilience[owner'[m]].enabled THEN Admit(breaker[m]) ELSE breaker[m]
<1>1. Shared(m)!PermitFree <=> PermitFree(m, owner'[m])
  <2>1. Shared(m)!Cardinality(Shared(m)!Running) = Cardinality(Shared(m)!Running)
    BY DEF Shared!Cardinality, Cardinality
  <2>2. Shared(m)!PermitFree <=> Cardinality(Shared(m)!Running) < Resilience[First(m)].max_inflight
    BY <2>1 DEF Shared!PermitFree, First
  <2> QED
    BY <2>2, SharedSets DEF PermitFree
<1>2. Shared(m)!Start(c) <=>
        IF Resilience[First(m)].enabled /\ Refuses(breaker[m])
          THEN /\ View(m)' = [View(m) EXCEPT ![c] = "idle"]
               /\ breaker'[m] = breaker[m]
          ELSE /\ View(m)' = [View(m) EXCEPT ![c] = "running"]
               /\ breaker'[m] = IF Resilience[First(m)].enabled THEN Admit(breaker[m]) ELSE breaker[m]
  BY DEF Shared!Start, Shared!Refuses, Shared!Admit, Refuses, Admit, View, First
<1> QED
  BY <1>1, <1>2

\* The other steps of the CheckResilience, likewise.
LEMMA SharedEnds ==
  ASSUME NEW m \in Metric, NEW c \in ChecksOf(m),
         View(m)' = [View(m) EXCEPT ![c] = "idle"]
  PROVE  /\ View(m)[c] = "running" /\ First(m) = owner[m] /\ breaker'[m] = AfterReturn(m)
              => Shared(m)!Return(c)
         /\ View(m)[c] = "running" /\ First(m) = owner[m] /\ breaker'[m] = AfterRaise(m)
              => Shared(m)!Raise(c)
<1>1. ASSUME View(m)[c] = "running", First(m) = owner[m], breaker'[m] = AfterReturn(m)
      PROVE  Shared(m)!Return(c)
  BY <1>1 DEF Shared!Return, Shared!Succeed, Shared!NewBreaker, Succeed, NewBreaker, AfterReturn, View, First
<1>2. ASSUME View(m)[c] = "running", First(m) = owner[m], breaker'[m] = AfterRaise(m)
      PROVE  Shared(m)!Raise(c)
  BY <1>2 DEF Shared!Raise, Shared!Fail, Shared!Opened, Shared!OneMoreFailure,
              Fail, Opened, OneMoreFailure, AfterRaise, View, First
<1> QED
  BY <1>1, <1>2

LEMMA SharedCancel ==
  ASSUME TypeOK, NEW m \in Metric, NEW S \in SUBSET (Admitted \cap ChecksOf(m)), S # {},
         View(m)' = [c \in ChecksOf(m) |-> IF c \in S THEN "idle" ELSE View(m)[c]],
         breaker'[m] = breaker[m]
  PROVE  \E T \in SUBSET ChecksOf(m) : Shared(m)!Cancel(T)
<1>1. S \subseteq Shared(m)!Waiting \cup Shared(m)!Running
  BY SharedSets DEF Admitted
<1>2. Shared(m)!Cancel(S)
  BY <1>1 DEF Shared!Cancel, View
<1> QED
  BY <1>2

\* Every step of a check's task is, for its metric, a step of its CheckResilience or none.
LEMMA SharedStep ==
  ASSUME IInv, IInv', NEW m \in Metric, NEW c \in ChecksOf(m), Step(c)
  PROVE  \/ \E d \in ChecksOf(m) :
              Shared(m)!Call(d) \/ Shared(m)!Acquire(d) \/ Shared(m)!Return(d) \/ Shared(m)!Raise(d)
         \/ \E S \in SUBSET ChecksOf(m) : Shared(m)!Cancel(S)
         \/ View(m)' = View(m) /\ breaker'[m] = breaker[m]
<1> USE DEF IInv
<1>1. c \in Check /\ MetricOf[c] = m
  BY DEF ChecksOf
<1>2. \A o \in {owner[m], owner'[m]} : o # 0 => First(m) = o /\ o \in Check
  <2>1. \A o \in {owner[m], owner'[m]} : o # 0 => o \in ChecksOf(m) /\ \A d \in ChecksOf(m) : o =< d
    BY DEF Owners, OwnerIsFirst, ChecksOf
  <2> QED
    BY <2>1, FirstIsLeast DEF ChecksOf
<1>3. CASE Enter(c) \/ PassGate(c)
  <2>1. owner'[m] # 0
    <3>1. CASE Enter(c)
      BY <1>1, <3>1 DEF Enter, TypeOK, Check
    <3>2. CASE PassGate(c)
      BY <1>1, <3>2, AdmittedIsOwned DEF PassGate
    <3> QED
      BY <1>3, <3>1, <3>2
  <2>2. /\ Shared(m)!PermitFree <=> PermitFree(m, owner'[m])
        /\ Starts(c, breaker[m]) => Shared(m)!Start(c)
    <3>1. First(m) \in Check /\ First(m) = owner'[m]
      BY <1>2, <2>1
    <3>2. /\ pc' = [pc EXCEPT ![c] = "idle"] => View(m)' = [View(m) EXCEPT ![c] = "idle"]
          /\ pc' = [pc EXCEPT ![c] = "fetching"] => View(m)' = [View(m) EXCEPT ![c] = "running"]
      BY ViewMoves DEF Pipeline
    <3>3. ASSUME Starts(c, breaker[m])
          PROVE  IF Resilience[owner'[m]].enabled /\ Refuses(breaker[m])
                   THEN /\ View(m)' = [View(m) EXCEPT ![c] = "idle"]
                        /\ breaker'[m] = breaker[m]
                   ELSE /\ View(m)' = [View(m) EXCEPT ![c] = "running"]
                        /\ breaker'[m] = IF Resilience[owner'[m]].enabled THEN Admit(breaker[m])
                                         ELSE breaker[m]
      BY <1>1, <3>2, <3>3 DEF Starts, TypeOK
    <3> QED
      BY <3>1, <3>3, SharedEntry
  <2>3. CASE Enter(c)
    <3>1. View(m)[c] = "idle"
      BY <2>3, ViewOf DEF Enter
    <3>2. IF Shared(m)!Waiting = {} /\ Shared(m)!PermitFree
            THEN Shared(m)!Start(c)
            ELSE View(m)' = [View(m) EXCEPT ![c] = "waiting"] /\ breaker'[m] = breaker[m]
      <4>1. pc' = [pc EXCEPT ![c] = "gated"] => View(m)' = [View(m) EXCEPT ![c] = "waiting"]
        BY ViewMoves
      <4> QED
        BY <1>1, <2>2, <2>3, <4>1, SharedSets DEF Enter
    <3>3. Shared(m)!Call(c)
      BY <3>1, <3>2 DEF Shared!Call, View
    <3> QED
      BY <3>3
  <2>4. CASE PassGate(c)
    <3>1. View(m)[c] = "waiting" /\ Shared(m)!PermitFree /\ Shared(m)!Start(c)
      BY <1>1, <2>2, <2>4, ViewOf DEF PassGate
    <3>2. Shared(m)!Acquire(c)
      BY <3>1 DEF Shared!Acquire, View
    <3> QED
      BY <3>2
  <2> QED
    BY <1>3, <2>3, <2>4
<1>4. CASE Fire(c) \/ Suppress(c) \/ Send(c) \/ Sent(c)
  <2>1. breaker' = breaker /\ \E place \in Pipeline : pc' = [pc EXCEPT ![c] = place]
    <3>1. CASE Suppress(c)
      <4>1. pc' = [pc EXCEPT ![c] = "deciding"]
        BY <3>1 DEF Suppress, TypeOK
      <4> QED
        BY <3>1, <4>1 DEF Suppress, Pipeline
    <3> QED
      BY <1>4, <3>1 DEF Fire, Send, Sent, Pipeline
  <2>2. pc[c] \in Pipeline
    BY <1>4 DEF Fire, Suppress, Send, Sent, Pipeline
  <2>3. View(m)' = [View(m) EXCEPT ![c] = "running"] /\ View(m)[c] = "running"
    BY <2>1, <2>2, ViewMoves, ViewOf
  <2>4. View(m)' = View(m)
    BY <2>3 DEF View
  <2> QED
    BY <2>1, <2>4
<1>5. CASE Pass(c) \/ Complete(c) \/ FetchFails(c) \/ FetchTimesOut(c) \/ Break(c)
  <2>1. pc[c] \in Pipeline /\ pc' = [pc EXCEPT ![c] = "idle"]
        /\ breaker' \in {[breaker EXCEPT ![m] = AfterReturn(m)], [breaker EXCEPT ![m] = AfterRaise(m)]}
    BY <1>1, <1>5 DEF Pass, Complete, FetchFails, FetchTimesOut, Break, Ends, Pipeline
  <2>2. View(m)[c] = "running" /\ View(m)' = [View(m) EXCEPT ![c] = "idle"]
    BY <2>1, ViewMoves, ViewOf
  <2>3. First(m) = owner[m]
    BY <1>1, <1>2, <2>1, AdmittedIsOwned DEF Pipeline
  <2>4. breaker'[m] = AfterReturn(m) \/ breaker'[m] = AfterRaise(m)
    BY <2>1 DEF TypeOK
  <2> QED
    BY <2>2, <2>3, <2>4, SharedEnds
<1>6. CASE Timeout(c)
  <2>1. c \in Admitted /\ pc' = [pc EXCEPT ![c] = "idle"] /\ breaker' = [breaker EXCEPT ![m] = breaker[m]]
    BY <1>1, <1>6 DEF Timeout, Ends
  <2>2. View(m)' = [View(m) EXCEPT ![c] = "idle"] /\ breaker'[m] = breaker[m]
    BY <2>1, ViewMoves DEF TypeOK
  <2>3. View(m)' = [d \in ChecksOf(m) |-> IF d \in {c} THEN "idle" ELSE View(m)[d]]
    BY <2>2 DEF View
  <2>4. {c} \in SUBSET (Admitted \cap ChecksOf(m)) /\ {c} # {}
    BY <2>1
  <2> QED
    BY <2>2, <2>3, <2>4, SharedCancel
<1> QED
  BY <1>3, <1>4, <1>5, <1>6 DEF Step

\* Each metric's share of the executor implements a CheckResilience under the settings of its
\* first check, for any list of checks: what is proved of the one object holds of each
\* (src/engine/executor.py:120, 273-276, runtime/resilience.py:82-98).
THEOREM SharesAreCheckResilience == Spec => ImplementsCheckResilience
<1>1. Init => \A m \in Metric : Shared(m)!Init
  BY DEF Init, Shared!Init, Shared!NewBreaker, NewBreaker, ChecksOf
<1>2. IInv /\ IInv' /\ [Next]_vars => [\A m \in Metric : [Shared(m)!Next]_(Shared(m)!vars)]_vars
  <2> SUFFICES ASSUME IInv, IInv', [Next]_vars, NEW m \in Metric
               PROVE  Shared(m)!Next \/ (View(m)' = View(m) /\ breaker'[m] = breaker[m])
    BY DEF Shared!vars, View
  <2> USE DEF IInv
  <2>1. CASE \E c \in Check : Step(c)
    <3>1. PICK c \in Check : Step(c)
      BY <2>1
    <3>2. CASE c \in ChecksOf(m)
      BY <3>1, <3>2, SharedStep DEF Shared!Next
    <3>3. CASE c \notin ChecksOf(m)
      <4>1. breaker'[m] = breaker[m] /\ \A d \in ChecksOf(m) : pc'[d] = pc[d]
        BY <3>1, <3>3, StepIsLocal DEF ChecksOf
      <4> QED
        BY <4>1 DEF View
    <3> QED
      BY <3>2, <3>3
  <2>2. CASE StartBatch
    BY <2>2 DEF StartBatch, View, ChecksOf
  <2>3. CASE CancelBatch
    <3> DEFINE S == Admitted \cap ChecksOf(m)
    <3>1. pc' = [c \in Check |-> "idle"] /\ breaker' = breaker
      BY <2>3 DEF CancelBatch
    <3>2. View(m)' = [c \in ChecksOf(m) |-> IF c \in S THEN "idle" ELSE View(m)[c]]
      BY <3>1 DEF View, Admitted, Gated, Running, ChecksOf, TypeOK
    <3>3. CASE S = {}
      <4>1. View(m)' = View(m)
        BY <3>2, <3>3 DEF View
      <4> QED
        BY <3>1, <4>1
    <3>4. CASE S # {}
      BY <3>1, <3>2, <3>4, SharedCancel DEF Shared!Next
    <3> QED
      BY <3>3, <3>4
  <2>4. CASE \E n \in Metric : Elapse(n)
    <3>1. PICK n \in Metric : Elapse(n)
      BY <2>4
    <3>2. pc' = pc /\ breaker' = [breaker EXCEPT ![n] = CooledDown(@)] /\ Cooling(breaker[n])
      BY <3>1 DEF Elapse
    <3>3. View(m)' = View(m)
      BY <3>2 DEF View
    <3>4. CASE n = m
      <4>1. Shared(m)!Elapse
        BY <3>2, <3>3, <3>4 DEF Shared!Elapse, Shared!Cooling, Shared!CooledDown, Cooling, CooledDown,
                                View, TypeOK
      <4> QED
        BY <4>1 DEF Shared!Next
    <3>5. CASE n # m
      BY <3>2, <3>3, <3>5 DEF TypeOK
    <3> QED
      BY <3>4, <3>5
  <2>5. CASE (\E f \in Fingerprint : WindowEnds(f)) \/ UNCHANGED vars
    BY <2>5 DEF WindowEnds, vars, View
  <2> QED
    BY <2>1, <2>2, <2>3, <2>4, <2>5 DEF Next, Finished
<1> QED
  BY <1>1, <1>2, AlwaysIInv, PTL DEF Spec, ImplementsCheckResilience

-----------------------------------------------------------------------------
\* A metric_id of one check has no execution in flight while its circuit is open; and where
\* circuit breakers are disabled, none is ever touched.
Solo ==
  \A m \in Metric : Cardinality(ChecksOf(m)) = 1 =>
    \A c \in ChecksOf(m) : pc[c] \in Pipeline => breaker[m].state # "OPEN"

Untouched ==
  \A m \in Metric : owner[m] # 0 /\ ~Resilience[owner[m]].enabled => breaker[m] = NewBreaker

\* How the breaker moves with the step of its check's task.
LEMMA BreakerStep ==
  ASSUME IInv, IInv', Untouched, NEW c \in Check, Step(c), NEW m \in Metric, m = MetricOf[c]
  PROVE  /\ owner'[m] # 0 /\ ~Resilience[owner'[m]].enabled => breaker'[m] = NewBreaker
         /\ pc'[c] \in Pipeline /\ pc[c] \notin Pipeline => breaker'[m].state # "OPEN"
         /\ (pc'[c] \in Pipeline <=> pc[c] \in Pipeline) => breaker'[m] = breaker[m]
         /\ pc[c] \notin Pipeline /\ breaker[m].state = "OPEN" /\ breaker'[m].state # "OPEN" =>
              breaker[m].cooled /\ breaker'[m].state = "HALF_OPEN"
<1> USE DEF IInv
<1>1. CASE Enter(c) \/ PassGate(c)
  <2>1. /\ pc[c] \notin Pipeline
        /\ breaker[m].state \in CircuitState /\ breaker[m].cooled \in BOOLEAN
    BY <1>1 DEF Enter, PassGate, Pipeline, TypeOK
  <2>2. owner[m] # 0 => owner'[m] = owner[m]
    BY <1>1 DEF Enter, PassGate, TypeOK
  <2>3. owner'[m] # 0 /\ ~Resilience[owner'[m]].enabled => breaker[m] = NewBreaker
    BY <2>2 DEF Untouched, TypeOK
  <2>4. owner'[m] # 0
    <3>1. CASE Enter(c)
      BY <3>1 DEF Enter, TypeOK, Check
    <3>2. CASE PassGate(c)
      BY <3>2, AdmittedIsOwned DEF PassGate
    <3> QED
      BY <1>1, <3>1, <3>2
  <2>5. \/ breaker'[m] = breaker[m] /\ pc'[c] \in {"idle", "gated"}
        \/ /\ pc'[c] = "fetching"
           /\ ~(Resilience[owner'[m]].enabled /\ Refuses(breaker[m]))
           /\ breaker'[m] = IF Resilience[owner'[m]].enabled THEN Admit(breaker[m]) ELSE breaker[m]
    <3>1. \/ Starts(c, breaker[m])
          \/ pc' = [pc EXCEPT ![c] = "gated"] /\ UNCHANGED breaker
      BY <1>1 DEF Enter, PassGate
    <3>2. CASE Starts(c, breaker[m])
      BY <3>2 DEF Starts, TypeOK
    <3>3. CASE pc' = [pc EXCEPT ![c] = "gated"] /\ UNCHANGED breaker
      BY <3>3 DEF TypeOK
    <3> QED
      BY <3>1, <3>2, <3>3
  <2>6. breaker[m].state \in CircuitState => Admit(breaker[m]).state = IF breaker[m].state = "OPEN" THEN "HALF_OPEN" ELSE breaker[m].state
    BY DEF Admit, TypeOK
  <2>7. NewBreaker.state = "CLOSED"
    BY DEF NewBreaker
  <2>8. "idle" \notin Pipeline /\ "gated" \notin Pipeline /\ "fetching" \in Pipeline
    BY DEF Pipeline
  <2> QED
    BY <2>1, <2>3, <2>4, <2>5, <2>6, <2>7, <2>8 DEF Refuses
<1>2. CASE Fire(c) \/ Suppress(c) \/ Send(c) \/ Sent(c)
  <2>1. pc[c] \in Pipeline /\ breaker' = breaker /\ owner' = owner
    BY <1>2 DEF Fire, Suppress, Send, Sent, Pipeline
  <2> QED
    BY <2>1 DEF Untouched
<1>3. CASE Pass(c) \/ FetchFails(c) \/ FetchTimesOut(c) \/ Break(c) \/ Complete(c) \/ Timeout(c)
  <2>1. /\ pc'[c] = "idle" /\ owner' = owner
        /\ breaker'[m] \in {AfterReturn(m), AfterRaise(m), breaker[m]}
        /\ pc[c] \notin Pipeline => breaker'[m] = breaker[m]
    BY <1>3 DEF Pass, FetchFails, FetchTimesOut, Break, Complete, Timeout, Ends, Pipeline, TypeOK
  <2>2. owner[m] # 0 /\ ~Resilience[owner[m]].enabled => breaker'[m] = breaker[m]
    BY <2>1 DEF AfterReturn, AfterRaise
  <2> QED
    BY <2>1, <2>2 DEF Untouched, Pipeline
<1> QED
  BY <1>1, <1>2, <1>3 DEF Step

\* One check is one.
LEMMA OneCheck ==
  ASSUME NEW m \in Metric, Cardinality(ChecksOf(m)) = 1, NEW c \in ChecksOf(m), NEW d \in ChecksOf(m)
  PROVE  c = d
<1>1. IsFiniteSet(ChecksOf(m))
  BY FinitelyMany DEF ChecksOf
<1>2. \E x : ChecksOf(m) = {x}
  BY <1>1, FS_Singleton
<1> QED
  BY <1>2

LEMMA SoloOK == IInv /\ IInv' /\ Solo /\ Untouched /\ [Next]_vars => Solo' /\ Untouched'
<1> SUFFICES ASSUME IInv, IInv', Solo, Untouched, [Next]_vars PROVE Solo' /\ Untouched'
  OBVIOUS
<1> USE DEF IInv
<1>1. CASE \E c \in Check : Step(c)
  <2>1. PICK c \in Check : Step(c)
    BY <1>1
  <2>2. MetricOf[c] \in Metric
    BY CheckExecutorAssumption
  <2>3. \A m \in Metric \ {MetricOf[c]} : breaker'[m] = breaker[m] /\ owner'[m] = owner[m]
                                           /\ \A d \in ChecksOf(m) : pc'[d] = pc[d]
    <3>1. \A m \in Metric \ {MetricOf[c]} : owner'[m] = owner[m]
      BY <2>1, <2>2 DEF Step, Enter, PassGate, Pass, Fire, FetchFails, FetchTimesOut, Suppress, Send,
                        Break, Sent, Complete, Timeout, TypeOK
    <3> QED
      BY <2>1, <3>1, StepIsLocal DEF ChecksOf
  <2>4. Untouched'
    <3> SUFFICES ASSUME NEW m \in Metric, owner'[m] # 0, ~Resilience[owner'[m]].enabled
                 PROVE  breaker'[m] = NewBreaker
      BY DEF Untouched
    <3> QED
      BY <2>1, <2>3, BreakerStep DEF Untouched
  <2>5. Solo'
    <3> SUFFICES ASSUME NEW m \in Metric, Cardinality(ChecksOf(m)) = 1,
                        NEW d \in ChecksOf(m), pc'[d] \in Pipeline
                 PROVE  breaker'[m].state # "OPEN"
      BY DEF Solo, ChecksOf
    <3>1. CASE m # MetricOf[c]
      BY <2>3, <3>1 DEF Solo
    <3>2. CASE m = MetricOf[c]
      <4>1. d = c
        BY <3>2, OneCheck DEF ChecksOf
      <4> QED
        BY <2>1, <3>2, <4>1, BreakerStep DEF Solo
    <3> QED
      BY <3>1, <3>2
  <2> QED
    BY <2>4, <2>5
<1>2. CASE \E n \in Metric : Elapse(n)
  <2>1. PICK n \in Metric : Elapse(n)
    BY <1>2
  <2>2. /\ UNCHANGED <<pc, owner>> /\ breaker[n].state = "OPEN"
        /\ \A m \in Metric \ {n} : breaker'[m] = breaker[m]
        /\ breaker'[n].state = "OPEN"
    BY <2>1 DEF Elapse, Cooling, CooledDown, TypeOK
  <2>3. NewBreaker.state # "OPEN"
    BY DEF NewBreaker
  <2>4. Untouched'
    BY <2>2, <2>3 DEF Untouched
  <2>5. \A m \in Metric : breaker'[m].state = breaker[m].state
    BY <2>2
  <2>6. Solo'
    BY <2>2, <2>5 DEF Solo, ChecksOf
  <2> QED
    BY <2>4, <2>6
<1>3. CASE StartBatch \/ CancelBatch
  <2>1. /\ UNCHANGED <<owner, breaker>>
        /\ \A c \in Check : pc'[c] \notin Pipeline
    BY <1>3 DEF StartBatch, CancelBatch, Pipeline
  <2> QED
    BY <2>1 DEF Solo, Untouched, ChecksOf
<1>4. CASE (\E f \in Fingerprint : WindowEnds(f)) \/ UNCHANGED vars
  <2>1. UNCHANGED <<pc, owner, breaker>>
    BY <1>4 DEF WindowEnds, vars
  <2> QED
    BY <2>1 DEF Solo, Untouched, ChecksOf
<1> QED
  BY <1>1, <1>2, <1>3, <1>4 DEF Next, Finished

\* With a metric_id of its own, a check's open circuit is left only by a trial after the reset
\* timeout, for any max_inflight and any other checks
\* (src/engine/scheduler.py:46, src/engine/executor.py:304-310, runtime/resilience.py:28-51).
THEOREM UniqueClosesThroughTrial == Spec => CircuitClosesThroughTrial
<1>1. Init => Solo /\ Untouched
  BY DEF Init, Solo, Untouched, Pipeline, ChecksOf
<1>2. IInv /\ IInv' /\ Solo /\ Untouched /\ [Next]_vars =>
        [\A m \in {MetricOf[c] : c \in Check} :
           Cardinality(ChecksOf(m)) = 1 /\ breaker[m].state = "OPEN" /\ breaker'[m].state # "OPEN" =>
             breaker[m].cooled /\ breaker'[m].state = "HALF_OPEN"]_vars
  <2> SUFFICES ASSUME IInv, IInv', Solo, Untouched, [Next]_vars, NEW m \in Metric,
                      Cardinality(ChecksOf(m)) = 1, breaker[m].state = "OPEN", breaker'[m].state # "OPEN"
               PROVE  breaker[m].cooled /\ breaker'[m].state = "HALF_OPEN"
    BY CheckExecutorAssumption
  <2>1. CASE \E c \in Check : Step(c)
    <3>1. PICK c \in Check : Step(c)
      BY <2>1
    <3>2. m = MetricOf[c]
      BY <3>1, StepIsLocal DEF IInv
    <3>3. pc[c] \notin Pipeline
      BY <3>2 DEF Solo, ChecksOf
    <3> QED
      BY <3>1, <3>2, <3>3, BreakerStep
  <2>2. CASE ~(\E c \in Check : Step(c))
    <3>1. breaker'[m].state = breaker[m].state
      <4>1. CASE \E n \in Metric : Elapse(n)
        BY <4>1 DEF Elapse, Cooling, CooledDown, IInv, TypeOK
      <4> QED
        BY <2>2, <4>1 DEF Next, StartBatch, CancelBatch, WindowEnds, Finished, vars
    <3> QED
      BY <3>1
  <2> QED
    BY <2>1, <2>2
<1>3. IInv /\ IInv' /\ Solo /\ Untouched /\ [Next]_vars => Solo' /\ Untouched'
  BY SoloOK
<1> QED
  BY <1>1, <1>2, <1>3, AlwaysIInv, PTL DEF Spec, CircuitClosesThroughTrial

-----------------------------------------------------------------------------
(***************************************************************************)
(* The permits of the two levels of semaphores.                            *)
(***************************************************************************)

\* No metric has more executions in flight than its CheckResilience has permits, and one
\* permit is free while the circuit is open.
PermitsKept ==
  \A m \in Metric : owner[m] # 0 =>
    /\ Cardinality(Running \cap ChecksOf(m)) =< Resilience[owner[m]].max_inflight
    /\ breaker[m].state = "OPEN" =>
         Cardinality(Running \cap ChecksOf(m)) < Resilience[owner[m]].max_inflight

\* A pipeline starts only with a permit, after which its circuit is not open; a circuit opens
\* only as a pipeline ends.
LEMMA StepKeepsPermits ==
  ASSUME IInv, IInv', Untouched, PermitsKept, NEW c \in Check, Step(c),
         NEW m \in Metric, m = MetricOf[c]
  PROVE  /\ Cardinality(Running \cap ChecksOf(m))' =< Resilience[owner'[m]].max_inflight
         /\ breaker'[m].state = "OPEN" =>
              Cardinality(Running \cap ChecksOf(m))' < Resilience[owner'[m]].max_inflight
<1> USE DEF IInv
<1>1. /\ Cardinality(Running \cap ChecksOf(m)) \in Nat
      /\ Cardinality(Running \cap ChecksOf(m))' \in Nat
  BY FinitelyMany DEF Running
<1>2. owner'[m] # 0 /\ (owner[m] # 0 => owner'[m] = owner[m])
  <2>1. CASE Enter(c)
    <3>1. owner'[m] = IF owner[m] = 0 THEN c ELSE owner[m]
      BY <2>1 DEF Enter, TypeOK
    <3>2. c # 0
      BY DEF Check
    <3> QED
      BY <3>1, <3>2
  <2>2. CASE ~Enter(c)
    <3>1. pc[c] \notin {"idle", "queued"} /\ owner' = owner
      BY <2>2 DEF Step, PassGate, Pass, Fire, FetchFails, FetchTimesOut, Suppress, Send, Break, Sent,
                  Complete, Timeout, Admitted, Gated, Running
    <3> QED
      BY <3>1, AdmittedIsOwned
  <2> QED
    BY <2>1, <2>2
<1>3. Resilience[owner'[m]].max_inflight \in Nat \ {0}
  <2>1. owner'[m] \in Check
    BY <1>2 DEF Owners, ChecksOf
  <2> QED
    BY <2>1, CheckExecutorAssumption
<1>4. owner[m] = 0 => Cardinality(Running \cap ChecksOf(m)) = 0
  <2> SUFFICES ASSUME owner[m] = 0 PROVE Running \cap ChecksOf(m) = {}
    BY FS_EmptySet
  <2> QED
    BY AdmittedIsOwned DEF Running, ChecksOf
<1>5. PICK place : pc' = [pc EXCEPT ![c] = place]
  <2>1. pc = [pc EXCEPT ![c] = pc[c]]
    BY DEF TypeOK
  <2> QED
    BY <2>1 DEF Step, Enter, PassGate, Starts, Pass, Fire, FetchFails, FetchTimesOut, Suppress, Send,
                Break, Sent, Complete, Timeout, Ends
<1>6. place = pc'[c] /\ (pc[c] \in Pipeline <=> c \in Running)
  BY <1>5 DEF TypeOK, Running, Pipeline
<1>7. CASE pc[c] \notin Pipeline /\ pc'[c] \in Pipeline
  <2>1. Cardinality(Running \cap ChecksOf(m)) < Resilience[owner'[m]].max_inflight
    <3>1. CASE Enter(c) \/ PassGate(c)
      <4>1. pc' # [pc EXCEPT ![c] = "gated"]
        BY <1>7 DEF Pipeline, TypeOK
      <4>2. ASSUME Enter(c) PROVE PermitFree(m, owner'[m])
        BY <4>1, <4>2 DEF Enter
      <4>3. ASSUME PassGate(c) PROVE PermitFree(m, owner'[m])
        BY <4>3 DEF PassGate
      <4> QED
        BY <3>1, <4>2, <4>3 DEF PermitFree
    <3>2. CASE ~(Enter(c) \/ PassGate(c))
      BY <1>7, <3>2 DEF Step, Pass, Fire, FetchFails, FetchTimesOut, Suppress, Send, Break, Sent,
                        Complete, Timeout, Ends, Pipeline, TypeOK
    <3> QED
      BY <3>1, <3>2
  <2>2. Cardinality(Running \cap ChecksOf(m))' = Cardinality(Running \cap ChecksOf(m)) + 1
    BY <1>5, <1>6, <1>7, Joins
  <2>3. breaker'[m].state # "OPEN"
    BY <1>7, BreakerStep
  <2> QED
    BY <1>1, <1>3, <2>1, <2>2, <2>3
<1>8. CASE pc[c] \in Pipeline /\ pc'[c] \notin Pipeline
  <2>1. place = "idle"
    BY <1>6, <1>8 DEF Step, Enter, PassGate, Pass, Fire, FetchFails, FetchTimesOut, Suppress, Send, Break,
                      Sent, Complete, Timeout, Ends, Pipeline, TypeOK
  <2>2. Cardinality(Running \cap ChecksOf(m))' = Cardinality(Running \cap ChecksOf(m)) - 1
    BY <1>5, <1>6, <1>8, <2>1, Leaves
  <2>3. owner[m] # 0
    BY <1>8, AdmittedIsOwned DEF Pipeline
  <2>4. Cardinality(Running \cap ChecksOf(m)) =< Resilience[owner'[m]].max_inflight
    BY <1>2, <2>3 DEF PermitsKept
  <2> QED
    BY <1>1, <1>3, <2>2, <2>4
<1>9. CASE pc[c] \in Pipeline <=> pc'[c] \in Pipeline
  <2>1. Cardinality(Running \cap ChecksOf(m))' = Cardinality(Running \cap ChecksOf(m))
    BY <1>5, <1>6, <1>9, Stays
  <2>2. breaker'[m] = breaker[m]
    BY <1>9, BreakerStep
  <2>3. CASE owner[m] = 0
    BY <1>3, <1>4, <2>1, <2>3
  <2>4. CASE owner[m] # 0
    BY <1>2, <2>1, <2>2, <2>4 DEF PermitsKept
  <2> QED
    BY <2>3, <2>4
<1> QED
  BY <1>7, <1>8, <1>9

LEMMA PermitsOK == IInv /\ IInv' /\ Untouched /\ PermitsKept /\ [Next]_vars => PermitsKept'
<1> SUFFICES ASSUME IInv, IInv', Untouched, PermitsKept, [Next]_vars, NEW m \in Metric, owner'[m] # 0
             PROVE  /\ Cardinality(Running \cap ChecksOf(m))' =< Resilience[owner'[m]].max_inflight
                    /\ breaker'[m].state = "OPEN" =>
                         Cardinality(Running \cap ChecksOf(m))' < Resilience[owner'[m]].max_inflight
  BY DEF PermitsKept
<1> USE DEF IInv
<1>1. Resilience[owner'[m]].max_inflight \in Nat \ {0}
  <2>1. owner'[m] \in Check
    BY DEF Owners, ChecksOf
  <2> QED
    BY <2>1, CheckExecutorAssumption
<1>2. CASE \E c \in Check : Step(c)
  <2>1. PICK c \in Check : Step(c)
    BY <1>2
  <2>2. CASE m = MetricOf[c]
    BY <2>1, <2>2, StepKeepsPermits
  <2>3. CASE m # MetricOf[c]
    <3>1. breaker'[m] = breaker[m] /\ \A d \in ChecksOf(m) : pc'[d] = pc[d]
      BY <2>1, <2>3, StepIsLocal DEF ChecksOf
    <3>2. owner'[m] = owner[m]
      BY <2>1, <2>3, CheckExecutorAssumption
         DEF Step, Enter, PassGate, Pass, Fire, FetchFails, FetchTimesOut, Suppress, Send,
             Break, Sent, Complete, Timeout, TypeOK
    <3>3. (Running \cap ChecksOf(m))' = Running \cap ChecksOf(m)
      BY <3>1 DEF Running, ChecksOf
    <3> QED
      BY <3>1, <3>2, <3>3 DEF PermitsKept
  <2> QED
    BY <2>2, <2>3
<1>3. CASE StartBatch \/ CancelBatch
  <2>1. (Running \cap ChecksOf(m))' = {}
    BY <1>3 DEF StartBatch, CancelBatch, Running
  <2>2. Cardinality(Running \cap ChecksOf(m))' = 0
    BY <2>1, FS_EmptySet
  <2> QED
    BY <1>1, <2>2
<1>4. CASE (\E n \in Metric : Elapse(n)) \/ (\E f \in Fingerprint : WindowEnds(f)) \/ UNCHANGED vars
  <2>1. UNCHANGED <<pc, owner>> /\ breaker'[m].state = breaker[m].state
    <3>1. CASE \E n \in Metric : Elapse(n)
      <4>1. PICK n \in Metric : Elapse(n)
        BY <3>1
      <4>2. /\ UNCHANGED <<pc, owner>>
            /\ n # m => breaker'[m] = breaker[m]
            /\ breaker'[n].state = breaker[n].state
        BY <4>1 DEF Elapse, Cooling, CooledDown, TypeOK
      <4> QED
        BY <4>2
    <3>2. CASE (\E f \in Fingerprint : WindowEnds(f)) \/ UNCHANGED vars
      BY <3>2 DEF WindowEnds, vars
    <3> QED
      BY <1>4, <3>1, <3>2
  <2>2. (Running \cap ChecksOf(m))' = Running \cap ChecksOf(m)
    BY <2>1 DEF Running, ChecksOf
  <2> QED
    BY <2>1, <2>2 DEF PermitsKept
<1> QED
  BY <1>2, <1>3, <1>4 DEF Next, Finished

\* In any executor the trial of an open circuit finds a permit: what CheckResilience promises
\* of one object holds of each metric's, however many of its executions hang
\* (runtime/resilience.py:35-46, 63-73, src/engine/executor.py:120, 273-276).
THEOREM TrialsFindPermits ==
  Spec => [](\A m \in {MetricOf[c] : c \in Check} : Shared(m)!OpenLeavesPermit)
<1>1. Init => Solo /\ Untouched /\ PermitsKept
  BY DEF Init, Solo, Untouched, PermitsKept, Pipeline, ChecksOf
<1>2. IInv /\ PermitsKept => \A m \in {MetricOf[c] : c \in Check} : Shared(m)!OpenLeavesPermit
  <2> SUFFICES ASSUME IInv, PermitsKept, NEW m \in Metric PROVE Shared(m)!OpenLeavesPermit
    BY CheckExecutorAssumption
  <2>1. Shared(m)!Cardinality(Shared(m)!Running) = Cardinality(Running \cap ChecksOf(m))
    <3>1. Shared(m)!Cardinality(Shared(m)!Running) = Cardinality(Shared(m)!Running)
      BY DEF Shared!Cardinality, Cardinality
    <3> QED
      BY <3>1, SharedSets DEF IInv
  <2>2. ASSUME breaker[m].state = "OPEN"
        PROVE  Cardinality(Running \cap ChecksOf(m)) < Resilience[First(m)].max_inflight
    <3>1. owner[m] # 0
      BY <2>2 DEF IInv, TypeOK, NewBreaker
    <3>2. First(m) = owner[m]
      BY <3>1, FirstIsLeast DEF IInv, Owners, OwnerIsFirst
    <3> QED
      BY <2>2, <3>1, <3>2 DEF PermitsKept
  <2> QED
    BY <2>1, <2>2 DEF Shared!OpenLeavesPermit, First
<1> QED
  BY <1>1, <1>2, SoloOK, PermitsOK, AlwaysIInv, PTL DEF Spec

-----------------------------------------------------------------------------
(***************************************************************************)
(* What is left uncounted.                                                 *)
(***************************************************************************)

\* Check c is over before its pipeline has begun, though its batch goes on, and leaves no count.
VanishesUncounted(c) ==
  /\ pc[c] \in {"queued", "gated"} /\ pc'[c] = "idle" /\ ~stopped'
  /\ checks_total'[MetricOf[c]] = checks_total[MetricOf[c]]

\* The circuit of check c's metric refuses it.
IsRefused(c) ==
  LET m == MetricOf[c] IN owner[m]' # 0 /\ Resilience[owner[m]'].enabled /\ Refuses(breaker[m])

LEMMA UncountedOK ==
  ASSUME IInv, [Next]_vars, NEW c \in Check, VanishesUncounted(c)
  PROVE  IsRefused(c)
<1> DEFINE m == MetricOf[c]
<1> USE DEF IInv
<1>1. m \in Metric /\ owner[m] \in 0..N /\ c # 0
  BY CheckExecutorAssumption DEF TypeOK, Check
<1>2. PICK d \in Check : Step(d)
  <2>1. CASE StartBatch \/ CancelBatch
    BY <2>1 DEF StartBatch, CancelBatch, VanishesUncounted
  <2>2. CASE (\E n \in Metric : Elapse(n)) \/ (\E f \in Fingerprint : WindowEnds(f)) \/ UNCHANGED vars
    <3>1. pc' = pc
      BY <2>2 DEF Elapse, WindowEnds, vars
    <3> QED
      BY <3>1 DEF VanishesUncounted
  <2> QED
    BY <2>1, <2>2 DEF Next, Finished
<1>3. d = c
  <2>1. pc'[c] # pc[c]
    BY DEF VanishesUncounted
  <2> QED
    BY <1>2, <2>1, StepIsLocal
<1>4. CASE Timeout(c)
  <2>1. PICK statuses : "timeout" \in statuses /\ checks_total' = Counted(m, statuses)
    BY <1>4 DEF Timeout, Ends
  <2>2. checks_total'[m]["timeout"] = checks_total[m]["timeout"] + 1
    BY <1>1, <2>1, CountedOnce DEF TypeOK, Status
  <2>3. checks_total[m]["timeout"] \in Nat
    BY <1>1 DEF TypeOK, Status
  <2> QED
    BY <2>2, <2>3 DEF VanishesUncounted
<1>5. CASE Enter(c) \/ PassGate(c)
  <2>1. Starts(c, breaker[m])
    <3>1. pc' # [pc EXCEPT ![c] = "gated"]
      BY DEF VanishesUncounted, TypeOK
    <3> QED
      BY <1>5, <3>1 DEF Enter, PassGate
  <2>2. owner'[m] # 0
    <3>1. CASE Enter(c)
      BY <1>1, <3>1 DEF Enter, TypeOK
    <3>2. CASE PassGate(c)
      BY <3>2, AdmittedIsOwned DEF PassGate
    <3> QED
      BY <1>5, <3>1, <3>2
  <2>3. pc' # [pc EXCEPT ![c] = "fetching"]
    BY DEF VanishesUncounted, TypeOK
  <2> QED
    BY <2>1, <2>2, <2>3 DEF Starts, IsRefused
<1>6. CASE ~(Enter(c) \/ PassGate(c) \/ Timeout(c))
  <2>1. pc[c] \in Pipeline
    BY <1>2, <1>3, <1>6 DEF Step, Pass, Fire, FetchFails, FetchTimesOut, Suppress, Send, Break, Sent,
                            Complete, Pipeline
  <2> QED
    BY <2>1 DEF VanishesUncounted, Pipeline
<1> QED
  BY <1>4, <1>5, <1>6

\* A check that ends uncounted while its batch goes on has been refused by its circuit: nothing
\* else makes a check vanish from the counters, a timeout on any semaphore included
\* (src/engine/executor.py:122-124, 250-257, 273-284).
THEOREM OnlyRefusalsAreUncounted == Spec => [][\A c \in Check : VanishesUncounted(c) => IsRefused(c)]_vars
<1>1. IInv /\ [Next]_vars => [\A c \in Check : VanishesUncounted(c) => IsRefused(c)]_vars
  BY UncountedOK
<1> QED
  BY <1>1, AlwaysIInv, PTL DEF Spec

\* So where no check enables its circuit breaker every check is counted, as
\* src/engine/executor.py:250-257 means it.
THEOREM CountedWithoutBreakers ==
  ASSUME \A c \in Check : ~Resilience[c].enabled
  PROVE  Spec => RefusalIsCounted
<1>1. IInv /\ IInv' /\ [Next]_vars =>
        [\A c \in Check :
           pc[c] \in {"queued", "gated"} /\ pc'[c] = "idle" /\ ~stopped' =>
             checks_total'[MetricOf[c]] # checks_total[MetricOf[c]]]_vars
  <2> SUFFICES ASSUME IInv, IInv', [Next]_vars, NEW c \in Check, VanishesUncounted(c) PROVE FALSE
    BY DEF VanishesUncounted
  <2>1. owner'[MetricOf[c]] # 0 /\ Resilience[owner'[MetricOf[c]]].enabled
    BY UncountedOK DEF IsRefused
  <2>2. owner'[MetricOf[c]] \in Check
    BY <2>1, CheckExecutorAssumption DEF IInv, Owners, ChecksOf
  <2> QED
    BY <2>1, <2>2
<1> QED
  BY <1>1, AlwaysIInv, PTL DEF Spec, RefusalIsCounted

-----------------------------------------------------------------------------
(***************************************************************************)
(* The history and the totals.                                             *)
(***************************************************************************)
Successes(h) == {i \in DOMAIN h : h[i]}

\* The history h tells of this many outcomes, of which this many are successes.
Tells(h, successes, outcomes) ==
  /\ Len(h) = IF outcomes < HistorySize THEN outcomes ELSE HistorySize
  /\ outcomes =< HistorySize => Cardinality(Successes(h)) = successes

\* What add_result, called for each of the results, leaves of a history h.
Kept(h, results) ==
  LET all  == h \o results
      over == Len(all) - HistorySize
  IN  IF over > 0 THEN SubSeq(all, over + 1, Len(all)) ELSE all

LEMMA RememberedIsKept ==
  ASSUME NEW m \in Metric, NEW results
  PROVE  Remembered(m, results) = [history EXCEPT ![m] = Kept(history[m], results)]
BY DEF Remembered, Kept

\* A deque drops from its far end what is beyond its size.
LEMMA KeptLength ==
  ASSUME NEW h \in Seq(BOOLEAN), NEW results \in Seq(BOOLEAN)
  PROVE  /\ Len(Kept(h, results)) = IF Len(h) + Len(results) < HistorySize
                                      THEN Len(h) + Len(results) ELSE HistorySize
         /\ Len(h) + Len(results) =< HistorySize => Kept(h, results) = h \o results
<1> DEFINE all == h \o results
           over == Len(all) - HistorySize
<1>1. all \in Seq(BOOLEAN) /\ Len(all) \in Nat /\ Len(all) = Len(h) + Len(results)
  BY ConcatProperties
<1>2. Kept(h, results) = IF over > 0 THEN SubSeq(all, over + 1, Len(all)) ELSE all
  BY DEF Kept
<1>3. over \in Int /\ HistorySize \in Nat \ {0} /\ Len(all) = over + HistorySize
  BY <1>1, CheckExecutorAssumption
<1> HIDE DEF all, over
<1>4. CASE over > 0
  <2>1. over + 1 \in 1..Len(all) /\ Len(all) \in 1..Len(all)
    BY <1>1, <1>3, <1>4
  <2>2. Len(SubSeq(all, over + 1, Len(all))) = Len(all) - (over + 1) + 1
    BY <1>1, <1>3, <2>1, SubSeqProperties
  <2>3. Len(Kept(h, results)) = HistorySize
    <3>1. Kept(h, results) = SubSeq(all, over + 1, Len(all))
      BY <1>2, <1>4
    <3>2. Len(all) - (over + 1) + 1 = HistorySize
      BY <1>3
    <3> QED
      BY <2>2, <3>1, <3>2
  <2> QED
    BY <1>1, <1>3, <1>4, <2>3
<1>5. CASE ~(over > 0)
  <2>1. Kept(h, results) = all
    BY <1>2, <1>5
  <2> QED
    BY <1>1, <1>3, <1>5, <2>1 DEF all
<1> QED
  BY <1>4, <1>5

LEMMA OneMoreSuccess ==
  ASSUME NEW h \in Seq(BOOLEAN)
  PROVE  Cardinality(Successes(h \o <<TRUE>>)) = Cardinality(Successes(h)) + 1
<1> DEFINE n == Len(h)
<1>1. n \in Nat /\ DOMAIN h = 1..n
  OBVIOUS
<1>2. /\ Len(h \o <<TRUE>>) = n + 1
      /\ \A i \in 1..n : (h \o <<TRUE>>)[i] = h[i]
      /\ (h \o <<TRUE>>)[n + 1] = TRUE
  BY <1>1
<1>3. DOMAIN (h \o <<TRUE>>) = 1..(n + 1)
  BY <1>2
<1> HIDE DEF n
<1>4. 1..(n + 1) = 1..n \cup {n + 1} /\ n + 1 \notin 1..n
  BY <1>1
<1>5. Successes(h \o <<TRUE>>) = Successes(h) \cup {n + 1}
  BY <1>1, <1>2, <1>3, <1>4 DEF Successes
<1>6. n + 1 \notin Successes(h) /\ Successes(h) \subseteq 1..n
  BY <1>1, <1>4 DEF Successes
<1>7. IsFiniteSet(Successes(h))
  <2>1. IsFiniteSet(1..n)
    BY <1>1, FS_Interval
  <2> QED
    BY <1>6, <2>1, FS_Subset
<1> QED
  BY <1>5, <1>6, <1>7, FS_AddElement

LEMMA NoMoreSuccess ==
  ASSUME NEW h \in Seq(BOOLEAN), NEW results \in Seq(BOOLEAN), \A i \in DOMAIN results : ~results[i]
  PROVE  Successes(h \o results) = Successes(h)
<1>1. /\ Len(h \o results) = Len(h) + Len(results) /\ Len(h) \in Nat /\ Len(results) \in Nat
      /\ DOMAIN h = 1..Len(h) /\ DOMAIN (h \o results) = 1..(Len(h) + Len(results))
  BY ConcatProperties
<1>2. \A i \in 1..Len(h) : (h \o results)[i] = h[i]
  BY <1>1
<1>3. ASSUME NEW i \in 1..(Len(h) + Len(results)), i \notin 1..Len(h)
      PROVE  ~(h \o results)[i]
  <2>1. i - Len(h) \in 1..Len(results)
    BY <1>1, <1>3
  <2>2. (h \o results)[i] = results[i - Len(h)]
    BY <1>1, <1>3
  <2> QED
    BY <2>1, <2>2
<1>4. 1..Len(h) \subseteq 1..(Len(h) + Len(results))
  BY <1>1
<1> QED
  BY <1>1, <1>2, <1>3, <1>4 DEF Successes


\* The history still tells of the outcomes after a success, and after failures.
LEMMA TellsOn ==
  ASSUME NEW h \in Seq(BOOLEAN), NEW results \in Seq(BOOLEAN),
         NEW s \in Nat, NEW n \in Nat, NEW t \in Nat, NEW k \in Nat, Tells(h, s, n),
         k = n + Len(results),
         \/ results = <<TRUE>> /\ t = s + 1
         \/ (\A i \in DOMAIN results : ~results[i]) /\ t = s
  PROVE  Tells(Kept(h, results), t, k)
<1>1. HistorySize \in Nat \ {0} /\ Len(h) \in Nat /\ Len(results) \in Nat
  BY CheckExecutorAssumption
<1>2. Len(h) = IF n < HistorySize THEN n ELSE HistorySize
  BY DEF Tells
<1>3. Len(Kept(h, results)) = IF k < HistorySize THEN k ELSE HistorySize
  <2>1. Len(Kept(h, results)) = IF Len(h) + Len(results) < HistorySize
                                  THEN Len(h) + Len(results) ELSE HistorySize
    BY KeptLength
  <2>2. CASE n < HistorySize
    BY <1>2, <2>1, <2>2
  <2>3. CASE ~(n < HistorySize)
    BY <1>1, <1>2, <2>1, <2>3
  <2> QED
    BY <2>2, <2>3
<1>4. ASSUME k =< HistorySize
      PROVE  Cardinality(Successes(Kept(h, results))) = t
  <2>1. n =< HistorySize /\ Len(h) = n
    BY <1>1, <1>2, <1>4
  <2>2. Kept(h, results) = h \o results
    BY <1>4, <2>1, KeptLength
  <2>3. Cardinality(Successes(h)) = s
    BY <2>1 DEF Tells
  <2>4. CASE results = <<TRUE>> /\ t = s + 1
    <3>1. Cardinality(Successes(h \o <<TRUE>>)) = Cardinality(Successes(h)) + 1
      BY OneMoreSuccess
    <3> QED
      BY <2>2, <2>3, <2>4, <3>1
  <2>5. CASE (\A i \in DOMAIN results : ~results[i]) /\ t = s
    <3>1. Successes(h \o results) = Successes(h)
      BY <2>5, NoMoreSuccess
    <3> QED
      BY <2>2, <2>3, <2>5, <3>1
  <2> QED
    BY <2>4, <2>5
<1> QED
  BY <1>3, <1>4 DEF Tells

\* The statuses that come with a result.
Recorded == {"passed", "alerted", "failed", "timeout"}

Wins(total) == total["passed"] + total["alerted"]
Results(total) == Wins(total) + total["failed"] + total["timeout"]

LEMMA EachHistoryTells ==
  HistoryAgreesWithTotals <=>
    \A m \in Metric : Tells(history[m], Wins(checks_total[m]), Results(checks_total[m]))
BY DEF HistoryAgreesWithTotals, Tells, Wins, Results, Successes

\* The results that come with these statuses, as an execution ends.
Matches(statuses, results) ==
  \/ results = <<TRUE>> /\ statuses \cap Recorded \in {{"passed"}, {"alerted"}}
  \/ results = <<FALSE>> /\ statuses \cap Recorded \in {{"failed"}, {"timeout"}}
  \/ results = <<FALSE, FALSE>> /\ statuses \cap Recorded = {"failed", "timeout"}

LEMMA Failures ==
  /\ <<FALSE>> \in Seq(BOOLEAN) /\ Len(<<FALSE>>) = 1
  /\ \A i \in DOMAIN <<FALSE>> : ~<<FALSE>>[i]
  /\ <<FALSE, FALSE>> \in Seq(BOOLEAN) /\ Len(<<FALSE, FALSE>>) = 2
  /\ \A i \in DOMAIN <<FALSE, FALSE>> : ~<<FALSE, FALSE>>[i]
<1>1. DOMAIN <<FALSE>> = {1} /\ DOMAIN <<FALSE, FALSE>> = {1, 2}
  <2>1. DOMAIN <<FALSE>> = 1..1 /\ DOMAIN <<FALSE, FALSE>> = 1..2
    OBVIOUS
  <2>2. 1..1 = {1} /\ 1..2 = {1, 2}
    OBVIOUS
  <2> QED
    BY <2>1, <2>2
<1>2. <<FALSE>>[1] = FALSE /\ <<FALSE, FALSE>>[1] = FALSE /\ <<FALSE, FALSE>>[2] = FALSE
  OBVIOUS
<1>3. /\ <<FALSE>> \in Seq(BOOLEAN) /\ Len(<<FALSE>>) = 1
      /\ <<FALSE, FALSE>> \in Seq(BOOLEAN) /\ Len(<<FALSE, FALSE>>) = 2
  OBVIOUS
<1> QED
  BY <1>1, <1>2, <1>3

\* What the totals gain when these statuses are counted.
LEMMA TotalsGrow ==
  ASSUME NEW t \in [Status -> Nat], NEW u \in [Status -> Nat], NEW statuses, NEW results,
         \A s \in Status : u[s] = t[s] + IF s \in statuses THEN 1 ELSE 0,
         Matches(statuses, results)
  PROVE  /\ Wins(t) \in Nat /\ Results(t) \in Nat /\ Wins(u) \in Nat /\ Results(u) \in Nat
         /\ results \in Seq(BOOLEAN) /\ Results(u) = Results(t) + Len(results)
         /\ \/ results = <<TRUE>> /\ Wins(u) = Wins(t) + 1
            \/ (\A i \in DOMAIN results : ~results[i]) /\ Wins(u) = Wins(t)
<1>1. \A s \in Recorded : /\ s \in Status /\ t[s] \in Nat /\ u[s] \in Nat
                          /\ s \in statuses \cap Recorded => u[s] = t[s] + 1
                          /\ s \notin statuses \cap Recorded => u[s] = t[s]
  BY DEF Recorded, Status
<1>2. /\ "passed" \in Recorded /\ "alerted" \in Recorded
      /\ "failed" \in Recorded /\ "timeout" \in Recorded
  BY DEF Recorded
<1>3. PICK p, a, f, o : p = t["passed"] /\ a = t["alerted"] /\ f = t["failed"] /\ o = t["timeout"]
  OBVIOUS
<1>4. p \in Nat /\ a \in Nat /\ f \in Nat /\ o \in Nat
  BY <1>1, <1>2, <1>3
<1>5. Wins(t) = p + a /\ Results(t) = p + a + f + o
  BY <1>3 DEF Wins, Results
<1>6. CASE results = <<TRUE>> /\ statuses \cap Recorded = {"passed"}
  <2>1. u["passed"] = p + 1 /\ u["alerted"] = a /\ u["failed"] = f /\ u["timeout"] = o
    BY <1>1, <1>2, <1>3, <1>6
  <2> QED
    BY <1>4, <1>5, <1>6, <2>1 DEF Wins, Results
<1>7. CASE results = <<TRUE>> /\ statuses \cap Recorded = {"alerted"}
  <2>1. u["passed"] = p /\ u["alerted"] = a + 1 /\ u["failed"] = f /\ u["timeout"] = o
    BY <1>1, <1>2, <1>3, <1>7
  <2> QED
    BY <1>4, <1>5, <1>7, <2>1 DEF Wins, Results
<1>8. CASE results = <<FALSE>> /\ statuses \cap Recorded = {"failed"}
  <2>1. u["passed"] = p /\ u["alerted"] = a /\ u["failed"] = f + 1 /\ u["timeout"] = o
    BY <1>1, <1>2, <1>3, <1>8
  <2>2. Wins(u) = Wins(t) /\ Results(u) = Results(t) + 1
    BY <1>4, <1>5, <2>1 DEF Wins, Results
  <2> QED
    BY <1>4, <1>5, <1>8, <2>2, Failures
<1>9. CASE results = <<FALSE>> /\ statuses \cap Recorded = {"timeout"}
  <2>1. u["passed"] = p /\ u["alerted"] = a /\ u["failed"] = f /\ u["timeout"] = o + 1
    BY <1>1, <1>2, <1>3, <1>9
  <2>2. Wins(u) = Wins(t) /\ Results(u) = Results(t) + 1
    BY <1>4, <1>5, <2>1 DEF Wins, Results
  <2> QED
    BY <1>4, <1>5, <1>9, <2>2, Failures
<1>10. CASE results = <<FALSE, FALSE>> /\ statuses \cap Recorded = {"failed", "timeout"}
  <2>1. u["passed"] = p /\ u["alerted"] = a /\ u["failed"] = f + 1 /\ u["timeout"] = o + 1
    BY <1>1, <1>2, <1>3, <1>10
  <2>2. Wins(u) = Wins(t) /\ Results(u) = Results(t) + 2
    BY <1>4, <1>5, <2>1 DEF Wins, Results
  <2> QED
    BY <1>4, <1>5, <1>10, <2>2, Failures
<1> QED
  BY <1>6, <1>7, <1>8, <1>9, <1>10 DEF Matches

LEMMA EndsTells ==
  ASSUME TypeOK, HistoryAgreesWithTotals, NEW c \in Check, NEW statuses, NEW results, NEW b,
         Ends(c, statuses, results, b), Matches(statuses, results)
  PROVE  HistoryAgreesWithTotals'
<1> DEFINE home == MetricOf[c]
<1>1. home \in Metric
  BY CheckExecutorAssumption
<1>2. checks_total' = Counted(home, statuses) /\ history' = Remembered(home, results)
  BY DEF Ends
<1>3. checks_total \in [Metric -> [Status -> Nat]] /\ history \in [Metric -> Seq(BOOLEAN)]
  BY DEF TypeOK
<1>4. /\ checks_total' \in [Metric -> [Status -> Nat]]
      /\ \A s \in Status : checks_total'[home][s] = checks_total[home][s] + IF s \in statuses THEN 1 ELSE 0
      /\ \A n \in Metric \ {home} : checks_total'[n] = checks_total[n]
  BY <1>1, <1>2, <1>3, CountedOnce
<1>5. /\ history'[home] = Kept(history[home], results)
      /\ \A n \in Metric \ {home} : history'[n] = history[n]
  BY <1>1, <1>2, <1>3, RememberedIsKept
<1>6. PICK t, u, h : t = checks_total[home] /\ u = checks_total'[home] /\ h = history[home]
  OBVIOUS
<1>7. /\ t \in [Status -> Nat] /\ u \in [Status -> Nat] /\ h \in Seq(BOOLEAN)
      /\ \A s \in Status : u[s] = t[s] + IF s \in statuses THEN 1 ELSE 0
  BY <1>1, <1>3, <1>4, <1>6
<1>8. /\ Wins(t) \in Nat /\ Results(t) \in Nat /\ Wins(u) \in Nat /\ Results(u) \in Nat
      /\ results \in Seq(BOOLEAN) /\ Results(u) = Results(t) + Len(results)
      /\ \/ results = <<TRUE>> /\ Wins(u) = Wins(t) + 1
         \/ (\A i \in DOMAIN results : ~results[i]) /\ Wins(u) = Wins(t)
  BY <1>7, TotalsGrow
<1>9. Tells(h, Wins(t), Results(t))
  BY <1>1, <1>6, EachHistoryTells
<1>10. Tells(Kept(h, results), Wins(u), Results(u))
  BY <1>7, <1>8, <1>9, TellsOn
<1>11. \A m \in Metric : Tells(history'[m], Wins(checks_total'[m]), Results(checks_total'[m]))
  <2> SUFFICES ASSUME NEW m \in Metric
               PROVE  Tells(history'[m], Wins(checks_total'[m]), Results(checks_total'[m]))
    OBVIOUS
  <2>1. CASE m = home
    BY <1>5, <1>6, <1>10, <2>1
  <2>2. CASE m # home
    BY <1>4, <1>5, <2>2, EachHistoryTells
  <2> QED
    BY <2>1, <2>2
<1> QED
  BY <1>11 DEF HistoryAgreesWithTotals, Tells, Wins, Results, Successes

\* What leaves the history and the outcomes that record alone.
LEMMA QuietTells ==
  ASSUME HistoryAgreesWithTotals, history' = history,
         \A m \in Metric : \A s \in Recorded : checks_total'[m][s] = checks_total[m][s]
  PROVE  HistoryAgreesWithTotals'
<1>1. /\ "passed" \in Recorded /\ "alerted" \in Recorded
      /\ "failed" \in Recorded /\ "timeout" \in Recorded
  BY DEF Recorded
<1>2. \A m \in Metric : /\ Wins(checks_total'[m]) = Wins(checks_total[m])
                        /\ Results(checks_total'[m]) = Results(checks_total[m])
  BY <1>1 DEF Wins, Results
<1>3. \A m \in Metric : Tells(history'[m], Wins(checks_total'[m]), Results(checks_total'[m]))
  BY <1>2, EachHistoryTells
<1> QED
  BY <1>3 DEF HistoryAgreesWithTotals, Tells, Wins, Results, Successes

LEMMA StartsTells ==
  ASSUME TypeOK, HistoryAgreesWithTotals, NEW c \in Check, Enter(c) \/ PassGate(c)
  PROVE  HistoryAgreesWithTotals'
<1>1. MetricOf[c] \in Metric /\ checks_total \in [Metric -> [Status -> Nat]]
  BY CheckExecutorAssumption DEF TypeOK
<1>2. /\ history' = history
      /\ checks_total' = checks_total \/ checks_total' = Counted(MetricOf[c], {"started"})
  BY DEF Enter, PassGate, Starts
<1>3. \A s \in Recorded : s \in Status /\ s \notin {"started"}
  BY DEF Recorded, Status
<1>4. CASE checks_total' = checks_total
  BY <1>2, <1>4, QuietTells
<1>5. CASE checks_total' = Counted(MetricOf[c], {"started"})
  <2>1. /\ \A s \in Status : checks_total'[MetricOf[c]][s] =
                               checks_total[MetricOf[c]][s] + IF s \in {"started"} THEN 1 ELSE 0
        /\ \A n \in Metric \ {MetricOf[c]} : checks_total'[n] = checks_total[n]
    BY <1>1, <1>5, CountedOnce
  <2>2. \A s \in Recorded : checks_total'[MetricOf[c]][s] = checks_total[MetricOf[c]][s]
    BY <1>1, <1>3, <2>1
  <2>3. \A m \in Metric : \A s \in Recorded : checks_total'[m][s] = checks_total[m][s]
    BY <2>1, <2>2
  <2> QED
    BY <1>2, <2>3, QuietTells
<1> QED
  BY <1>2, <1>4, <1>5

\* The history and the totals tell the same story, for any size of the deque, however
\* executions end and however many of them: the deque and the counters are written in
\* different places, one after the other
\* (src/engine/executor.py:172, 237, 264, 283, src/core/history.py:14-18).
THEOREM HistoryTellsTotals == Spec => []HistoryAgreesWithTotals
<1>1. Init => HistoryAgreesWithTotals
  <2> SUFFICES ASSUME Init PROVE HistoryAgreesWithTotals
    OBVIOUS
  <2>1. \A m \in Metric : history[m] = <<>> /\ \A s \in Recorded : checks_total[m][s] = 0
    BY DEF Init, Recorded, Status
  <2>2. \A m \in Metric : Wins(checks_total[m]) = 0 /\ Results(checks_total[m]) = 0
    BY <2>1 DEF Wins, Results, Recorded
  <2>3. Successes(<<>>) = {} /\ Len(<<>>) = 0 /\ Cardinality({}) = 0
    BY FS_EmptySet DEF Successes
  <2>4. Tells(<<>>, 0, 0)
    <3>1. 0 < HistorySize
      BY CheckExecutorAssumption
    <3>2. Cardinality(Successes(<<>>)) = 0
      BY <2>3
    <3> QED
      BY <2>3, <3>1, <3>2 DEF Tells
  <2> QED
    BY <2>1, <2>2, <2>4, EachHistoryTells
<1>2. TypeOK /\ HistoryAgreesWithTotals /\ [Next]_vars => HistoryAgreesWithTotals'
  <2> SUFFICES ASSUME TypeOK, HistoryAgreesWithTotals, [Next]_vars
               PROVE  HistoryAgreesWithTotals'
    OBVIOUS
  <2>1. ASSUME NEW c \in Check, Pass(c) PROVE HistoryAgreesWithTotals'
    <3>1. Ends(c, {"passed"}, <<TRUE>>, AfterReturn(MetricOf[c])) /\ Matches({"passed"}, <<TRUE>>)
      BY <2>1 DEF Pass, Matches, Recorded
    <3> QED
      BY <3>1, EndsTells
  <2>2. ASSUME NEW c \in Check, Complete(c) PROVE HistoryAgreesWithTotals'
    <3>1. Ends(c, {"alerted"}, <<TRUE>>, AfterReturn(MetricOf[c])) /\ Matches({"alerted"}, <<TRUE>>)
      BY <2>2 DEF Complete, Matches, Recorded
    <3> QED
      BY <3>1, EndsTells
  <2>3. ASSUME NEW c \in Check, FetchFails(c) \/ Break(c) PROVE HistoryAgreesWithTotals'
    <3>1. Ends(c, {"failed"}, <<FALSE>>, AfterRaise(MetricOf[c])) /\ Matches({"failed"}, <<FALSE>>)
      BY <2>3 DEF FetchFails, Break, Matches, Recorded
    <3> QED
      BY <3>1, EndsTells
  <2>4. ASSUME NEW c \in Check, FetchTimesOut(c) PROVE HistoryAgreesWithTotals'
    <3>1. /\ Ends(c, {"failed", "timeout"}, <<FALSE, FALSE>>, AfterRaise(MetricOf[c]))
          /\ Matches({"failed", "timeout"}, <<FALSE, FALSE>>)
      BY <2>4 DEF FetchTimesOut, Matches, Recorded
    <3> QED
      BY <3>1, EndsTells
  <2>5. ASSUME NEW c \in Check, Timeout(c) PROVE HistoryAgreesWithTotals'
    <3>1. PICK statuses : /\ statuses \in {{"timeout"}, {"timeout", "cancelled"}}
                          /\ Ends(c, statuses, <<FALSE>>, breaker[MetricOf[c]])
      <4>1. {"timeout"} \cup (IF c \in Running THEN {"cancelled"} ELSE {})
              \in {{"timeout"}, {"timeout", "cancelled"}}
        OBVIOUS
      <4> QED
        BY <2>5, <4>1 DEF Timeout
    <3>2. Matches(statuses, <<FALSE>>)
      BY <3>1 DEF Matches, Recorded
    <3> QED
      BY <3>1, <3>2, EndsTells
  <2>6. ASSUME NEW c \in Check, Enter(c) \/ PassGate(c) PROVE HistoryAgreesWithTotals'
    BY <2>6, StartsTells
  <2>7. ASSUME UNCHANGED <<history, checks_total>> PROVE HistoryAgreesWithTotals'
    BY <2>7, QuietTells
  <2>8. ASSUME CancelBatch PROVE HistoryAgreesWithTotals'
    <3>1. /\ history' = history
          /\ \A m \in Metric : checks_total'[m] =
               [checks_total[m] EXCEPT !["cancelled"] = @ + Cardinality(Running \cap ChecksOf(m))]
      BY <2>8 DEF CancelBatch
    <3>2. \A m \in Metric : \A s \in Recorded : checks_total'[m][s] = checks_total[m][s]
      <4>1. \A s \in Recorded : s \in Status /\ s # "cancelled"
        BY DEF Recorded, Status
      <4>2. \A m \in Metric : checks_total[m] \in [Status -> Nat]
        BY DEF TypeOK
      <4> QED
        BY <3>1, <4>1, <4>2
    <3> QED
      BY <3>1, <3>2, QuietTells
  <2>9. ASSUME NEW c \in Check, Fire(c) \/ Suppress(c) \/ Send(c) \/ Sent(c)
        PROVE  UNCHANGED <<history, checks_total>>
    BY <2>9 DEF Fire, Suppress, Send, Sent
  <2>10. CASE \E c \in Check : Step(c)
    BY <2>1, <2>2, <2>3, <2>4, <2>5, <2>6, <2>7, <2>9, <2>10 DEF Step
  <2>11. CASE StartBatch \/ (\E m \in Metric : Elapse(m)) \/ (\E f \in Fingerprint : WindowEnds(f))
              \/ Finished \/ UNCHANGED vars
    <3>1. UNCHANGED <<history, checks_total>>
      BY <2>11 DEF StartBatch, Elapse, WindowEnds, Finished, vars
    <3> QED
      BY <2>7, <3>1
  <2> QED
    BY <2>8, <2>10, <2>11 DEF Next
<1>3. IInv => TypeOK
  BY DEF IInv
<1> QED
  BY <1>1, <1>2, <1>3, AlwaysIInv, PTL DEF Spec

=============================================================================
