------------------------ MODULE SlackHandlerProofs ------------------------
(***************************************************************************)
(* What holds of the shared SlackHandler for any alerts, any threshold and *)
(* any number of attempts.                                                 *)
(***************************************************************************)
EXTENDS SlackHandler, CircuitProofs

\* What the place of a dispatch says of its attempts.
AttemptsCounted ==
  \A a \in Alert :
    /\ pc[a] = "idle" => attempts[a] = 0
    /\ pc[a] = "backoff" => attempts[a] < MaxAttempts
    /\ received[a] =< attempts[a]
    /\ pc[a] = "posting" => received[a] < attempts[a]

\* The breaker counts no failure that is not on record, and is closed until there are as
\* many as its threshold.
ErrorsOnRecord ==
  /\ breaker.failures =< errors
  /\ breaker.state # "CLOSED" => errors >= Threshold
  /\ Consistent(breaker, Threshold)

IInv == TypeOK /\ AttemptsCounted /\ ErrorsOnRecord

-----------------------------------------------------------------------------
LEMMA InitOK == Init => IInv
<1> SUFFICES ASSUME Init PROVE IInv
  OBVIOUS
<1>1. TypeOK
  BY SlackHandlerAssumption, NewBreakerIsBreaker DEF Init, TypeOK
<1>2. AttemptsCounted
  BY DEF Init, AttemptsCounted
<1>3. ErrorsOnRecord
  BY SlackHandlerAssumption, NewBreakerIsBreaker DEF Init, ErrorsOnRecord
<1> QED
  BY <1>1, <1>2, <1>3 DEF IInv

\* An attempt is one of those allowed, and leaves the record as it was.
LEMMA AttemptOK ==
  ASSUME IInv, NEW a \in Alert, pc[a] \in {"idle", "backoff"}, Attempt(a)
  PROVE  IInv'
<1> USE SlackHandlerAssumption DEF IInv, TypeOK
<1>1. attempts[a] < MaxAttempts
  BY DEF AttemptsCounted
<1>2. /\ attempts' = [attempts EXCEPT ![a] = @ + 1]
      /\ UNCHANGED <<received, errors>>
      /\ \/ pc' = [pc EXCEPT ![a] = "returned"]
         \/ pc' = [pc EXCEPT ![a] = "raised"]
         \/ pc' = [pc EXCEPT ![a] = "posting"]
      /\ session' \in {session, "open"}
      /\ breaker' \in {breaker, Admit(breaker)}
  BY DEF Attempt, Refused, Goes
<1>3. attempts' \in [Alert -> 0..MaxAttempts]
  BY <1>1, <1>2
<1>4. /\ breaker' \in Breaker(Threshold) /\ breaker'.failures = breaker.failures
      /\ Consistent(breaker, Threshold) => Consistent(breaker', Threshold)
      /\ breaker'.state # "CLOSED" => breaker.state # "CLOSED"
  BY <1>2, AdmitBreaker
<1>5. TypeOK'
  BY <1>2, <1>3, <1>4
<1>6. AttemptsCounted'
  <2> SUFFICES ASSUME NEW other \in Alert
               PROVE  /\ pc'[other] = "idle" => attempts'[other] = 0
                      /\ pc'[other] = "backoff" => attempts'[other] < MaxAttempts
                      /\ received'[other] =< attempts'[other]
                      /\ pc'[other] = "posting" => received'[other] < attempts'[other]
    BY DEF AttemptsCounted
  <2>1. CASE other = a
    <3>1. /\ attempts'[a] = attempts[a] + 1 /\ received'[a] = received[a]
          /\ pc'[a] \in {"returned", "raised", "posting"}
          /\ attempts[a] \in Nat /\ received[a] \in Nat /\ received[a] =< attempts[a]
      BY <1>2 DEF AttemptsCounted
    <3> QED
      BY <2>1, <3>1
  <2>2. CASE other # a
    <3>1. attempts'[other] = attempts[other] /\ pc'[other] = pc[other] /\ received'[other] = received[other]
      BY <1>2, <2>2
    <3> QED
      BY <3>1 DEF AttemptsCounted
  <2> QED
    BY <2>1, <2>2
<1>7. ErrorsOnRecord'
  BY <1>2, <1>4 DEF ErrorsOnRecord
<1> QED
  BY <1>5, <1>6, <1>7

\* A post or a backoff ends: at most one copy more is posted.
LEMMA EndKeepsAttempts ==
  ASSUME IInv, NEW a \in Alert,
         UNCHANGED attempts,
         \/ pc[a] = "posting" /\ MayBePosted(a)
         \/ UNCHANGED received,
         NEW place \in {"backoff", "returned", "raised", "cancelled"}, Goes(a, place),
         place = "backoff" => attempts[a] < MaxAttempts
  PROVE  /\ AttemptsCounted'
         /\ pc' \in [Alert -> {"idle", "posting", "backoff", "returned", "raised", "cancelled"}]
         /\ received' \in [Alert -> 0..MaxAttempts]
<1> USE SlackHandlerAssumption DEF IInv, TypeOK
<1>1. pc' = [pc EXCEPT ![a] = place]
  BY DEF Goes
<1>2. \A b \in Alert : /\ received[b] \in Nat /\ attempts[b] \in 0..MaxAttempts
                       /\ received[b] =< attempts[b]
  BY DEF AttemptsCounted
<1>3. \/ received' = received
      \/ received' = [received EXCEPT ![a] = @ + 1] /\ received[a] < attempts[a]
  BY DEF MayBePosted, Posted, AttemptsCounted
<1>4. \A b \in Alert : received'[b] \in Nat /\ received'[b] =< attempts[b]
  BY <1>2, <1>3
<1>5. \A b \in Alert \ {a} : received'[b] = received[b] /\ pc'[b] = pc[b]
  BY <1>1, <1>3
<1>6. AttemptsCounted'
  BY <1>1, <1>4, <1>5 DEF AttemptsCounted
<1>7. received' \in [Alert -> 0..MaxAttempts]
  <2>1. \A b \in Alert : received'[b] \in 0..MaxAttempts
    BY <1>2, <1>4
  <2>2. received' \in [Alert -> Nat]
    BY <1>2, <1>3
  <2> QED
    BY <2>1, <2>2
<1> QED
  BY <1>1, <1>6, <1>7

LEMMA NextOK == IInv /\ [Next]_vars => IInv'
<1> SUFFICES ASSUME IInv, [Next]_vars PROVE IInv'
  OBVIOUS
<1> USE SlackHandlerAssumption DEF IInv, TypeOK
<1>1. ASSUME NEW a \in Alert, Dispatch(a) \/ Retry(a)
      PROVE  IInv'
  BY <1>1, AttemptOK DEF Dispatch, Retry
<1>2. ASSUME NEW a \in Alert, Succeeds(a)
      PROVE  IInv'
  <2>1. AttemptsCounted'
        /\ pc' \in [Alert -> {"idle", "posting", "backoff", "returned", "raised", "cancelled"}]
        /\ received' \in [Alert -> 0..MaxAttempts]
    BY <1>2, EndKeepsAttempts DEF Succeeds, MayBePosted
  <2>2. breaker' = NewBreaker /\ errors' = 0 /\ UNCHANGED <<attempts, session>>
    BY <1>2 DEF Succeeds, Succeed
  <2> QED
    BY <2>1, <2>2, NewBreakerIsBreaker DEF ErrorsOnRecord
<1>3. ASSUME NEW a \in Alert, Errs(a)
      PROVE  IInv'
  <2>1. AttemptsCounted'
        /\ pc' \in [Alert -> {"idle", "posting", "backoff", "returned", "raised", "cancelled"}]
        /\ received' \in [Alert -> 0..MaxAttempts]
    BY <1>3, EndKeepsAttempts DEF Errs, RetriesLeft
  <2>2. /\ breaker' = Fail(breaker, Threshold) /\ errors' = errors + 1
        /\ UNCHANGED <<attempts, session>>
    BY <1>3 DEF Errs, RecordFailure
  <2>3. /\ breaker' \in Breaker(Threshold) /\ breaker'.failures =< breaker.failures + 1
        /\ Consistent(breaker', Threshold)
        /\ breaker'.failures \in Nat /\ breaker.failures \in Nat
    BY <2>2, FailBreaker DEF ErrorsOnRecord, Breaker
  <2>4. breaker'.failures =< errors'
    BY <2>2, <2>3 DEF ErrorsOnRecord
  <2>5. breaker'.state # "CLOSED" => errors' >= Threshold
    BY <2>2, <2>3, <2>4 DEF Consistent
  <2> QED
    BY <2>1, <2>2, <2>3, <2>4, <2>5 DEF ErrorsOnRecord
<1>4. ASSUME NEW a \in Alert, TimesOut(a) \/ Cancel(a)
      PROVE  IInv'
  <2>1. AttemptsCounted'
        /\ pc' \in [Alert -> {"idle", "posting", "backoff", "returned", "raised", "cancelled"}]
        /\ received' \in [Alert -> 0..MaxAttempts]
    BY <1>4, EndKeepsAttempts DEF TimesOut, Cancel
  <2>2. UNCHANGED <<attempts, breaker, session, errors>>
    BY <1>4 DEF TimesOut, Cancel
  <2> QED
    BY <2>1, <2>2 DEF ErrorsOnRecord
<1>5. CASE Shutdown
  BY <1>5 DEF Shutdown, AttemptsCounted, ErrorsOnRecord
<1>6. CASE Elapse
  <2>1. breaker' \in Breaker(Threshold) /\ breaker'.state = breaker.state /\ breaker'.failures = breaker.failures
    BY <1>6, CooledDownBreaker DEF Elapse
  <2> QED
    BY <1>6, <2>1 DEF Elapse, AttemptsCounted, ErrorsOnRecord, Consistent
<1>7. CASE UNCHANGED vars
  BY <1>7 DEF vars, AttemptsCounted, ErrorsOnRecord
<1> QED
  BY <1>1, <1>2, <1>3, <1>4, <1>5, <1>6, <1>7 DEF Next

LEMMA AlwaysIInv == Spec => []IInv
  BY InitOK, NextOK, PTL DEF Spec

-----------------------------------------------------------------------------
\* The handler's state has its type: in particular no dispatch makes more than
\* max_attempts attempts, nor is an alert posted more often
\* (src/handlers/slack.py:79-141, src/utils/retry.py:65-71).
THEOREM TypeCorrect == Spec => []TypeOK
<1>1. IInv => TypeOK
  BY DEF IInv
<1> QED
  BY <1>1, AlwaysIInv, PTL

\* However many dispatches share the handler, one returns without having posted its alert
\* only when failure_threshold network errors are on record since the last success
\* (src/handlers/slack.py:89-91, resilience/circuit_breaker.py:25-58).
THEOREM SilenceMeansOutage == Spec => SilentDropNeedsOutage
<1> DEFINE Justified ==
      \A a \in Alert :
        pc[a] # "returned" /\ pc'[a] = "returned" /\ received'[a] = 0 => errors >= Threshold
<1>1. IInv /\ [Next]_vars => [Justified]_vars
  <2> SUFFICES ASSUME IInv, Next, NEW a \in Alert,
                      pc[a] # "returned", pc'[a] = "returned", received'[a] = 0
               PROVE  errors >= Threshold
    OBVIOUS
  <2> USE SlackHandlerAssumption DEF IInv, TypeOK
  <2>1. ASSUME NEW b \in Alert, Dispatch(b) \/ Retry(b)
        PROVE  errors >= Threshold
    <3>1. Refuses(breaker) \/ pc' = [pc EXCEPT ![b] = "raised"] \/ pc' = [pc EXCEPT ![b] = "posting"]
      BY <2>1 DEF Dispatch, Retry, Attempt, Goes
    <3>2. Refuses(breaker)
      BY <3>1
    <3> QED
      BY <3>2 DEF Refuses, ErrorsOnRecord
  <2>2. ASSUME NEW b \in Alert, Succeeds(b)
        PROVE  FALSE
    <3>1. b = a /\ received'[a] = received[a] + 1 /\ received[a] \in Nat
      BY <2>2 DEF Succeeds, Goes, Posted
    <3> QED
      BY <3>1
  <2>3. ASSUME NEW b \in Alert, Errs(b) \/ TimesOut(b) \/ Cancel(b)
        PROVE  FALSE
    <3>1. PICK place \in {"backoff", "raised", "cancelled"} : pc' = [pc EXCEPT ![b] = place]
      BY <2>3 DEF Errs, TimesOut, Cancel, Goes
    <3> QED
      BY <3>1
  <2>4. CASE Shutdown \/ Elapse
    BY <2>4 DEF Shutdown, Elapse
  <2> QED
    BY <2>1, <2>2, <2>3, <2>4 DEF Next
<1> HIDE DEF Justified
<1>2. Spec => [][Justified]_vars
  BY <1>1, AlwaysIInv, PTL DEF Spec
<1> QED
  BY <1>2 DEF Justified, SilentDropNeedsOutage

=============================================================================
