--------------------------- MODULE CircuitProofs ---------------------------
(***************************************************************************)
(* What the operators of Circuit return, for every threshold: lemmas for   *)
(* the modules that hold a breaker.                                        *)
(***************************************************************************)
EXTENDS Circuit, TLAPS

\* The counter and the state of a breaker say the same.
Consistent(b, threshold) == (b.state = "CLOSED") <=> (b.failures < threshold)

\* A fresh breaker, which is also what a success leaves, is well formed.
LEMMA NewBreakerIsBreaker ==
  ASSUME NEW threshold \in Nat \ {0}
  PROVE  /\ NewBreaker \in Breaker(threshold)
         /\ Consistent(NewBreaker, threshold)
         /\ NewBreaker.state = "CLOSED" /\ NewBreaker.failures = 0
BY DEF NewBreaker, Breaker, CircuitState, Consistent

\* Admitting a request leaves a well-formed breaker that is not open.
LEMMA AdmitBreaker ==
  ASSUME NEW threshold \in Nat \ {0}, NEW b \in Breaker(threshold)
  PROVE  /\ Admit(b) \in Breaker(threshold)
         /\ Consistent(b, threshold) => Consistent(Admit(b), threshold)
         /\ Admit(b).state # "OPEN"
         /\ Admit(b).failures = b.failures
         /\ b.state = "OPEN" => Admit(b).state = "HALF_OPEN"
         /\ b.state # "OPEN" => Admit(b).state = b.state
BY DEF Admit, Breaker, CircuitState, Consistent

\* A failure adds at most one to the count, and opens the circuit when the threshold is
\* reached or the trial has failed.
LEMMA FailBreaker ==
  ASSUME NEW threshold \in Nat \ {0}, NEW b \in Breaker(threshold)
  PROVE  /\ Fail(b, threshold) \in Breaker(threshold)
         /\ Consistent(b, threshold) => Consistent(Fail(b, threshold), threshold)
         /\ Fail(b, threshold).failures =< b.failures + 1
         /\ Fail(b, threshold).state \in {b.state, "OPEN"}
<1> DEFINE d == OneMoreFailure(b, threshold)
<1>1. /\ b = [state |-> b.state, failures |-> b.failures, cooled |-> b.cooled]
      /\ b.state \in CircuitState
      /\ b.failures \in 0..threshold
      /\ b.cooled \in BOOLEAN
  BY DEF Breaker
<1>2. /\ d.state = b.state
      /\ d.cooled = b.cooled
      /\ d.failures \in 0..threshold
      /\ d.failures =< b.failures + 1
      /\ d.failures = IF b.failures < threshold THEN b.failures + 1 ELSE threshold
      /\ d \in Breaker(threshold)
  BY <1>1 DEF OneMoreFailure, Breaker
<1>3. CASE b.state = "HALF_OPEN"
  <2>1. Fail(b, threshold) = [b EXCEPT !.state = "OPEN", !.cooled = FALSE]
    BY <1>3 DEF Fail, Opened
  <2>2. /\ Fail(b, threshold) \in Breaker(threshold)
        /\ Fail(b, threshold).state = "OPEN"
        /\ Fail(b, threshold).failures = b.failures
    BY <2>1, <1>1 DEF Breaker, CircuitState
  <2>3. b.failures =< b.failures + 1
    BY <1>1
  <2> QED
    BY <1>3, <2>2, <2>3 DEF Consistent
<1>4. CASE b.state # "HALF_OPEN" /\ d.failures >= threshold
  <2>1. Fail(b, threshold) = [d EXCEPT !.state = "OPEN", !.cooled = FALSE]
    BY <1>4 DEF Fail, Opened
  <2> HIDE DEF d
  <2>2. /\ Fail(b, threshold) \in Breaker(threshold)
        /\ Fail(b, threshold).state = "OPEN"
        /\ Fail(b, threshold).failures = d.failures
    BY <2>1, <1>2 DEF Breaker, CircuitState
  <2>3. ~(d.failures < threshold)
    BY <1>2, <1>4
  <2> QED
    BY <1>2, <2>2, <2>3 DEF Consistent
<1>5. CASE b.state # "HALF_OPEN" /\ ~(d.failures >= threshold)
  <2>1. Fail(b, threshold) = d
    BY <1>5 DEF Fail
  <2>2. d.failures < threshold /\ b.failures < threshold
    BY <1>1, <1>2, <1>5
  <2> QED
    BY <2>1, <2>2, <1>2 DEF Consistent
<1> QED
  BY <1>3, <1>4, <1>5

\* The passing of time changes neither the state nor the counter.
LEMMA CooledDownBreaker ==
  ASSUME NEW threshold \in Nat \ {0}, NEW b \in Breaker(threshold)
  PROVE  /\ CooledDown(b) \in Breaker(threshold)
         /\ CooledDown(b).state = b.state
         /\ CooledDown(b).failures = b.failures
BY DEF CooledDown, Breaker

=============================================================================
