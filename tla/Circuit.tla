------------------------------ MODULE Circuit ------------------------------
(***************************************************************************)
(* The circuit breaker object of runtime/resilience.py as a value, with    *)
(* the operators its call() method applies to it.  Every body guarded by   *)
(* the breaker's asyncio.Lock contains no await, so each of them is one    *)
(* indivisible step of the event loop and an operator on a value is a      *)
(* faithful rendering.                                                     *)
(*                                                                         *)
(* Data abstractions.                                                      *)
(*  - Time: the code only ever asks whether more than                      *)
(*    reset_timeout_seconds have elapsed since last_failure_time, and only *)
(*    in state OPEN.  The answer is the field cooled: FALSE whenever       *)
(*    last_failure_time is written, turned TRUE by the passing of time.    *)
(*  - Counting: failures is compared with failure_threshold by >= only and *)
(*    written by += 1 and = 0 only, so a count above the threshold is      *)
(*    indistinguishable from the threshold itself; the model saturates.    *)
(***************************************************************************)
EXTENDS Naturals

CircuitState == {"CLOSED", "OPEN", "HALF_OPEN"}

Breaker(threshold) ==
  [state : CircuitState, failures : 0..threshold, cooled : BOOLEAN]

NewBreaker == [state |-> "CLOSED", failures |-> 0, cooled |-> FALSE]

-----------------------------------------------------------------------------
(***************************************************************************)
(* Faulty variants of the operators below.  No specification uses them:    *)
(* each shows that a checked property notices the fault.                   *)
(***************************************************************************)

\* The reset timeout is never consulted.
RefusesForever(b) == b.state = "OPEN"

\* The reset timeout alone closes the circuit, without a trial call.
AdmitAndClose(b) ==
  IF b.state = "OPEN" THEN NewBreaker ELSE b

\* A success closes the circuit and forgets to reset the failure counter.
SucceedKeepingCount(b) == [b EXCEPT !.state = "CLOSED", !.cooled = FALSE]

\* A state outside CircuitState.
OpenedMisspelt(b) == [b EXCEPT !.state = "OPENED", !.cooled = FALSE]

-----------------------------------------------------------------------------
\* call() raises CircuitBreakerOpenException.
Refuses(b) == b.state = "OPEN" /\ ~b.cooled

\* call() lets the request through; an open breaker becomes half-open.
Admit(b) ==
  IF b.state = "OPEN" THEN [b EXCEPT !.state = "HALF_OPEN", !.cooled = FALSE]
                      ELSE b

\* The else branch of call(): the coroutine returned.
Succeed(b) == NewBreaker

\* The assignments that open the breaker and stamp last_failure_time.
Opened(b) == [b EXCEPT !.state = "OPEN", !.cooled = FALSE]

\* failures += 1, saturating at the threshold.
OneMoreFailure(b, threshold) ==
  [b EXCEPT !.failures = IF @ < threshold THEN @ + 1 ELSE threshold]

\* The except branch of call(): the coroutine raised an Exception.
Fail(b, threshold) ==
  IF b.state = "HALF_OPEN" THEN Opened(b)
  ELSE IF OneMoreFailure(b, threshold).failures >= threshold
         THEN Opened(OneMoreFailure(b, threshold))
         ELSE OneMoreFailure(b, threshold)

\* External: the clock has moved past last_failure_time + reset_timeout_seconds.
Cooling(b) == b.state = "OPEN" /\ ~b.cooled
CooledDown(b) == [b EXCEPT !.cooled = TRUE]

=============================================================================
