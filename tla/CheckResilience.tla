-------------------------- MODULE CheckResilience --------------------------
(***************************************************************************)
(* One CheckResilience object of runtime/resilience.py: the semaphore of   *)
(* max_inflight permits and the circuit breaker that all executions of one *)
(* metric_id share.  A caller is an execution (a task of a batch); the     *)
(* coroutine it runs is abstracted to its three possible ends: it returns, *)
(* it raises an Exception, or it is cancelled, by wait_for's timer or with *)
(* the whole batch.                                                        *)
(*                                                                         *)
(* asyncio.Semaphore is external: a waiter gets a permit when one is free. *)
(* This module leaves the order of the waiters open; CheckExecutor, which  *)
(* implements it, serves them first come first served as asyncio does.     *)
(***************************************************************************)
EXTENDS Circuit, FiniteSets

CONSTANTS
  Caller,       \* the executions that may share this object
  MaxInflight,  \* max_inflight
  Threshold,    \* circuit_breaker.failure_threshold
  CbEnabled     \* circuit_breaker.enabled

ASSUME CheckResilienceAssumption ==
  /\ IsFiniteSet(Caller)
  /\ MaxInflight \in Nat \ {0}
  /\ Threshold \in Nat \ {0}
  /\ CbEnabled \in BOOLEAN

VARIABLES
  pc,       \* where each caller is
  breaker   \* self.circuit_breaker

vars == <<pc, breaker>>

TypeOK ==
  /\ pc \in [Caller -> {"idle", "waiting", "running"}]
  /\ breaker \in Breaker(Threshold)

Waiting == {c \in Caller : pc[c] = "waiting"}
Running == {c \in Caller : pc[c] = "running"}

Init ==
  /\ pc = [c \in Caller |-> "idle"]
  /\ breaker = NewBreaker

\* Fault: one permit too many.
PermitFreeOffByOne == Cardinality(Running) =< MaxInflight

PermitFree == Cardinality(Running) < MaxInflight

-----------------------------------------------------------------------------
\* A caller holding a permit goes through circuit_breaker.call(), or straight
\* to the coroutine when the breaker is disabled.
Start(c) ==
  IF CbEnabled /\ Refuses(breaker)
    THEN /\ pc' = [pc EXCEPT ![c] = "idle"]
         /\ UNCHANGED breaker
    ELSE /\ pc' = [pc EXCEPT ![c] = "running"]
         /\ breaker' = IF CbEnabled THEN Admit(breaker) ELSE breaker

\* execute(): the semaphore is acquired at once when nobody waits for it.
Call(c) ==
  /\ pc[c] = "idle"
  /\ IF Waiting = {} /\ PermitFree
       THEN Start(c)
       ELSE /\ pc' = [pc EXCEPT ![c] = "waiting"]
            /\ UNCHANGED breaker

\* A waiter is handed a permit.
Acquire(c) ==
  /\ pc[c] = "waiting"
  /\ PermitFree
  /\ Start(c)

\* The coroutine returned.
Return(c) ==
  /\ pc[c] = "running"
  /\ pc' = [pc EXCEPT ![c] = "idle"]
  /\ breaker' = IF CbEnabled THEN Succeed(breaker) ELSE breaker

\* The coroutine raised an Exception.
Raise(c) ==
  /\ pc[c] = "running"
  /\ pc' = [pc EXCEPT ![c] = "idle"]
  /\ breaker' = IF CbEnabled THEN Fail(breaker, Threshold) ELSE breaker

\* CancelledError reaches a set of callers, waiting or running.  It derives
\* from BaseException, so neither branch of call() touches the breaker.
Cancel(S) ==
  /\ S # {}
  /\ S \subseteq Waiting \cup Running
  /\ pc' = [c \in Caller |-> IF c \in S THEN "idle" ELSE pc[c]]
  /\ UNCHANGED breaker

\* External: reset_timeout_seconds have passed since last_failure_time.
Elapse ==
  /\ Cooling(breaker)
  /\ breaker' = CooledDown(breaker)
  /\ UNCHANGED pc

Next ==
  \/ \E c \in Caller : Call(c) \/ Acquire(c) \/ Return(c) \/ Raise(c)
  \/ \E S \in SUBSET Caller : Cancel(S)
  \/ Elapse

Spec == Init /\ [][Next]_vars

(***************************************************************************)
(* Fairness.  Time passes; the daemon keeps executing the check, cycle     *)
(* after cycle; release() wakes some waiter; and wait_for's timer ends     *)
(* every execution that has not ended by itself.  Nothing is assumed of    *)
(* the coroutine, which may hang, nor of any one waiter, which may be      *)
(* cancelled each time it waits.                                           *)
(***************************************************************************)
Fairness ==
  /\ WF_vars(Elapse)
  /\ WF_vars(\E c \in Caller : Acquire(c))
  /\ \A c \in Caller : WF_vars(Call(c)) /\ WF_vars(Cancel({c}))

FairSpec == Spec /\ Fairness

-----------------------------------------------------------------------------
\* The counter and the state never contradict each other: the circuit is
\* closed exactly while fewer than failure_threshold failures are on record,
\* whatever order overlapping calls end in (runtime/resilience.py:38-51).
ClosedIffBelowThreshold ==
  (breaker.state = "CLOSED") <=> (breaker.failures < Threshold)

\* An open circuit always has a permit to spare, however many executions older than
\* its opening are still in flight or hang: the trial made after the reset timeout
\* never waits behind them (runtime/resilience.py:35-46, 63-73).
OpenLeavesPermit ==
  breaker.state = "OPEN" => Cardinality(Running) < MaxInflight

\* An open circuit closes only after the reset timeout and a successful trial
\* call: OPEN is left through HALF_OPEN alone, and only once cooled
\* (tests/unit/test_circuit_breaker.py:36, runtime/resilience.py:28-33,49-51).
ClosesThroughTrial ==
  [][breaker.state = "OPEN" /\ breaker'.state # "OPEN" =>
       breaker.cooled /\ breaker'.state = "HALF_OPEN"]_vars

\* An open circuit does not stay open for ever: however many late failures
\* push last_failure_time back and however long the coroutines hang, some call
\* is let through again (README.md:103, "resets after timeout").
OpenIsEventuallyTried == (breaker.state = "OPEN") ~> (breaker.state # "OPEN")

=============================================================================
