---------------------------- MODULE SlackHandler ----------------------------
(***************************************************************************)
(* The SlackHandler of src/handlers/slack.py: one instance, one circuit    *)
(* breaker (resilience/circuit_breaker.py) and one HTTP session serve the  *)
(* dispatches of all checks.  dispatch() is wrapped by the retry decorator *)
(* of src/utils/retry.py, which calls it again after a backoff while it    *)
(* raises retryable errors.                                                *)
(*                                                                         *)
(* A dispatch suspends in session.post and in the backoff; between them an *)
(* attempt runs in one step.  This breaker differs from the one of         *)
(* runtime/resilience.py in three ways that Circuit abstracts from: it     *)
(* compares with >= where the other has >, counts failures in HALF_OPEN    *)
(* too, and stamps last_failure_time when CLOSED.  Its answers are the     *)
(* operators of Circuit.                                                   *)
(*                                                                         *)
(* External: the Slack server, which may process a request whose answer is *)
(* lost; aiohttp, whose errors are ClientErrors, except for the session's  *)
(* total timeout, a plain TimeoutError.                                    *)
(***************************************************************************)
EXTENDS Circuit, FiniteSets

CONSTANTS
  Alert,          \* the calls of dispatch(), one for each alert
  Misconfigured,  \* those whose webhook is not configured
  Threshold,      \* failure_threshold of the breaker
  MaxAttempts     \* max_attempts of the retry decorator

ASSUME SlackHandlerAssumption ==
  /\ IsFiniteSet(Alert)
  /\ Misconfigured \subseteq Alert
  /\ Threshold \in Nat \ {0}
  /\ MaxAttempts \in Nat \ {0}

VARIABLES
  pc,        \* where each dispatch is
  attempts,  \* the attempts it has begun
  received,  \* history: the copies of its alert that Slack has posted
  breaker,   \* self._breaker
  session,   \* self._session
  errors     \* history: ClientErrors since the last success, of all dispatches

vars == <<pc, attempts, received, breaker, session, errors>>

TypeOK ==
  /\ pc \in [Alert -> {"idle", "posting", "backoff", "returned", "raised", "cancelled"}]
  /\ attempts \in [Alert -> 0..MaxAttempts]
  /\ received \in [Alert -> 0..MaxAttempts]
  /\ breaker \in Breaker(Threshold)
  /\ session \in {"none", "open", "closed"}
  /\ errors \in Nat

Init ==
  /\ pc = [a \in Alert |-> "idle"]
  /\ attempts = [a \in Alert |-> 0]
  /\ received = [a \in Alert |-> 0]
  /\ breaker = NewBreaker
  /\ session = "none"
  /\ errors = 0

Goes(a, place) == pc' = [pc EXCEPT ![a] = place]

\* Slack posts the alert, or the request is lost on its way.
Posted(a) == received' = [received EXCEPT ![a] = @ + 1]
MayBePosted(a) == Posted(a) \/ UNCHANGED received

-----------------------------------------------------------------------------
\* Fault: the retry decorator retries for ever.
RetriesLeftForever(a) == TRUE

\* Another attempt is allowed by stop_after_attempt.
RetriesLeft(a) == attempts[a] < MaxAttempts

\* Fault: an outage is declared at the first error.
RecordFailureAtOnce(b) == Opened(b)

\* breaker.record_failure
RecordFailure(b) == Fail(b, Threshold)

\* allow_request answered False: dispatch logs it and returns.
Refused(a) == Goes(a, "returned")

\* One attempt up to its first await.  A missing webhook and a closed session
\* raise errors that are not retryable, once the breaker has let the call in.
Attempt(a) ==
  /\ attempts' = [attempts EXCEPT ![a] = @ + 1]
  /\ IF Refuses(breaker)
       THEN Refused(a) /\ UNCHANGED <<breaker, session>>
       ELSE /\ breaker' = Admit(breaker)
            /\ IF a \in Misconfigured \/ session = "closed"
                 THEN Goes(a, "raised") /\ UNCHANGED session
                 ELSE Goes(a, "posting") /\ session' = "open"
  /\ UNCHANGED <<received, errors>>

\* A handler is asked to dispatch.
Dispatch(a) == pc[a] = "idle" /\ Attempt(a)

\* The backoff is over.
Retry(a) == pc[a] = "backoff" /\ Attempt(a)

\* Slack answers with a status below 400.
Succeeds(a) ==
  /\ pc[a] = "posting"
  /\ Posted(a)
  /\ Goes(a, "returned")
  /\ breaker' = Succeed(breaker)
  /\ errors' = 0
  /\ UNCHANGED <<attempts, session>>

\* A ClientError: recorded, and raised as a retryable DispatchError.
Errs(a) ==
  /\ pc[a] = "posting"
  /\ MayBePosted(a)
  /\ Goes(a, IF RetriesLeft(a) THEN "backoff" ELSE "raised")
  /\ breaker' = RecordFailure(breaker)
  /\ errors' = errors + 1
  /\ UNCHANGED <<attempts, session>>

\* Fault: the session has no total timeout.
NeverTimesOut(a) == FALSE /\ UNCHANGED vars

\* The session's total timeout: neither recorded nor retried.
TimesOut(a) ==
  /\ pc[a] = "posting"
  /\ MayBePosted(a)
  /\ Goes(a, "raised")
  /\ UNCHANGED <<attempts, breaker, session, errors>>

\* The check's own timeout, or the end of the batch.
Cancel(a) ==
  /\ \/ pc[a] = "posting" /\ MayBePosted(a)
     \/ pc[a] = "backoff" /\ UNCHANGED received
  /\ Goes(a, "cancelled")
  /\ UNCHANGED <<attempts, breaker, session, errors>>

\* shutdown(): the program's executions are over, the session is closed and kept.
Shutdown ==
  /\ \A a \in Alert : pc[a] \notin {"posting", "backoff"}
  /\ session = "open"
  /\ session' = "closed"
  /\ UNCHANGED <<pc, attempts, received, breaker, errors>>

\* External: recovery_timeout has passed since last_failure_time.
Elapse ==
  /\ Cooling(breaker)
  /\ breaker' = CooledDown(breaker)
  /\ UNCHANGED <<pc, attempts, received, session, errors>>

Next ==
  \/ \E a \in Alert :
       Dispatch(a) \/ Retry(a) \/ Succeeds(a) \/ Errs(a) \/ TimesOut(a) \/ Cancel(a)
  \/ Shutdown
  \/ Elapse

Spec == Init /\ [][Next]_vars

\* The session's total timeout ends every post, the event loop every backoff.
Fairness == \A a \in Alert : WF_vars(TimesOut(a)) /\ WF_vars(Retry(a))

FairSpec == Spec /\ Fairness

-----------------------------------------------------------------------------
\* An alert is dropped in silence only in an outage: a dispatch that returns
\* although no copy was posted finds failure_threshold network errors on record
\* with no success after them, of whichever dispatches
\* (src/handlers/slack.py:89-91, resilience/circuit_breaker.py:25-58).
SilentDropNeedsOutage ==
  [][\A a \in Alert :
       pc[a] # "returned" /\ pc'[a] = "returned" /\ received'[a] = 0 =>
         errors >= Threshold]_vars

\* Every dispatch ends, after at most max_attempts posts, however they interleave
\* with those of other checks (src/handlers/slack.py:79, src/utils/retry.py:65-71).
DispatchEnds ==
  \A a \in Alert :
    pc[a] \in {"posting", "backoff"} ~> pc[a] \in {"returned", "raised", "cancelled"}

=============================================================================
