---------------------------- MODULE HttpIngestor ----------------------------
(***************************************************************************)
(* HttpApiIngestor.fetch of src/data/ingestors/http_api.py under the retry *)
(* decorator of src/utils/retry.py, as the executor awaits it.             *)
(*                                                                         *)
(* A fetch suspends until the headers come, while it reads the body, and   *)
(* in the backoff.  Each attempt has a session of its own with a total     *)
(* timeout; its end is a plain TimeoutError, not a ClientError.  The       *)
(* parser lets only configurations through that pass fetch's own checks,   *)
(* and none that sets the timeout.                                         *)
(*                                                                         *)
(* Time is counted in parts of a second, and a timer that is due fires     *)
(* before time passes.  External: the server, the network, the check's own *)
(* timeout and the end of the batch, which cancel the fetch.               *)
(***************************************************************************)
EXTENDS Evaluators

CONSTANTS
  Number,         \* the numbers that json_path may lead to, NaN among them: of the
                  \* others only the order counts, so that integers stand for floats
  Text,           \* what it leads to is not a number
  Huge,           \* it is an integer beyond the range of floats
  MaxAttempts,    \* max_attempts of the retry decorator
  Second,         \* units of time in a second
  MaxDelay,       \* its max_delay
  ClientTimeout,  \* the session's total timeout
  Timeout         \* timeout_seconds of the check

ASSUME HttpIngestorAssumption ==
  /\ {MaxAttempts, Second, MaxDelay, ClientTimeout, Timeout} \subseteq Nat \ {0}
  /\ NaN \in Number /\ None \notin Number /\ Number \ {NaN} \subseteq Int

VARIABLES
  json_path,  \* the check has a json_path
  pc,         \* where the fetch is
  attempts,   \* the attempts begun
  deadline,   \* when the attempt times out, or the backoff ends
  response,   \* what the last attempt has received of its response
  payload,    \* the MetricPayload returned
  error,      \* what was raised
  now         \* time since the check's pipeline started

vars == <<json_path, pc, attempts, deadline, response, payload, error, now>>

\* What _extract_value may find: a number, a string or a bool that float()
\* takes, something it refuses, an integer it overflows on, or nothing.
Found == Number \cup {Text, Huge, None}

Error == {"none", "network", "content_type", "invalid", "overflow", "timeout"}

TypeOK ==
  /\ json_path \in BOOLEAN
  /\ pc \in {"idle", "requesting", "reading", "backoff", "returned", "raised", "cancelled"}
  /\ attempts \in 0..MaxAttempts
  /\ deadline \in Int
  /\ response \in {None} \cup [ok : BOOLEAN, json : BOOLEAN]
  /\ payload \in {None} \cup [value : Number \cup {None}, raw : Found, timestamp : 0..Timeout]
  /\ error \in Error
  /\ now \in 0..Timeout

Init ==
  /\ json_path \in BOOLEAN
  /\ pc = "idle"
  /\ attempts = 0
  /\ deadline = 0
  /\ response = None
  /\ payload = None
  /\ error = "none"
  /\ now = 0

Pending == pc \in {"requesting", "reading", "backoff"}

-----------------------------------------------------------------------------
\* Fault: one attempt too many.
RetriesLeftOffByOne == attempts =< MaxAttempts

\* stop_after_attempt
RetriesLeft == attempts < MaxAttempts

\* _is_retryable_exception: IngestionErrors that say so, made from ClientErrors.
IsRetryable(e) == e = "network"

\* The exponential delay after the n-th attempt, and with up to a fifth of jitter.
Base(n) == IF 2^(n-1) * Second < MaxDelay THEN 2^(n-1) * Second ELSE MaxDelay
Longest(n) == Base(n) + Base(n) \div 5

\* Fault: the jitter replaces the delay.
BackoffAnywhere(n) == 0..Longest(n)

Backoff(n) == Base(n)..Longest(n)

\* An attempt raises e: the decorator sleeps, or raises it again.
Raise(e) ==
  IF IsRetryable(e) /\ RetriesLeft
    THEN /\ pc' = "backoff"
         /\ \E delay \in Backoff(attempts) : deadline' = now + delay
         /\ UNCHANGED error
    ELSE pc' = "raised" /\ error' = e /\ UNCHANGED deadline

\* One attempt up to its first await.
Attempt ==
  /\ pc' = "requesting"
  /\ attempts' = attempts + 1
  /\ deadline' = now + ClientTimeout
  /\ response' = None
  /\ UNCHANGED <<json_path, payload, error, now>>

\* The pipeline awaits its fetch.
Fetch == pc = "idle" /\ Attempt

\* The backoff is over.
Retry == pc = "backoff" /\ now = deadline /\ Attempt

\* Fault: the timeout is one between two reads, not a total.
HeadersRenewingTimeout ==
  /\ pc = "requesting"
  /\ response' \in [ok : {TRUE}, json : BOOLEAN]
  /\ pc' = "reading"
  /\ deadline' = now + ClientTimeout
  /\ UNCHANGED <<json_path, attempts, payload, error, now>>

\* The headers arrive: raise_for_status, and the type of a content to extract from.
Headers ==
  /\ pc = "requesting"
  /\ response' \in [ok : BOOLEAN, json : BOOLEAN]
  /\ \/ ~response'.ok /\ Raise("network")
     \/ response'.ok /\ json_path /\ ~response'.json /\ Raise("content_type")
     \/ /\ response'.ok /\ (json_path => response'.json)
        /\ pc' = "reading" /\ UNCHANGED <<deadline, error>>
  /\ UNCHANGED <<json_path, attempts, payload, now>>

\* Fault: a value that is not there is zero.
MeasuredAsZero(found) == IF found \in Number THEN found ELSE 0

\* float(extracted), or None.
Measured(found) == IF found \in Number THEN found ELSE None

\* A payload is returned, with what its json_path leads to.
Return(found) ==
  /\ payload' = [value     |-> IF json_path THEN Measured(found) ELSE None,
                 raw       |-> found,
                 timestamp |-> now]
  /\ pc' = "returned"
  /\ UNCHANGED <<deadline, error>>

\* The body has been read: a text without value, or a JSON document.
Body ==
  /\ pc = "reading"
  /\ \/ ~response.json /\ Return(None)
     \/ response.json /\ \E found \in Found :
          IF json_path /\ found = Huge
            THEN Raise("overflow") /\ UNCHANGED payload
            ELSE Return(found)
  /\ UNCHANGED <<json_path, attempts, response, now>>

\* The body cannot be decoded, or its document is no object, which MetricPayload does
\* not take; or aiohttp finds the content type to be another.
BadBody ==
  /\ pc = "reading"
  /\ \/ Raise("invalid")
     \/ response.json /\ Raise("content_type")
  /\ UNCHANGED <<json_path, attempts, response, payload, now>>

\* A ClientError: the connection is refused or lost.
ConnectionFails ==
  /\ pc \in {"requesting", "reading"}
  /\ Raise("network")
  /\ UNCHANGED <<json_path, attempts, response, payload, now>>

\* The session's total timeout.
TimesOut ==
  /\ pc \in {"requesting", "reading"}
  /\ now = deadline
  /\ Raise("timeout")
  /\ UNCHANGED <<json_path, attempts, response, payload, now>>

\* The check's timeout, or the end of the batch, at any time before it.
Cancel ==
  /\ Pending
  /\ pc' = "cancelled"
  /\ UNCHANGED <<json_path, attempts, deadline, response, payload, error, now>>

\* External: time passes.
Tick ==
  /\ Pending
  /\ now < deadline /\ now < Timeout
  /\ now' = now + 1
  /\ UNCHANGED <<json_path, pc, attempts, deadline, response, payload, error>>

Next ==
  \/ Fetch \/ Retry
  \/ Headers \/ Body \/ BadBody \/ ConnectionFails \/ TimesOut
  \/ Cancel \/ Tick

Spec == Init /\ [][Next]_vars

-----------------------------------------------------------------------------
\* The shortest and the longest that n backoffs, one after each attempt, take together.
ShortestBackoffs[n \in Nat] == IF n = 0 THEN 0 ELSE ShortestBackoffs[n-1] + Base(n)
LongestBackoffs[n \in Nat] == IF n = 0 THEN 0 ELSE LongestBackoffs[n-1] + Longest(n)

\* A network failure is reported only after all attempts, and after at least the
\* exponential backoffs between them, wherever in its response each attempt failed
\* (src/data/ingestors/http_api.py:46, 136-137, src/utils/retry.py:32-71).
FailureOutlastsBackoffs ==
  error = "network" =>
    /\ attempts = MaxAttempts
    /\ now >= ShortestBackoffs[MaxAttempts - 1]

\* A server that answers slowly, stalls in the body or fails again and again holds a
\* fetch no longer than the timeouts of the attempts begun and the backoffs between them
\* (src/data/ingestors/http_api.py:71-82, src/utils/retry.py:38-43).
FetchIsBounded ==
  pc \in {"requesting", "reading"} =>
    now =< attempts * ClientTimeout + LongestBackoffs[attempts - 1]

=============================================================================
