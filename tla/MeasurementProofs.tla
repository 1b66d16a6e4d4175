------------------------- MODULE MeasurementProofs -------------------------
(***************************************************************************)
(* Theorems about Measurement, for any numbers, rules, timeouts and number *)
(* of attempts.                                                            *)
(***************************************************************************)
EXTENDS Measurement, WellFoundedInduction, TLAPS

\* A body is read only after headers that report no error and, for a check with a
\* json_path, a JSON document.
ReadsGoodResponse ==
  pc = "reading" =>
    /\ response \in [ok : {TRUE}, json : BOOLEAN]
    /\ json_path => response.json

\* A payload that carries a value has it from the document.
PayloadIsEvidence ==
  pc = "returned" =>
    /\ payload.value \in Number \cup {None}
    /\ payload.value # None =>
         response.ok /\ response.json /\ payload.raw \in Number

\* A fetch that will make another attempt has one left.
AttemptIsLeft == pc \in {"idle", "backoff"} => attempts < MaxAttempts

IInv == TypeOK /\ AttemptIsLeft /\ ReadsGoodResponse /\ PayloadIsEvidence

\* The constants are positive, and a number is a value.
LEMMA Constants ==
  /\ MaxAttempts \in Nat /\ MaxAttempts > 0
  /\ ClientTimeout \in Nat
  /\ Timeout \in Nat
  /\ None \notin Number
BY HttpIngestorAssumption

\* What Raise does: the fetch goes on to its backoff, or ends with the error.
LEMMA RaiseOutcome ==
  ASSUME TypeOK, NEW e \in Error, Raise(e)
  PROVE  /\ pc' \in {"backoff", "raised"}
         /\ pc' = "backoff" => attempts < MaxAttempts
         /\ deadline' \in Int
         /\ error' \in Error
<1>1. CASE IsRetryable(e) /\ RetriesLeft
  BY <1>1 DEF Raise, Backoff, RetriesLeft, TypeOK
<1>2. CASE ~(IsRetryable(e) /\ RetriesLeft)
  BY <1>2 DEF Raise, TypeOK
<1>. QED  BY <1>1, <1>2

\* An attempt that may be made leaves a good state.
LEMMA AttemptOutcome ==
  ASSUME IInv, Attempt, pc \in {"idle", "backoff"}
  PROVE  IInv'
BY Constants DEF Attempt, IInv, TypeOK, AttemptIsLeft, ReadsGoodResponse, PayloadIsEvidence

\* An attempt that ends with an error leaves a good state.
LEMMA FailureOutcome ==
  ASSUME IInv, NEW e \in Error, Raise(e),
         response' \in {None} \cup [ok : BOOLEAN, json : BOOLEAN],
         UNCHANGED <<json_path, attempts, payload, now>>
  PROVE  IInv'
<1>1. TypeOK  BY DEF IInv
<1>2. pc' \in {"backoff", "raised"} /\ (pc' = "backoff" => attempts < MaxAttempts)
  BY <1>1, RaiseOutcome
<1>3. deadline' \in Int /\ error' \in Error
  BY <1>1, RaiseOutcome
<1>4. TypeOK'
  BY <1>1, <1>2, <1>3 DEF TypeOK
<1>. QED
  BY <1>2, <1>4 DEF IInv, AttemptIsLeft, ReadsGoodResponse, PayloadIsEvidence

\* Measured takes numbers only.
LEMMA MeasuredIsFound ==
  ASSUME NEW found \in Found
  PROVE  /\ Measured(found) \in Number \cup {None}
         /\ Measured(found) # None => found \in Number
BY DEF Measured, Found

\* A payload made from a response that was good to read leaves a good state.
LEMMA ReturnOutcome ==
  ASSUME IInv, NEW found \in Found, Return(found),
         pc = "reading", response.json \/ found = None,
         UNCHANGED <<json_path, attempts, response, now>>
  PROVE  IInv'
<1>. DEFINE value == IF json_path THEN Measured(found) ELSE None
<1>1. value \in Number \cup {None}
  BY MeasuredIsFound
<1>2. payload' = [value |-> value, raw |-> found, timestamp |-> now]
  BY DEF Return
<1>3. pc' = "returned"
  BY DEF Return
<1>4. TypeOK'
  BY <1>1, <1>2, <1>3 DEF IInv, TypeOK, Return
<1>5. value # None => found \in Number /\ json_path
  BY MeasuredIsFound
<1>6. response.ok /\ (json_path => response.json)
  BY DEF IInv, ReadsGoodResponse
<1>. HIDE DEF value
<1>7. PayloadIsEvidence'
  BY <1>1, <1>2, <1>3, <1>5, <1>6 DEF PayloadIsEvidence
<1>. QED
  BY <1>3, <1>4, <1>7 DEF IInv, AttemptIsLeft, ReadsGoodResponse

\* The invariant holds initially.
LEMMA InitIInv == Init => IInv
BY Constants DEF Init, IInv, TypeOK, AttemptIsLeft, ReadsGoodResponse, PayloadIsEvidence, Error

\* Every step preserves it.
LEMMA NextIInv == IInv /\ [Next]_vars => IInv'
<1> SUFFICES ASSUME IInv, [Next]_vars
             PROVE  IInv'
  OBVIOUS
<1>0. {"network", "content_type", "invalid", "overflow", "timeout"} \subseteq Error
  BY DEF Error
<1>t. response \in {None} \cup [ok : BOOLEAN, json : BOOLEAN]
  BY DEF IInv, TypeOK
<1>1. CASE Fetch
  BY <1>1, AttemptOutcome DEF Fetch
<1>2. CASE Retry
  BY <1>2, AttemptOutcome DEF Retry
<1>3. CASE Headers
  <2>1. CASE ~response'.ok /\ Raise("network")
    BY <1>0, <1>3, <2>1, FailureOutcome DEF Headers
  <2>2. CASE response'.ok /\ json_path /\ ~response'.json /\ Raise("content_type")
    BY <1>0, <1>3, <2>2, FailureOutcome DEF Headers
  <2>3. CASE /\ response'.ok /\ (json_path => response'.json)
             /\ pc' = "reading" /\ UNCHANGED <<deadline, error>>
    <3>1. response' \in [ok : {TRUE}, json : BOOLEAN]
      BY <1>3, <2>3 DEF Headers
    <3>2. UNCHANGED <<json_path, attempts, payload, now>>
      BY <1>3 DEF Headers
    <3>. QED
      BY <2>3, <3>1, <3>2
      DEF IInv, TypeOK, AttemptIsLeft, ReadsGoodResponse, PayloadIsEvidence
  <2>. QED
    BY <1>3, <2>1, <2>2, <2>3 DEF Headers
<1>4. CASE Body
  <2>. pc = "reading" /\ UNCHANGED <<json_path, attempts, response, now>>
    BY <1>4 DEF Body
  <2>1. CASE ~response.json /\ Return(None)
    <3>1. None \in Found
      BY DEF Found
    <3>. QED
      BY <2>1, <3>1, ReturnOutcome
  <2>2. ASSUME NEW found \in Found, response.json, Return(found)
        PROVE  IInv'
    BY <2>2, ReturnOutcome
  <2>3. CASE Raise("overflow") /\ UNCHANGED payload
    BY <1>0, <1>t, <2>3, FailureOutcome
  <2>. QED
    BY <1>4, <2>1, <2>2, <2>3 DEF Body
<1>5. CASE BadBody
  BY <1>0, <1>t, <1>5, FailureOutcome DEF BadBody
<1>6. CASE ConnectionFails
  BY <1>0, <1>t, <1>6, FailureOutcome DEF ConnectionFails
<1>7. CASE TimesOut
  BY <1>0, <1>t, <1>7, FailureOutcome DEF TimesOut
<1>8. CASE Cancel
  BY <1>8 DEF Cancel, Pending, IInv, TypeOK, AttemptIsLeft, ReadsGoodResponse, PayloadIsEvidence
<1>9. CASE Tick
  <2>1. TypeOK /\ now < Timeout /\ now' = now + 1
    BY <1>9 DEF Tick, IInv
  <2>2. now' \in 0..Timeout
    BY <2>1, Constants DEF TypeOK
  <2>3. UNCHANGED <<json_path, pc, attempts, deadline, response, payload, error>>
    BY <1>9 DEF Tick
  <2>4. TypeOK'
    BY <2>1, <2>2, <2>3 DEF TypeOK
  <2>5. pc' # "returned"
    BY <1>9, <2>3 DEF Tick, Pending
  <2>6. AttemptIsLeft'
    BY <2>3 DEF IInv, AttemptIsLeft
  <2>7. ReadsGoodResponse'
    BY <2>3 DEF IInv, ReadsGoodResponse
  <2>8. PayloadIsEvidence'
    BY <2>5 DEF PayloadIsEvidence
  <2>. QED
    BY <2>4, <2>6, <2>7, <2>8 DEF IInv
<1>10. CASE UNCHANGED vars
  <2>1. TypeOK'
    BY <1>10 DEF vars, IInv, TypeOK
  <2>2. AttemptIsLeft' /\ ReadsGoodResponse'
    BY <1>10 DEF vars, IInv, AttemptIsLeft, ReadsGoodResponse
  <2>3. PayloadIsEvidence'
    BY <1>10 DEF vars, IInv, PayloadIsEvidence
  <2>. QED
    BY <2>1, <2>2, <2>3 DEF IInv
<1>. QED
  BY <1>1, <1>2, <1>3, <1>4, <1>5, <1>6, <1>7, <1>8, <1>9, <1>10 DEF Next

\* The invariant holds of every behaviour.
LEMMA Invariant == Spec => []IInv
BY InitIInv, NextIInv, PTL DEF Spec

\* Every reachable state is well typed; in particular no attempt is made beyond
\* max_attempts (src/data/ingestors/http_api.py:46-137, src/utils/retry.py:65-71).
THEOREM TypeCorrect == Spec => []TypeOK
<1>1. IInv => TypeOK
  BY DEF IInv
<1>. QED
  BY <1>1, Invariant, PTL

\* No threshold rule is quiet for want of data, whatever the server answers and
\* whatever the rules are (src/data/ingestors/http_api.py:93-135,
\* src/core/evaluators/thresholds.py:13-22).
THEOREM QuietIsMeasured == Spec => []NothingPassesUnmeasured
<1>1. IInv => NothingPassesUnmeasured
  BY DEF IInv, PayloadIsEvidence, NothingPassesUnmeasured, Quiet, Alerts, ThresholdAlerts
<1>. QED
  BY <1>1, Invariant, PTL

-----------------------------------------------------------------------------
(***************************************************************************)
(* Sums over the attempts: a function defined by recursion on the naturals *)
(* is what its equation says.  Induction is by the least element of a set, *)
(* as a theorem about any predicate cannot be instantiated.                *)
(***************************************************************************)
Below == {pair \in Nat \X Nat : pair[1] < pair[2]}

LEMMA BelowIsWellFounded == IsWellFoundedOn(Below, Nat)
BY NatLessThanWellFounded DEF OpToRel, Below

\* A set with 0 and every successor of its members is all of Nat.
LEMMA Induction ==
  ASSUME NEW S \in SUBSET Nat, 0 \in S, \A n \in S : n + 1 \in S
  PROVE  \A n \in Nat : n \in S
<1> SUFFICES ASSUME Nat \ S # {} PROVE FALSE
  OBVIOUS
<1>1. PICK least \in Nat \ S : \A n \in Nat \ S : ~(<<n, least>> \in Below)
  <2>1. Nat \ S \subseteq Nat
    OBVIOUS
  <2> QED
    BY <2>1, BelowIsWellFounded, WFMin
<1>2. least \in Nat /\ least # 0
  OBVIOUS
<1>3. least - 1 \in Nat /\ least - 1 < least /\ (least - 1) + 1 = least
  BY <1>2
<1>4. <<least - 1, least>> \in Below
  BY <1>2, <1>3 DEF Below
<1>5. least - 1 \in S
  BY <1>1, <1>3, <1>4
<1> QED
  BY <1>3, <1>5

\* The sums of d up to n.
SumsUpTo(d, n) ==
  {g \in [0..n -> Int] : g[0] = 0 /\ \A i \in 1..n : g[i] = g[i-1] + d[i]}

LEMMA SumsExist ==
  ASSUME NEW d \in [Nat -> Int]
  PROVE  \A n \in Nat : SumsUpTo(d, n) # {}
<1> DEFINE S == {n \in Nat : SumsUpTo(d, n) # {}}
<1>1. 0 \in S
  <2>1. [i \in 0..0 |-> 0] \in SumsUpTo(d, 0)
    BY DEF SumsUpTo
  <2> QED
    BY <2>1
<1>2. ASSUME NEW n \in S PROVE n + 1 \in S
  <2>1. PICK g \in SumsUpTo(d, n) : TRUE
    BY <1>2
  <2>2. /\ n \in Nat /\ g \in [0..n -> Int] /\ g[0] = 0
        /\ \A i \in 1..n : g[i] = g[i-1] + d[i]
    BY <2>1 DEF SumsUpTo
  <2> DEFINE h == [i \in 0..(n + 1) |-> IF i = n + 1 THEN g[n] + d[n + 1] ELSE g[i]]
  <2>3. g[n] \in Int /\ d[n + 1] \in Int
    BY <2>2
  <2>4. h \in [0..(n + 1) -> Int]
    BY <2>2, <2>3
  <2>5. h[0] = 0
    BY <2>2
  <2>6. ASSUME NEW i \in 1..(n + 1) PROVE h[i] = h[i-1] + d[i]
    <3>1. i - 1 \in 0..(n + 1) /\ i \in 0..(n + 1) /\ i - 1 # n + 1 /\ i - 1 \in 0..n
      BY <2>2
    <3>2. h[i-1] = g[i-1]
      BY <3>1
    <3>3. CASE i = n + 1
      BY <2>2, <3>1, <3>2, <3>3
    <3>4. CASE i # n + 1
      <4>1. i \in 1..n /\ h[i] = g[i]
        BY <2>2, <3>1, <3>4
      <4> QED
        BY <2>2, <3>2, <4>1
    <3> QED
      BY <3>3, <3>4
  <2> HIDE DEF h
  <2>7. h \in SumsUpTo(d, n + 1)
    BY <2>4, <2>5, <2>6 DEF SumsUpTo
  <2> QED
    BY <2>2, <2>7
<1> HIDE DEF S
<1>3. S \in SUBSET Nat
  BY DEF S
<1>4. \A n \in Nat : n \in S
  BY <1>1, <1>2, <1>3, Induction
<1> QED
  BY <1>4 DEF S

LEMMA SumsAgree ==
  ASSUME NEW d, NEW m \in Nat, NEW n \in Nat, NEW g \in SumsUpTo(d, m), NEW h \in SumsUpTo(d, n)
  PROVE  \A i \in Nat : i =< m /\ i =< n => g[i] = h[i]
<1> DEFINE S == {i \in Nat : i =< m /\ i =< n => g[i] = h[i]}
<1>1. 0 \in S
  BY DEF SumsUpTo
<1>2. ASSUME NEW i \in S PROVE i + 1 \in S
  <2>1. CASE i + 1 =< m /\ i + 1 =< n
    <3>1. i + 1 \in 1..m /\ i + 1 \in 1..n /\ i =< m /\ i =< n /\ (i + 1) - 1 = i
      BY <2>1
    <3>2. g[i + 1] = g[i] + d[i + 1] /\ h[i + 1] = h[i] + d[i + 1]
      BY <3>1 DEF SumsUpTo
    <3> QED
      BY <3>1, <3>2
  <2>2. CASE ~(i + 1 =< m /\ i + 1 =< n)
    BY <2>2
  <2> QED
    BY <2>1, <2>2
<1> HIDE DEF S
<1>3. S \in SUBSET Nat
  BY DEF S
<1>4. \A i \in Nat : i \in S
  BY <1>1, <1>2, <1>3, Induction
<1> QED
  BY <1>4 DEF S

\* There is the function that the recursive definition of a sum speaks of.
LEMMA SumIsDefined ==
  ASSUME NEW d \in [Nat -> Int]
  PROVE  \E f \in [Nat -> Int] : f = [n \in Nat |-> IF n = 0 THEN 0 ELSE f[n-1] + d[n]]
<1> DEFINE G(n) == CHOOSE g \in SumsUpTo(d, n) : TRUE
           f == [n \in Nat |-> G(n)[n]]
<1>1. \A n \in Nat : G(n) \in SumsUpTo(d, n)
  BY SumsExist
<1> HIDE DEF G
<1>2. \A n \in Nat : G(n)[n] \in Int
  BY <1>1 DEF SumsUpTo
<1>3. f[0] = 0
  BY <1>1 DEF SumsUpTo
<1>4. ASSUME NEW n \in Nat, n # 0 PROVE f[n] = f[n-1] + d[n]
  <2>1. n - 1 \in Nat /\ n \in 1..n /\ n - 1 =< n /\ n - 1 =< n - 1
    BY <1>4
  <2>2. G(n)[n] = G(n)[n-1] + d[n]
    BY <1>1, <2>1 DEF SumsUpTo
  <2>3. G(n)[n-1] = G(n-1)[n-1]
    BY <1>1, <2>1, SumsAgree
  <2> QED
    BY <2>1, <2>2, <2>3
<1>5. f \in [Nat -> Int]
  BY <1>2
<1>6. \A n \in Nat : f[n] = IF n = 0 THEN 0 ELSE f[n-1] + d[n]
  BY <1>3, <1>4
<1>7. f = [n \in Nat |-> f[n]]
  OBVIOUS
<1> HIDE DEF f
<1>8. f = [n \in Nat |-> IF n = 0 THEN 0 ELSE f[n-1] + d[n]]
  BY <1>6, <1>7
<1> QED
  BY <1>5, <1>8

\* Whatever satisfies the equation of a sum of integers is one.
LEMMA SumIsInt ==
  ASSUME NEW d \in [Nat -> Int], NEW f, f = [n \in Nat |-> IF n = 0 THEN 0 ELSE f[n-1] + d[n]]
  PROVE  f \in [Nat -> Int]
<1> DEFINE S == {n \in Nat : f[n] \in Int}
<1>1. \A n \in Nat : f[n] = IF n = 0 THEN 0 ELSE f[n-1] + d[n]
  OBVIOUS
<1>2. 0 \in S
  BY <1>1
<1>3. ASSUME NEW n \in S PROVE n + 1 \in S
  <2>1. n + 1 \in Nat /\ n + 1 # 0 /\ (n + 1) - 1 = n
    OBVIOUS
  <2>2. f[n + 1] = f[n] + d[n + 1] /\ f[n] \in Int /\ d[n + 1] \in Int
    BY <1>1, <2>1
  <2>. QED
    BY <2>1, <2>2
<1>4. S \in SUBSET Nat
  OBVIOUS
<1>. HIDE DEF S
<1>5. \A n \in Nat : n \in S
  BY <1>2, <1>3, <1>4, Induction
<1>6. \A n \in Nat : f[n] \in Int
  BY <1>5 DEF S
<1>7. f = [n \in Nat |-> f[n]]
  OBVIOUS
<1>. QED
  BY <1>6, <1>7

-----------------------------------------------------------------------------
(***************************************************************************)
(* The time that a fetch takes.                                            *)
(***************************************************************************)

\* An attempt has at least the backoffs before it behind it, and ends by its deadline,
\* which the timeouts and the backoffs bound; so does a backoff, which counts too.
Timeline ==
  /\ pc = "idle" => attempts = 0 /\ now = 0
  /\ pc \in {"requesting", "reading"} =>
       /\ attempts >= 1
       /\ ShortestBackoffs[attempts - 1] =< now
       /\ now =< deadline
       /\ deadline =< attempts * ClientTimeout + LongestBackoffs[attempts - 1]
  /\ pc = "backoff" =>
       /\ attempts >= 1
       /\ ShortestBackoffs[attempts] =< deadline
       /\ deadline =< attempts * ClientTimeout + LongestBackoffs[attempts]
  /\ error = "network" =>
       /\ pc = "raised"
       /\ attempts = MaxAttempts
       /\ ShortestBackoffs[MaxAttempts - 1] =< now

\* A delay is a whole number of units of time.
LEMMA DelayIsInt ==
  ASSUME NEW n \in Nat \ {0}
  PROVE  Base(n) \in Int /\ Longest(n) \in Int
<1>1. n - 1 \in Nat /\ Second \in Nat /\ MaxDelay \in Nat
  BY HttpIngestorAssumption
<1>2. 2^(n-1) \in Int
  BY <1>1
<1>3. \A i \in Int, s \in Nat : i * s \in Int
  OBVIOUS
<1>4. 2^(n-1) * Second \in Int
  BY <1>1, <1>2, <1>3
<1>5. Base(n) \in Int
  BY <1>1, <1>4 DEF Base
<1>. HIDE DEF Base
<1>. QED
  BY <1>5 DEF Longest

\* The sums of the backoffs are what their definitions say.
LEMMA ShortestBackoffsAdd ==
  /\ ShortestBackoffs \in [Nat -> Int]
  /\ ShortestBackoffs[0] = 0
  /\ \A n \in Nat \ {0} : ShortestBackoffs[n] = ShortestBackoffs[n-1] + Base(n)
<1>. DEFINE d == [n \in Nat |-> IF n = 0 THEN 0 ELSE Base(n)]
<1>1. d \in [Nat -> Int]
  BY DelayIsInt
<1>2. PICK f \in [Nat -> Int] : f = [n \in Nat |-> IF n = 0 THEN 0 ELSE f[n-1] + d[n]]
  <2>. HIDE DEF d
  <2>. QED  BY <1>1, SumIsDefined
<1>3. \A n \in Nat : n # 0 => d[n] = Base(n)
  OBVIOUS
<1>. HIDE DEF d
<1>4. \A g : [n \in Nat |-> IF n = 0 THEN 0 ELSE g[n-1] + d[n]]
               = [n \in Nat |-> IF n = 0 THEN 0 ELSE g[n-1] + Base(n)]
  BY <1>3
<1>5. \E g : g = [n \in Nat |-> IF n = 0 THEN 0 ELSE g[n-1] + Base(n)]
  BY <1>2, <1>4
<1>6. ShortestBackoffs = [n \in Nat |-> IF n = 0 THEN 0 ELSE ShortestBackoffs[n-1] + Base(n)]
  BY <1>5 DEF ShortestBackoffs
<1>. DEFINE sum == ShortestBackoffs
<1>7. sum = [n \in Nat |-> IF n = 0 THEN 0 ELSE sum[n-1] + d[n]]
  BY <1>4, <1>6
<1>. HIDE DEF sum
<1>8. sum[0] = 0 /\ \A n \in Nat \ {0} : sum[n] = sum[n-1] + d[n]
  BY <1>7
<1>9. sum \in [Nat -> Int]
  BY <1>1, <1>7, <1>8, SumIsInt
<1>. QED
  BY <1>3, <1>8, <1>9 DEF sum

LEMMA LongestBackoffsAdd ==
  /\ LongestBackoffs \in [Nat -> Int]
  /\ LongestBackoffs[0] = 0
  /\ \A n \in Nat \ {0} : LongestBackoffs[n] = LongestBackoffs[n-1] + Longest(n)
<1>. DEFINE d == [n \in Nat |-> IF n = 0 THEN 0 ELSE Longest(n)]
<1>1. d \in [Nat -> Int]
  BY DelayIsInt
<1>2. PICK f \in [Nat -> Int] : f = [n \in Nat |-> IF n = 0 THEN 0 ELSE f[n-1] + d[n]]
  <2>. HIDE DEF d
  <2>. QED  BY <1>1, SumIsDefined
<1>3. \A n \in Nat : n # 0 => d[n] = Longest(n)
  OBVIOUS
<1>. HIDE DEF d
<1>4. \A g : [n \in Nat |-> IF n = 0 THEN 0 ELSE g[n-1] + d[n]]
               = [n \in Nat |-> IF n = 0 THEN 0 ELSE g[n-1] + Longest(n)]
  BY <1>3
<1>5. \E g : g = [n \in Nat |-> IF n = 0 THEN 0 ELSE g[n-1] + Longest(n)]
  BY <1>2, <1>4
<1>6. LongestBackoffs = [n \in Nat |-> IF n = 0 THEN 0 ELSE LongestBackoffs[n-1] + Longest(n)]
  BY <1>5 DEF LongestBackoffs
<1>. DEFINE sum == LongestBackoffs
<1>7. sum = [n \in Nat |-> IF n = 0 THEN 0 ELSE sum[n-1] + d[n]]
  BY <1>4, <1>6
<1>. HIDE DEF sum
<1>8. sum[0] = 0 /\ \A n \in Nat \ {0} : sum[n] = sum[n-1] + d[n]
  BY <1>7
<1>9. sum \in [Nat -> Int]
  BY <1>1, <1>7, <1>8, SumIsInt
<1>. QED
  BY <1>3, <1>8, <1>9 DEF sum

\* One more attempt, one more timeout.
LEMMA OneMoreTimeout ==
  \A n \in Nat : /\ n * ClientTimeout \in Int
                 /\ (n + 1) * ClientTimeout = n * ClientTimeout + ClientTimeout
<1>1. \A n \in Nat, t \in Nat : n * t \in Int /\ (n + 1) * t = n * t + t
  OBVIOUS
<1>. QED
  BY <1>1, Constants

\* An attempt that fails leaves the fetch within its times.
LEMMA RaiseInTime ==
  ASSUME TypeOK, Timeline, pc \in {"requesting", "reading"}, NEW e \in Error, Raise(e),
         UNCHANGED <<attempts, now>>
  PROVE  Timeline'
<1>1. PICK a, t, long, short : /\ a = attempts /\ t = a * ClientTimeout
                               /\ long = LongestBackoffs[a - 1] /\ short = ShortestBackoffs[a - 1]
  OBVIOUS
<1>2. /\ a \in Nat \ {0} /\ a =< MaxAttempts /\ a - 1 \in Nat
      /\ MaxAttempts \in Nat /\ now \in Int /\ deadline \in Int
  BY <1>1, Constants DEF TypeOK, Timeline
<1>3. t \in Int /\ long \in Int /\ short \in Int /\ Base(a) \in Int /\ Longest(a) \in Int
  BY <1>1, <1>2, OneMoreTimeout, ShortestBackoffsAdd, LongestBackoffsAdd, DelayIsInt
<1>4. short =< now /\ now =< deadline /\ deadline =< t + long
  BY <1>1 DEF Timeline
<1>5. CASE IsRetryable(e) /\ RetriesLeft
  <2>1. PICK delay \in Base(a)..Longest(a) : deadline' = now + delay
    BY <1>1, <1>5 DEF Raise, Backoff
  <2>2. /\ ShortestBackoffs[a] = short + Base(a) /\ LongestBackoffs[a] = long + Longest(a)
        /\ ShortestBackoffs[a] \in Int /\ LongestBackoffs[a] \in Int
    BY <1>1, <1>2, ShortestBackoffsAdd, LongestBackoffsAdd
  <2>3. delay \in Int /\ Base(a) =< delay /\ delay =< Longest(a)
    BY <1>3
  <2>4. ShortestBackoffs[a] =< deadline'
    BY <1>2, <1>3, <1>4, <2>1, <2>2, <2>3
  <2>5. deadline' =< t + LongestBackoffs[a]
    BY <1>2, <1>3, <1>4, <2>1, <2>2, <2>3
  <2>6. pc' = "backoff" /\ error' = error /\ attempts' = a
    BY <1>1, <1>5 DEF Raise
  <2>7. error # "network" /\ a >= 1
    BY <1>2 DEF Timeline
  <2>. QED
    BY <1>1, <2>4, <2>5, <2>6, <2>7 DEF Timeline
<1>6. CASE ~(IsRetryable(e) /\ RetriesLeft)
  <2>1. pc' = "raised" /\ error' = e
    BY <1>6 DEF Raise
  <2>2. e = "network" => a = MaxAttempts
    BY <1>1, <1>2, <1>6 DEF IsRetryable, RetriesLeft
  <2>. QED
    BY <1>1, <1>4, <2>1, <2>2 DEF Timeline
<1>. QED  BY <1>5, <1>6

\* So does an attempt that is begun.
LEMMA AttemptInTime ==
  ASSUME TypeOK, Timeline, Attempt, pc = "idle" \/ (pc = "backoff" /\ now = deadline)
  PROVE  Timeline'
<1>1. PICK a, t, d, long, short : /\ a = attempts /\ t = a * ClientTimeout /\ d = deadline'
                                  /\ long = LongestBackoffs[a] /\ short = ShortestBackoffs[a]
  OBVIOUS
<1>2. a \in Nat /\ now \in Int /\ ClientTimeout \in Nat
  BY <1>1, Constants DEF TypeOK
<1>3. /\ t \in Int /\ long \in Int /\ short \in Int
      /\ (a + 1) * ClientTimeout = t + ClientTimeout
  BY <1>1, <1>2, OneMoreTimeout, ShortestBackoffsAdd, LongestBackoffsAdd
<1>4. short =< now /\ now =< t + long
  <2>1. CASE pc = "idle"
    <3>1. a = 0 /\ now = 0
      BY <1>1, <2>1 DEF Timeline
    <3>2. 0 * ClientTimeout = 0
      BY <1>2
    <3>. QED
      BY <1>1, <3>1, <3>2, ShortestBackoffsAdd, LongestBackoffsAdd
  <2>2. CASE pc = "backoff" /\ now = deadline
    BY <1>1, <2>2 DEF Timeline
  <2>. QED  BY <2>1, <2>2
<1>5. /\ pc' = "requesting" /\ attempts' = a + 1 /\ (a + 1) - 1 = a
      /\ now' = now /\ error' = error /\ d = now + ClientTimeout
  BY <1>1, <1>2 DEF Attempt
<1>6. /\ now =< d /\ d =< (a + 1) * ClientTimeout + long
      /\ a + 1 >= 1
  BY <1>2, <1>3, <1>4, <1>5
<1>7. error # "network"
  BY DEF Timeline
<1>. QED
  BY <1>1, <1>4, <1>5, <1>6, <1>7 DEF Timeline

LEMMA InitInTime == Init => Timeline
BY DEF Init, Timeline

LEMMA NextInTime == TypeOK /\ Timeline /\ [Next]_vars => Timeline'
<1> SUFFICES ASSUME TypeOK, Timeline, [Next]_vars
             PROVE  Timeline'
  OBVIOUS
<1>0. {"network", "content_type", "invalid", "overflow", "timeout"} \subseteq Error
  BY DEF Error
<1>1. CASE Fetch \/ Retry
  BY <1>1, AttemptInTime DEF Fetch, Retry
<1>2. ASSUME pc \in {"requesting", "reading"}, NEW e \in Error, Raise(e), UNCHANGED <<attempts, now>>
      PROVE  Timeline'
  BY <1>2, RaiseInTime
<1>3. CASE Headers
  <2>1. pc = "requesting" /\ UNCHANGED <<attempts, now>>
    BY <1>3 DEF Headers
  <2>2. CASE Raise("network") \/ Raise("content_type")
    BY <1>0, <1>2, <2>1, <2>2
  <2>3. CASE pc' = "reading" /\ UNCHANGED <<deadline, error>>
    BY <2>1, <2>3 DEF Timeline
  <2>. QED
    BY <1>3, <2>2, <2>3 DEF Headers
<1>4. CASE Body
  <2>1. pc = "reading" /\ UNCHANGED <<attempts, now>>
    BY <1>4 DEF Body
  <2>2. CASE Raise("overflow")
    BY <1>0, <1>2, <2>1, <2>2
  <2>3. ASSUME NEW found, Return(found) PROVE Timeline'
    BY <2>1, <2>3 DEF Return, Timeline
  <2>. QED
    BY <1>4, <2>2, <2>3 DEF Body
<1>5. CASE BadBody \/ ConnectionFails \/ TimesOut
  BY <1>0, <1>2, <1>5 DEF BadBody, ConnectionFails, TimesOut
<1>6. CASE Cancel
  BY <1>6 DEF Cancel, Pending, Timeline
<1>7. CASE Tick
  <2>1. /\ pc \in {"requesting", "reading", "backoff"}
        /\ now < deadline /\ now' = now + 1
        /\ UNCHANGED <<pc, attempts, deadline, error>>
    BY <1>7 DEF Tick, Pending
  <2>2. now \in Int /\ deadline \in Int
    BY Constants DEF TypeOK
  <2>3. now' =< deadline /\ error # "network"
    BY <2>1, <2>2 DEF Timeline
  <2>4. pc \in {"requesting", "reading"} => ShortestBackoffs[attempts - 1] =< now'
    <3>1. pc \in {"requesting", "reading"} => attempts - 1 \in Nat
      BY Constants DEF TypeOK, Timeline
    <3>2. pc \in {"requesting", "reading"} => ShortestBackoffs[attempts - 1] \in Int
      BY <3>1, ShortestBackoffsAdd
    <3>. QED
      BY <2>1, <2>2, <3>2 DEF Timeline
  <2>. QED
    BY <2>1, <2>3, <2>4 DEF Timeline
<1>8. CASE UNCHANGED vars
  BY <1>8 DEF vars, Timeline
<1>. QED
  BY <1>1, <1>3, <1>4, <1>5, <1>6, <1>7, <1>8 DEF Next

LEMMA AlwaysInTime == Spec => []Timeline
<1>1. IInv => TypeOK
  BY DEF IInv
<1>. QED
  BY <1>1, InitInTime, NextInTime, Invariant, PTL DEF Spec

\* A network failure is reported only after all attempts and all the backoffs between
\* them, for any number of attempts and any delays
\* (src/data/ingestors/http_api.py:46, 136-137, src/utils/retry.py:32-71).
THEOREM NeverGivesUpEarly == Spec => []FailureOutlastsBackoffs
<1>1. TypeOK /\ Timeline => FailureOutlastsBackoffs
  <2>1. ShortestBackoffs[MaxAttempts - 1] \in Int
    BY Constants, ShortestBackoffsAdd
  <2>. QED
    BY <2>1, Constants DEF TypeOK, Timeline, FailureOutlastsBackoffs
<1>2. IInv => TypeOK
  BY DEF IInv
<1>. QED
  BY <1>1, <1>2, Invariant, AlwaysInTime, PTL

\* A server holds a fetch no longer than the timeouts of the attempts begun and the
\* backoffs between them, for any number of attempts, timeout and delays
\* (src/data/ingestors/http_api.py:71-82, src/utils/retry.py:38-43).
THEOREM NeverHeldLonger == Spec => []FetchIsBounded
<1>1. TypeOK /\ Timeline => FetchIsBounded
  <2> SUFFICES ASSUME TypeOK, Timeline, pc \in {"requesting", "reading"}
               PROVE  now =< attempts * ClientTimeout + LongestBackoffs[attempts - 1]
    BY DEF FetchIsBounded
  <2>1. PICK a, t, long : a = attempts /\ t = a * ClientTimeout /\ long = LongestBackoffs[a - 1]
    OBVIOUS
  <2>2. a - 1 \in Nat /\ a \in Nat /\ now \in Int /\ deadline \in Int
    BY <2>1, Constants DEF TypeOK, Timeline
  <2>3. t \in Int /\ long \in Int
    BY <2>1, <2>2, OneMoreTimeout, LongestBackoffsAdd
  <2>4. now =< deadline /\ deadline =< t + long
    BY <2>1 DEF Timeline
  <2>. QED
    BY <2>1, <2>2, <2>3, <2>4
<1>2. IInv => TypeOK
  BY DEF IInv
<1>. QED
  BY <1>1, <1>2, Invariant, AlwaysInTime, PTL

\* Of two complementary rules exactly one alerts on a number, both on a missing value, and
\* neither on what cannot be compared, for any bound and any payload
\* (src/core/evaluators/thresholds.py:13-57).
THEOREM ComplementsAgree == Spec => []ComplementsMeet
<1>1. ASSUME PayloadIsEvidence, pc = "returned", NEW low \in Rules, NEW high \in Rules,
             Complementary(low, high)
      PROVE  IF payload.value = None
               THEN Alerts(low) /\ Alerts(high)
             ELSE IF low.list \/ NaN \in {payload.value, low.value[1]}
               THEN ~Alerts(low) /\ ~Alerts(high)
             ELSE Alerts(low) <=> ~Alerts(high)
  <2>1. /\ low.type = "threshold" /\ high.type = "threshold"
        /\ low.list = high.list /\ low.value = high.value
    BY <1>1 DEF Complementary
  <2>2. \/ low.operator = "<" /\ high.operator = ">="
        \/ low.operator = "<=" /\ high.operator = ">"
    BY <1>1 DEF Complementary
  <2>3. CASE payload.value = None
    BY <2>1, <2>3 DEF Alerts, ThresholdAlerts
  <2>4. CASE payload.value # None
    <3>. PICK value, bound : value = payload.value /\ bound = low.value[1]
      OBVIOUS
    <3>1. /\ Alerts(low) <=> Breaches(value, low)
          /\ Alerts(high) <=> Breaches(value, high)
      BY <2>1, <2>4 DEF Alerts, ThresholdAlerts
    <3>2. CASE low.list
      BY <2>1, <2>2, <2>4, <3>1, <3>2 DEF Breaches
    <3>3. CASE ~low.list /\ NaN \in {value, bound}
      <4>1. ~Breaches(value, low)
        BY <2>2, <3>3 DEF Breaches, Less, AtMost
      <4>2. ~Breaches(value, high)
        BY <2>1, <2>2, <3>3 DEF Breaches, Less, AtMost
      <4>. QED
        BY <2>4, <3>1, <3>3, <4>1, <4>2
    <3>4. CASE ~low.list /\ NaN \notin {value, bound}
      <4>1. value \in Int /\ bound \in Int
        <5>1. payload.value \in Number
          BY <1>1, <2>4 DEF PayloadIsEvidence
        <5>2. low.value[1] \in Number
          BY <2>1, <3>4, MeasurementAssumption
        <5>. QED
          BY <3>4, <5>1, <5>2, HttpIngestorAssumption
      <4>2. CASE low.operator = "<" /\ high.operator = ">="
        <5>1. Breaches(value, low) <=> value < bound
          BY <3>4, <4>2 DEF Breaches, Less
        <5>2. Breaches(value, high) <=> bound =< value
          BY <2>1, <3>4, <4>2 DEF Breaches, AtMost
        <5>. QED
          BY <2>4, <3>1, <3>4, <4>1, <5>1, <5>2
      <4>3. CASE low.operator = "<=" /\ high.operator = ">"
        <5>1. Breaches(value, low) <=> value =< bound
          BY <3>4, <4>3 DEF Breaches, AtMost
        <5>2. Breaches(value, high) <=> bound < value
          BY <2>1, <3>4, <4>3 DEF Breaches, Less
        <5>. QED
          BY <2>4, <3>1, <3>4, <4>1, <5>1, <5>2
      <4>. QED
        BY <2>2, <4>2, <4>3
    <3>. QED
      BY <3>2, <3>3, <3>4
  <2>. QED
    BY <2>3, <2>4
<1>2. PayloadIsEvidence => ComplementsMeet
  BY <1>1 DEF ComplementsMeet
<1>3. IInv => PayloadIsEvidence
  BY DEF IInv
<1>. QED
  BY <1>2, <1>3, Invariant, PTL

=============================================================================
