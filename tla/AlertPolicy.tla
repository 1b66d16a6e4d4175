---------------------------- MODULE AlertPolicy ----------------------------
(***************************************************************************)
(* The AlertPolicy object of src/core/policies.py: three dictionaries      *)
(* keyed by fingerprint, read and written by should_dispatch and           *)
(* purge_old_state.  Neither method awaits, so each call is one step.      *)
(* should_dispatch never reads its parameter cooldown_seconds.             *)
(*                                                                         *)
(* A key that is absent has the value Never (0 for the counts, which the   *)
(* code reads with a default of 0).  The clock is counted in whole units   *)
(* and only moves forward.  Alerts that share a fingerprint come from one  *)
(* check, and so with one alert_policy; callers pass the event, as the     *)
(* executor always does.                                                   *)
(***************************************************************************)
EXTENDS Integers

CONSTANTS
  Fingerprint,  \* metric_id:evaluator_type:severity
  Dedupe,       \* dedupe_window_seconds of each fingerprint's check
  PurgeAge,     \* max_age_seconds, the arguments with which purge_old_state is called
  MaxTime,      \* bound on the clock
  MaxCount      \* bound on the suppressed alerts counted

ASSUME AlertPolicyAssumption ==
  /\ Dedupe \in [Fingerprint -> Nat]
  /\ PurgeAge \subseteq Nat
  /\ MaxTime \in Nat
  /\ MaxCount \in Nat \ {0}

VARIABLES
  now,              \* datetime.now(timezone.utc)
  last_seen,        \* self._last_seen
  last_dispatched,  \* self._last_dispatched
  failure_counts,   \* self._failure_counts
  granted,          \* history: when should_dispatch last returned True
  forgotten         \* history: fingerprints whose last grant some purge since was told
                    \* to forget, being older than the age it was given

vars == <<now, last_seen, last_dispatched, failure_counts, granted, forgotten>>

Never == -1
Time == 0..MaxTime
Stamp == Time \cup {Never}

TypeOK ==
  /\ now \in Time
  /\ last_seen \in [Fingerprint -> Stamp]
  /\ last_dispatched \in [Fingerprint -> Stamp]
  /\ failure_counts \in [Fingerprint -> 0..MaxCount]
  /\ granted \in [Fingerprint -> Stamp]
  /\ forgotten \subseteq Fingerprint

Init ==
  /\ now = 0
  /\ last_seen = [f \in Fingerprint |-> Never]
  /\ last_dispatched = [f \in Fingerprint |-> Never]
  /\ failure_counts = [f \in Fingerprint |-> 0]
  /\ granted = [f \in Fingerprint |-> Never]
  /\ forgotten = {}

-----------------------------------------------------------------------------
(***************************************************************************)
(* Faulty variants of definitions below, which checked properties notice.  *)
(***************************************************************************)

\* Fault: a purge also deletes what is exactly as old as its age.
SweptFromAge(stamps, age) ==
  [f \in Fingerprint |->
     IF stamps[f] # Never /\ now - stamps[f] >= age THEN Never ELSE stamps[f]]

\* Fault: a window includes its end.
WithinClosedWindow(f) ==
  last_dispatched[f] # Never /\ now - last_dispatched[f] =< Dedupe[f]

\* Fault: now is stamped before the last stamp is read.
StampAhead(stamps, f) == [stamps EXCEPT ![f] = now + 1]

-----------------------------------------------------------------------------
\* elapsed < dedupe_window_seconds, for a fingerprint on record.
WithinWindow(f) ==
  last_dispatched[f] # Never /\ now - last_dispatched[f] < Dedupe[f]

\* The assignment of the current time to a dictionary's entry.
Stamped(stamps, f) == [stamps EXCEPT ![f] = now]

\* self._failure_counts.pop(fingerprint, 0)
TakeCount(f) == failure_counts' = [failure_counts EXCEPT ![f] = 0]

\* should_dispatch inside the window: counted, and answered False.
Suppress(f) ==
  /\ WithinWindow(f)
  /\ failure_counts[f] < MaxCount
  /\ last_seen' = Stamped(last_seen, f)
  /\ failure_counts' = [failure_counts EXCEPT ![f] = @ + 1]
  /\ UNCHANGED <<now, last_dispatched, granted, forgotten>>

\* Fault: the dispatch is stamped before the count is written into the event.
BreakAfterStamping(f) ==
  /\ ~WithinWindow(f)
  /\ failure_counts[f] > 0
  /\ last_seen' = Stamped(last_seen, f)
  /\ last_dispatched' = Stamped(last_dispatched, f)
  /\ TakeCount(f)
  /\ UNCHANGED <<now, granted, forgotten>>

\* should_dispatch outside the window with a count to report: AlertEvent is
\* frozen, so event.message += ... raises a ValidationError once the count is
\* popped and before _last_dispatched is written.
Break(f) ==
  /\ ~WithinWindow(f)
  /\ failure_counts[f] > 0
  /\ last_seen' = Stamped(last_seen, f)
  /\ TakeCount(f)
  /\ UNCHANGED <<now, last_dispatched, granted, forgotten>>

\* should_dispatch outside the window with nothing to report: answered True.
Grant(f) ==
  /\ ~WithinWindow(f)
  /\ failure_counts[f] = 0
  /\ last_seen' = Stamped(last_seen, f)
  /\ last_dispatched' = Stamped(last_dispatched, f)
  /\ granted' = Stamped(granted, f)
  /\ forgotten' = forgotten \ {f}
  /\ UNCHANGED <<now, failure_counts>>

\* Delete the entries older than max_age_seconds.
Swept(stamps, age) ==
  [f \in Fingerprint |->
     IF stamps[f] # Never /\ now - stamps[f] > age THEN Never ELSE stamps[f]]

\* purge_old_state: it leaves the counts.
Purge(age) ==
  /\ last_seen' = Swept(last_seen, age)
  /\ last_dispatched' = Swept(last_dispatched, age)
  /\ forgotten' = forgotten \cup {f \in Fingerprint : granted[f] # Never /\ now - granted[f] > age}
  /\ UNCHANGED <<now, failure_counts, granted>>

\* External: time passes.
Tick ==
  /\ now < MaxTime
  /\ now' = now + 1
  /\ UNCHANGED <<last_seen, last_dispatched, failure_counts, granted, forgotten>>

Next ==
  \/ \E f \in Fingerprint : Suppress(f) \/ Break(f) \/ Grant(f)
  \/ \E age \in PurgeAge : Purge(age)
  \/ Tick

Spec == Init /\ [][Next]_vars

-----------------------------------------------------------------------------
\* Two dispatches of one fingerprint are at least dedupe_window_seconds apart, whatever
\* is counted or lost between them; a purge cuts a window short only if the dispatch that
\* opened it was older than the age which the purge was given (README.md:29,
\* src/core/policies.py:41-65, tests/unit/test_alert_policy.py:124-126).
DispatchSpacing ==
  [][\A f \in Fingerprint :
       granted'[f] # granted[f] /\ granted[f] # Never =>
         granted'[f] - granted[f] >= Dedupe[f] \/ f \in forgotten]_vars

\* The promise made to the executor (src/engine/executor.py:194-204): each answer of
\* should_dispatch is the one its window calls for, where a window is what the last
\* granted dispatch opened, whatever the dictionaries say; and no purge brings a
\* window or a count back.
Open == {f \in Fingerprint \ forgotten : granted[f] # Never /\ now - granted[f] < Dedupe[f]}
Repeating == {f \in Fingerprint : failure_counts[f] > 0}

Promise == INSTANCE AlertWindow WITH open <- Open, repeating <- Repeating

ImplementsAlertWindow == Promise!Spec

\* The number of alerts suppressed in a window is reported by the dispatch that
\* follows it: a count is taken only by a call that is granted
\* (src/core/policies.py:47-52).
CountIsReported ==
  [][\A f \in Fingerprint :
       failure_counts[f] > 0 /\ failure_counts'[f] = 0 => granted'[f] = now]_vars

=============================================================================
