----------------------------- MODULE Lifecycle -----------------------------
(***************************************************************************)
(* The life of the program: async_main of src/main.py, the task that runs  *)
(* Scheduler.run_daemon (src/engine/scheduler.py), the signal handler, the *)
(* readiness flag and the session of the cached SlackHandler.              *)
(*                                                                         *)
(* All of them share one event loop: a step is what main or the daemon     *)
(* does between two awaits, and the signal handler is a callback of the    *)
(* loop.  A batch is known by its running checks, as module Batch promises *)
(* them; CheckExecutor shows how they run.                                 *)
(*                                                                         *)
(* The clock counts whole units and a sleeping daemon wakes on time.  The  *)
(* program's mode is an input.  External: signals, the admin port, the     *)
(* components' startup hooks, which may suspend.                           *)
(***************************************************************************)
EXTENDS Integers, FiniteSets

CONSTANTS
  Check,     \* the checks of the configuration
  Interval,  \* interval_seconds
  MaxTime    \* bound on the clock

ASSUME LifecycleAssumption ==
  /\ IsFiniteSet(Check) /\ Check # {}
  /\ Interval \in Nat \ {0}
  /\ MaxTime \in Nat

VARIABLES
  mode,            \* scheduler_mode
  main,            \* where async_main is
  daemon,          \* where run_daemon's task is
  cancelling,      \* daemon_task.cancel() has been called
  shutdown_event,  \* the event set by the signal handler
  ready,           \* Readiness._is_ready
  running,         \* the checks of the batch that have not ended
  session,         \* the SlackHandler's HTTP session
  now,             \* time.perf_counter
  next_run,        \* run_daemon's next_run
  born,            \* history: when run_daemon started
  started          \* history: the batches run_daemon has started

vars == <<mode, main, daemon, cancelling, shutdown_event, ready, running,
          session, now, next_run, born, started>>

clock == <<now, next_run, born, started>>

TypeOK ==
  /\ mode \in {"run_once", "daemon"}
  /\ main \in {"configuring", "starting", "once", "waiting", "joining", "closing", "exited"}
  /\ daemon \in {"none", "created", "batch", "sleeping", "ended"}
  /\ cancelling \in BOOLEAN
  /\ shutdown_event \in BOOLEAN
  /\ ready \in BOOLEAN
  /\ running \subseteq Check
  /\ session \in {"none", "open", "closed"}
  /\ now \in 0..MaxTime
  /\ next_run \in 0..MaxTime + Interval
  /\ born \in 0..MaxTime
  /\ started \in 0..MaxTime + 1

Init ==
  /\ mode \in {"run_once", "daemon"}
  /\ main = "configuring"
  /\ daemon = "none"
  /\ cancelling = FALSE
  /\ shutdown_event = FALSE
  /\ ready = FALSE
  /\ running = {}
  /\ session = "none"
  /\ now = 0 /\ next_run = 0 /\ born = 0 /\ started = 0

-----------------------------------------------------------------------------
(***************************************************************************)
(* async_main.                                                             *)
(***************************************************************************)

\* The configuration is loaded, the settings it requires are there, and the
\* program starts its servers; or it gives up.
Configure ==
  /\ main = "configuring"
  /\ main' \in {"starting", "exited"}
  /\ UNCHANGED <<mode, daemon, cancelling, shutdown_event, ready, running, session, clock>>

\* Fault: the daemon is told to stop only by a signal that comes later.
AwaitSignalAnew == main' = "waiting" /\ ready' = TRUE /\ UNCHANGED cancelling

\* await shutdown_event.wait(), which does not suspend if the event is set, and
\* what follows it: the daemon is cancelled, then readiness withdrawn.
AwaitSignal ==
  IF shutdown_event
    THEN main' = "joining" /\ cancelling' = TRUE /\ ready' = FALSE
    ELSE main' = "waiting" /\ ready' = TRUE /\ UNCHANGED cancelling

\* executor.startup returns: it goes through the components of all checks, and what
\* their hooks raise is logged.
ComponentsStarted == main = "starting"

\* Ready, and the scheduler is run.
StartOnce ==
  /\ ComponentsStarted
  /\ mode = "run_once"
  /\ main' = "once"
  /\ ready' = TRUE
  /\ running' = Check
  /\ UNCHANGED <<mode, daemon, cancelling, shutdown_event, session, clock>>

StartDaemon ==
  /\ ComponentsStarted
  /\ mode = "daemon"
  /\ daemon' = "created"
  /\ AwaitSignal
  /\ UNCHANGED <<mode, shutdown_event, running, session, clock>>

\* The signal handler: the event is set, in whatever mode.
Signal ==
  /\ main \notin {"configuring", "exited"}
  /\ ~shutdown_event
  /\ shutdown_event' = TRUE
  /\ UNCHANGED <<mode, main, daemon, cancelling, ready, running, session, clock>>

\* Main is woken by the event.
Stop ==
  /\ main = "waiting"
  /\ shutdown_event
  /\ AwaitSignal
  /\ UNCHANGED <<mode, daemon, shutdown_event, running, session, clock>>

\* Fault: main goes on without awaiting the daemon it has cancelled.
JoinAtOnce ==
  /\ main = "joining"
  /\ main' = "closing"
  /\ UNCHANGED <<mode, daemon, cancelling, shutdown_event, ready, running, session, clock>>

\* await daemon_task
Join ==
  /\ main = "joining"
  /\ daemon = "ended"
  /\ main' = "closing"
  /\ UNCHANGED <<mode, daemon, cancelling, shutdown_event, ready, running, session, clock>>

\* run_once returns: signals have not shortened it.
OnceEnds ==
  /\ main = "once"
  /\ running = {}
  /\ main' = "closing"
  /\ UNCHANGED <<mode, daemon, cancelling, shutdown_event, ready, running, session, clock>>

\* executor.shutdown: of the components of all checks the cached SlackHandler, made
\* now if it has never been used, closes the session that it has opened.
ShutDownComponents == session' = IF session = "open" THEN "closed" ELSE session

\* The components are shut down; then the admin server ends.
Close ==
  /\ main = "closing"
  /\ main' = "exited"
  /\ ShutDownComponents
  /\ UNCHANGED <<mode, daemon, cancelling, shutdown_event, ready, running, clock>>

-----------------------------------------------------------------------------
(***************************************************************************)
(* run_daemon and its batches.                                             *)
(***************************************************************************)

\* Fault: the next slot is counted from the end of the last batch.
CycleFromNow(slot) ==
  /\ next_run' = now + Interval
  /\ started' = started + 1
  /\ running' = Check
  /\ daemon' = "batch"

\* Fault: the slot is not moved on.
CycleInPlace(slot) ==
  /\ next_run' = slot
  /\ started' = started + 1
  /\ running' = Check
  /\ daemon' = "batch"

\* One turn of run_daemon's loop up to its await: next_run moves on by an
\* interval, and a batch starts.
Cycle(slot) ==
  /\ next_run' = slot + Interval
  /\ started' = started + 1
  /\ running' = Check
  /\ daemon' = "batch"

\* The task runs for the first time.
FirstCycle ==
  /\ daemon = "created" /\ ~cancelling
  /\ born' = now
  /\ Cycle(now)
  /\ UNCHANGED <<mode, main, cancelling, shutdown_event, ready, session, now>>

\* Fault: execute_batch swallows the cancellation.
BatchEndsRegardless ==
  /\ daemon = "batch" /\ running = {}
  /\ IF next_run > now
       THEN daemon' = "sleeping" /\ UNCHANGED <<running, next_run, started>>
       ELSE Cycle(next_run)
  /\ UNCHANGED <<mode, main, cancelling, shutdown_event, ready, session, now, born>>

\* Fault: an overrun ends the loop.
BatchEndsForGood ==
  /\ daemon = "batch" /\ running = {} /\ ~cancelling
  /\ daemon' = IF next_run > now THEN "sleeping" ELSE "ended"
  /\ UNCHANGED <<mode, main, cancelling, shutdown_event, ready, running, session, clock>>

\* A batch is over: sleep until the next slot, or start it at once when it is due.
BatchEnds ==
  /\ daemon = "batch" /\ running = {} /\ ~cancelling
  /\ IF next_run > now
       THEN daemon' = "sleeping" /\ UNCHANGED <<running, next_run, started>>
       ELSE Cycle(next_run)
  /\ UNCHANGED <<mode, main, cancelling, shutdown_event, ready, session, now, born>>

\* Fault: the daemon does not sleep.
WakeAtOnce ==
  /\ daemon = "sleeping" /\ ~cancelling
  /\ Cycle(next_run)
  /\ UNCHANGED <<mode, main, cancelling, shutdown_event, ready, session, now, born>>

\* The sleep is over.
Wake ==
  /\ daemon = "sleeping" /\ ~cancelling
  /\ now >= next_run
  /\ Cycle(next_run)
  /\ UNCHANGED <<mode, main, cancelling, shutdown_event, ready, session, now, born>>

\* CancelledError reaches run_daemon: at once where it sleeps or has not begun, and
\* after the last check of the batch that it awaits.
DaemonEnds ==
  /\ cancelling
  /\ daemon \in {"created", "batch", "sleeping"}
  /\ running = {}
  /\ daemon' = "ended"
  /\ UNCHANGED <<mode, main, cancelling, shutdown_event, ready, running, session, clock>>

\* A check dispatches an alert, with the cached handler's session.
Dispatch ==
  /\ running # {} /\ ~cancelling
  /\ session = "none"
  /\ session' = "open"
  /\ UNCHANGED <<mode, main, daemon, cancelling, shutdown_event, ready, running, clock>>

\* A check of the batch ends.
CheckEnds(c) ==
  /\ c \in running
  /\ running' = running \ {c}
  /\ UNCHANGED <<mode, main, daemon, cancelling, shutdown_event, ready, session, clock>>

\* External: time passes, and timers that are due fire first.
Tick ==
  /\ now < MaxTime
  /\ main # "exited"
  /\ ~(daemon = "sleeping" /\ now >= next_run)
  /\ now' = now + 1
  /\ UNCHANGED <<mode, main, daemon, cancelling, shutdown_event, ready, running,
                 session, next_run, born, started>>

\* The process is gone.
Exited == main = "exited" /\ UNCHANGED vars

MainStep ==
  Configure \/ StartOnce \/ StartDaemon \/ Stop \/ Join \/ OnceEnds \/ Close

DaemonStep == FirstCycle \/ BatchEnds \/ Wake \/ DaemonEnds

Next ==
  \/ MainStep \/ DaemonStep
  \/ \E c \in Check : CheckEnds(c)
  \/ Dispatch \/ Signal \/ Tick \/ Exited

Spec == Init /\ [][Next]_vars

(***************************************************************************)
(* Fairness.  The event loop runs every ready task, and each check of a    *)
(* batch ends, as Batch promises.  Nothing is assumed of signals or time.  *)
(***************************************************************************)
Fairness ==
  /\ WF_vars(MainStep)
  /\ WF_vars(DaemonStep)
  /\ \A c \in Check : WF_vars(CheckEnds(c))

FairSpec == Spec /\ Fairness

-----------------------------------------------------------------------------
\* Drift control: whenever the daemon sleeps it has started exactly one batch for
\* each slot that has come due since it began, none skipped and none doubled, however
\* many of the batches before overran (src/engine/scheduler.py:38-63).
SlotsKept ==
  daemon = "sleeping" =>
    /\ (started - 1) * Interval =< now - born
    /\ now - born =< started * Interval

\* A batch never starts before its slot, even when overruns are caught up with batches
\* that follow each other at once (src/engine/scheduler.py:43-63).
NoBatchBeforeItsSlot ==
  [][started' # started => now - born' >= started * Interval]_vars

\* In daemon mode the readiness probe tells the truth about another task: while it
\* answers ready the daemon lives, and from the moment main cancels the daemon it
\* answers not ready, however long the checks take to end
\* (src/main.py:129-143, src/engine/scheduler.py:41-71, runtime/readiness.py:8-20).
ReadyMeansServing ==
  ready /\ mode = "daemon" => ~cancelling /\ daemon \in {"created", "batch", "sleeping"}

\* Components are shut down after the last check that might use them: when main closes
\* the session, the daemon has ended and no check runs
\* (src/main.py:139-148, 162-166, src/engine/executor.py:309-317).
ClosedAfterLastCheck ==
  main = "closing" \/ session = "closed" =>
    running = {} /\ daemon \in {"none", "ended"}

\* Batches do not overlap, and none starts after main has cancelled the daemon, also when
\* the last check of a batch ends at that very moment
\* (src/engine/scheduler.py:41-68, src/engine/executor.py:309-317).
Batches == INSTANCE Batch WITH cancelled <- cancelling

ImplementsBatch == Batches!Spec

\* A signal ends the program, in both modes, wherever it catches main and the daemon
\* (SETUP.md:161).
SignalEndsProgram == shutdown_event ~> main = "exited"

=============================================================================
