-------------------------- MODULE LifecycleProofs --------------------------
(***************************************************************************)
(* What holds of the program's life for any checks, any interval and any   *)
(* bound on the clock.                                                     *)
(***************************************************************************)
EXTENDS Lifecycle, TLAPS

\* Where main and the daemon can be at once, and what the flags say of it.
Control ==
  /\ main \in {"configuring", "starting", "once"} =>
       daemon = "none" /\ ~cancelling /\ session # "closed"
  /\ main \in {"configuring", "starting"} => ~ready
  /\ main = "once" => mode = "run_once"
  /\ main = "waiting" => daemon \in {"created", "batch", "sleeping"} /\ ~cancelling
  /\ main = "joining" => daemon # "none" /\ cancelling /\ ~ready
  /\ main \in {"closing", "exited"} => daemon \in {"none", "ended"} /\ running = {}
  /\ daemon = "none" => ~cancelling
  /\ daemon # "none" => mode = "daemon"
  /\ daemon = "ended" => cancelling /\ ~ready
  /\ cancelling => ~ready
  /\ ready /\ mode = "daemon" => main = "waiting"
  /\ running # {} => main = "once" \/ daemon = "batch"
  /\ session = "closed" => main = "exited"

\* next_run is the slot after the batches that were started.
Slots ==
  /\ born =< now
  /\ daemon \in {"none", "created"} => started = 0
  /\ daemon \in {"batch", "sleeping"} =>
       /\ next_run = born + started * Interval
       /\ next_run - Interval =< now
  /\ daemon = "sleeping" => now =< next_run

IInv == TypeOK /\ Control /\ Slots

-----------------------------------------------------------------------------
LEMMA InitOK == Init => IInv
<1> SUFFICES ASSUME Init PROVE IInv
  OBVIOUS
<1>1. TypeOK
  <2>1. /\ now \in 0..MaxTime /\ born \in 0..MaxTime
        /\ next_run \in 0..MaxTime + Interval
        /\ started \in 0..MaxTime + 1
    BY LifecycleAssumption DEF Init
  <2> QED
    BY <2>1 DEF Init, TypeOK
<1>2. Control
  BY DEF Init, Control
<1>3. Slots
  BY DEF Init, Slots
<1> QED
  BY <1>1, <1>2, <1>3 DEF IInv

\* The steps of main and of the checks leave the clock alone.
LEMMA MainOK ==
  ASSUME IInv, MainStep \/ Signal \/ Dispatch \/ (\E c \in Check : CheckEnds(c)) \/ DaemonEnds
  PROVE  IInv'
<1> USE LifecycleAssumption DEF IInv
<1>1. UNCHANGED <<mode, now, next_run, born, started>>
  BY DEF MainStep, Configure, StartOnce, StartDaemon, Stop, Join, OnceEnds, Close, Signal,
         Dispatch, CheckEnds, DaemonEnds, clock
<1>2. daemon' = daemon \/ daemon' = "ended" \/ (daemon = "none" /\ daemon' = "created")
  BY DEF MainStep, Configure, StartOnce, StartDaemon, Stop, Join, OnceEnds, Close, Signal,
         Dispatch, CheckEnds, DaemonEnds, ComponentsStarted, Control
<1>3. Slots'
  BY <1>1, <1>2 DEF Slots
<1>4. TypeOK' /\ Control'
  <2> USE <1>1 DEF TypeOK, Control
  <2>1. CASE Configure
    BY <2>1 DEF Configure
  <2>2. CASE StartOnce
    BY <2>2 DEF StartOnce, ComponentsStarted
  <2>3. CASE StartDaemon
    BY <2>3 DEF StartDaemon, AwaitSignal, ComponentsStarted
  <2>4. CASE Stop
    BY <2>4 DEF Stop, AwaitSignal
  <2>5. CASE Join \/ OnceEnds
    BY <2>5 DEF Join, OnceEnds
  <2>6. CASE Close
    BY <2>6 DEF Close, ShutDownComponents
  <2>7. CASE Signal
    BY <2>7 DEF Signal
  <2>8. CASE Dispatch
    BY <2>8 DEF Dispatch
  <2>9. CASE \E c \in Check : CheckEnds(c)
    BY <2>9 DEF CheckEnds
  <2>10. CASE DaemonEnds
    BY <2>10 DEF DaemonEnds
  <2> QED
    BY <2>1, <2>2, <2>3, <2>4, <2>5, <2>6, <2>7, <2>8, <2>9, <2>10 DEF MainStep
<1> QED
  BY <1>3, <1>4

\* A batch that starts, starts in its slot.
LEMMA CycleOK ==
  ASSUME IInv, NEW slot, Cycle(slot),
         ~cancelling, running = {},
         UNCHANGED <<mode, main, cancelling, shutdown_event, ready, session, now>>,
         \/ daemon = "created" /\ slot = now /\ born' = now
         \/ daemon \in {"batch", "sleeping"} /\ slot = next_run /\ next_run =< now /\ born' = born
  PROVE  IInv' /\ now - born' >= started * Interval
<1> USE LifecycleAssumption DEF IInv
<1>1. /\ now \in Nat /\ born \in Nat /\ born' \in Nat /\ started \in Nat /\ Interval \in Nat \ {0}
      /\ next_run \in Nat /\ born' =< now /\ now =< MaxTime /\ MaxTime \in Nat /\ slot \in Nat
  BY DEF TypeOK, Slots
<1>2. slot = born' + started * Interval /\ slot =< now
  <2>1. CASE daemon = "created"
    <3>1. started = 0 /\ 0 * Interval = 0
      BY <2>1, <1>1 DEF Slots
    <3> QED
      BY <1>1, <2>1, <3>1
  <2>2. CASE daemon \in {"batch", "sleeping"}
    BY <2>2 DEF Slots
  <2> QED
    BY <2>1, <2>2
<1>3. (started + 1) * Interval = started * Interval + Interval
  BY <1>1
<1>4. started * Interval \in Nat /\ started =< started * Interval
  <2>1. \A n, k \in Nat : k > 0 => n * k \in Nat /\ n =< n * k
    <3> SUFFICES ASSUME NEW n \in Nat, NEW k \in Nat, k > 0 PROVE n * k \in Nat /\ n =< n * k
      OBVIOUS
    <3>1. n * k = n * (k - 1) + n /\ n * (k - 1) \in Nat
      OBVIOUS
    <3> QED
      BY <3>1
  <2> QED
    BY <1>1, <2>1
<1>5. /\ daemon' = "batch" /\ running' = Check
      /\ next_run' = slot + Interval /\ started' = started + 1
  BY DEF Cycle
<1>6. next_run' \in 0..MaxTime + Interval /\ started' \in 0..MaxTime + 1
  <2> DEFINE slots == started * Interval
  <2>1. slots \in Nat /\ started =< slots /\ slot = born' + slots /\ slot =< now
    BY <1>2, <1>4
  <2>2. \A a, b, k, n, m, t \in Nat :
          a =< k /\ t = b + k /\ t =< n /\ n =< m => t \in 0..m /\ a \in 0..m
    OBVIOUS
  <2> HIDE DEF slots
  <2>3. slot \in 0..MaxTime /\ started \in 0..MaxTime
    BY <1>1, <2>1, <2>2
  <2> QED
    BY <1>1, <1>5, <2>3
<1>7. TypeOK'
  BY <1>1, <1>5, <1>6 DEF TypeOK
<1>8. main = "waiting" /\ Control'
  BY <1>5 DEF Control, TypeOK
<1>9. Slots'
  <2>1. next_run' = born' + started' * Interval
    <3> DEFINE slots == started * Interval
    <3>1. slots \in Nat /\ slot = born' + slots /\ started' * Interval = slots + Interval
      BY <1>2, <1>3, <1>4, <1>5
    <3> HIDE DEF slots
    <3> QED
      BY <1>1, <1>5, <3>1
  <2>2. born' =< now' /\ next_run' - Interval =< now' /\ daemon' = "batch"
    <3>1. slot =< now /\ now' = now
      BY <1>2
    <3> QED
      BY <1>1, <1>5, <3>1
  <2> QED
    BY <2>1, <2>2 DEF Slots
<1>10. now - born' >= started * Interval
  <2> DEFINE slots == started * Interval
  <2>1. slots \in Nat /\ slot = born' + slots /\ slot =< now
    BY <1>2, <1>4
  <2> HIDE DEF slots
  <2>2. \A b, k, n, t \in Nat : t = b + k /\ t =< n => n - b >= k
    OBVIOUS
  <2>3. now - born' >= slots
    BY <1>1, <2>1, <2>2
  <2> QED
    BY <2>3 DEF slots
<1> QED
  BY <1>7, <1>8, <1>9, <1>10

LEMMA DaemonOK ==
  ASSUME IInv, FirstCycle \/ BatchEnds \/ Wake
  PROVE  IInv' /\ (started' # started => now - born' >= started * Interval)
<1> USE LifecycleAssumption DEF IInv
<1>1. CASE FirstCycle
  <2>1. running = {}
    BY <1>1 DEF FirstCycle, Control
  <2> QED
    BY <1>1, <2>1, CycleOK DEF FirstCycle
<1>2. CASE BatchEnds /\ next_run > now
  <2>1. /\ daemon = "batch" /\ daemon' = "sleeping" /\ running = {} /\ ~cancelling
        /\ UNCHANGED <<mode, main, cancelling, shutdown_event, ready, session, now, born,
                       running, next_run, started>>
    BY <1>2 DEF BatchEnds
  <2> QED
    BY <1>2, <2>1 DEF TypeOK, Control, Slots
<1>3. CASE BatchEnds /\ ~(next_run > now)
  <2>1. next_run =< now
    BY <1>3 DEF TypeOK
  <2> QED
    BY <1>3, <2>1, CycleOK DEF BatchEnds
<1>4. CASE Wake
  <2>1. next_run =< now
    BY <1>4 DEF Wake, TypeOK
  <2>2. running = {}
    BY <1>4 DEF Wake, Control
  <2> QED
    BY <1>4, <2>1, <2>2, CycleOK DEF Wake
<1> QED
  BY <1>1, <1>2, <1>3, <1>4

\* Time does not pass a daemon that should have woken.
LEMMA TickOK == IInv /\ Tick => IInv'
  BY LifecycleAssumption DEF IInv, Tick, TypeOK, Control, Slots

LEMMA NextOK == IInv /\ [Next]_vars => IInv'
<1> SUFFICES ASSUME IInv, [Next]_vars PROVE IInv'
  OBVIOUS
<1>1. CASE UNCHANGED vars
  BY <1>1 DEF vars, IInv, TypeOK, Control, Slots
<1> QED
  BY <1>1, MainOK, DaemonOK, TickOK DEF Next, DaemonStep, Exited

LEMMA AlwaysIInv == Spec => []IInv
  BY InitOK, NextOK, PTL DEF Spec

-----------------------------------------------------------------------------
\* The state has its type: in particular next_run is never more than one interval ahead of
\* the clock, and there are no more batches than slots
\* (src/engine/scheduler.py:38-71, src/main.py:93-170).
THEOREM TypeCorrect == Spec => []TypeOK
<1>1. IInv => TypeOK
  BY DEF IInv
<1> QED
  BY <1>1, AlwaysIInv, PTL

\* A daemon that sleeps has started one batch for each slot that has come due, for any
\* interval and after any overruns (src/engine/scheduler.py:38-63).
THEOREM EverySlotOnce == Spec => []SlotsKept
<1>1. IInv => SlotsKept
  <2> SUFFICES ASSUME IInv, daemon = "sleeping"
               PROVE  /\ (started - 1) * Interval =< now - born
                      /\ now - born =< started * Interval
    BY DEF SlotsKept
  <2>1. /\ started \in Nat /\ Interval \in Nat /\ now \in Nat /\ born \in Nat
        /\ next_run = born + started * Interval
        /\ next_run - Interval =< now /\ now =< next_run
    BY LifecycleAssumption DEF IInv, TypeOK, Slots
  <2>2. (started - 1) * Interval = started * Interval - Interval /\ started * Interval \in Nat
    BY <2>1
  <2> QED
    BY <2>1, <2>2
<1> QED
  BY <1>1, AlwaysIInv, PTL

\* No batch starts before its slot (src/engine/scheduler.py:43-63).
THEOREM NeverEarly == Spec => NoBatchBeforeItsSlot
<1>1. IInv /\ [Next]_vars => [started' # started => now - born' >= started * Interval]_vars
  <2> SUFFICES ASSUME IInv, Next, started' # started
               PROVE  now - born' >= started * Interval
    OBVIOUS
  <2>1. FirstCycle \/ BatchEnds \/ Wake
    BY DEF Next, MainStep, DaemonStep, Configure, StartOnce, StartDaemon, Stop, Join, OnceEnds,
           Close, Signal, Dispatch, CheckEnds, DaemonEnds, Tick, Exited, vars, clock
  <2> QED
    BY <2>1, DaemonOK
<1> QED
  BY <1>1, AlwaysIInv, PTL DEF Spec, NoBatchBeforeItsSlot

\* While the probe answers ready in daemon mode, the daemon lives and has not been told to
\* stop (src/main.py:129-143, runtime/readiness.py:8-20).
THEOREM ReadyIsTrue == Spec => []ReadyMeansServing
<1>1. IInv => ReadyMeansServing
  BY DEF IInv, TypeOK, Control, ReadyMeansServing
<1> QED
  BY <1>1, AlwaysIInv, PTL

\* The components are shut down after the last check, for any number of checks
\* (src/main.py:139-148, 162-166).
THEOREM ClosedLast == Spec => []ClosedAfterLastCheck
<1>1. IInv => ClosedAfterLastCheck
  BY DEF IInv, Control, ClosedAfterLastCheck
<1> QED
  BY <1>1, AlwaysIInv, PTL

\* The scheduler and its signal keep to the order that Batch promises: a batch starts after
\* the last check of the one before, and none starts after the cancellation. This is
\* ImplementsBatch without its fairness
\* (src/engine/scheduler.py:41-68, src/main.py:139-143).
THEOREM BatchesInOrder == Spec => Batches!Init /\ [][Batches!Next]_(Batches!vars)
<1>1. Init => Batches!Init
  BY DEF Init, Batches!Init
<1>2. IInv /\ [Next]_vars => [Batches!Next]_(Batches!vars)
  <2> SUFFICES ASSUME IInv, [Next]_vars PROVE [Batches!Next]_(Batches!vars)
    OBVIOUS
  <2> USE DEF Batches!Next, Batches!vars
  <2>1. CASE StartOnce \/ FirstCycle \/ Wake \/ BatchEnds
    <3>1. /\ ~cancelling /\ running = {} /\ UNCHANGED cancelling
          /\ running' \in {Check, running}
      BY <2>1 DEF StartOnce, ComponentsStarted, FirstCycle, Wake, BatchEnds, Cycle, IInv, Control
    <3> QED
      BY <3>1 DEF Batches!Start
  <2>2. CASE StartDaemon \/ Stop
    <3>1. /\ ~cancelling /\ UNCHANGED running /\ cancelling' \in {TRUE, cancelling}
      BY <2>2 DEF StartDaemon, ComponentsStarted, Stop, AwaitSignal, IInv, Control
    <3> QED
      BY <3>1 DEF Batches!Cancel
  <2>3. CASE \E c \in Check : CheckEnds(c)
    BY <2>3 DEF CheckEnds, Batches!End
  <2>4. CASE \/ Configure \/ Join \/ OnceEnds \/ Close \/ DaemonEnds
             \/ Dispatch \/ Signal \/ Tick \/ Exited \/ UNCHANGED vars
    BY <2>4 DEF Configure, Join, OnceEnds, Close, DaemonEnds, Dispatch, Signal, Tick, Exited, vars
  <2> QED
    BY <2>1, <2>2, <2>3, <2>4 DEF Next, MainStep, DaemonStep
<1> QED
  BY <1>1, <1>2, AlwaysIInv, PTL DEF Spec

=============================================================================
