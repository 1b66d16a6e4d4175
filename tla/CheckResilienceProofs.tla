----------------------- MODULE CheckResilienceProofs -----------------------
(***************************************************************************)
(* Theorems about CheckResilience for every set of callers, every number   *)
(* of permits and every failure threshold.                                 *)
(***************************************************************************)
EXTENDS CheckResilience, CircuitProofs, FiniteSetTheorems

-----------------------------------------------------------------------------
\* Every reachable state is well typed (runtime/resilience.py:16-73).
THEOREM TypeCorrect == Spec => []TypeOK
<1>1. Init => TypeOK
  BY CheckResilienceAssumption, NewBreakerIsBreaker DEF Init, TypeOK
<1>2. TypeOK /\ [Next]_vars => TypeOK'
  <2> SUFFICES ASSUME TypeOK, [Next]_vars
               PROVE  TypeOK'
    OBVIOUS
  <2> USE DEF TypeOK
  <2>1. ASSUME NEW c \in Caller, Start(c)
        PROVE  TypeOK'
    BY <2>1, CheckResilienceAssumption, AdmitBreaker DEF Start
  <2>2. ASSUME NEW c \in Caller, Call(c)
        PROVE  TypeOK'
    BY <2>1, <2>2 DEF Call
  <2>3. ASSUME NEW c \in Caller, Acquire(c)
        PROVE  TypeOK'
    BY <2>1, <2>3 DEF Acquire
  <2>4. ASSUME NEW c \in Caller, Return(c)
        PROVE  TypeOK'
    BY <2>4, CheckResilienceAssumption, NewBreakerIsBreaker DEF Return, Succeed
  <2>5. ASSUME NEW c \in Caller, Raise(c)
        PROVE  TypeOK'
    BY <2>5, CheckResilienceAssumption, FailBreaker DEF Raise
  <2>6. ASSUME NEW S \in SUBSET Caller, Cancel(S)
        PROVE  TypeOK'
    BY <2>6 DEF Cancel
  <2>7. CASE Elapse
    BY <2>7, CheckResilienceAssumption, CooledDownBreaker DEF Elapse
  <2>8. CASE UNCHANGED vars
    BY <2>8 DEF vars
  <2> QED
    BY <2>2, <2>3, <2>4, <2>5, <2>6, <2>7, <2>8 DEF Next
<1> QED
  BY <1>1, <1>2, PTL DEF Spec

\* The circuit is closed exactly while fewer than failure_threshold failures
\* are on record, whatever order overlapping calls end in
\* (runtime/resilience.py:38-51).
THEOREM CounterAgreesWithState == Spec => []ClosedIffBelowThreshold
<1> USE DEF ClosedIffBelowThreshold, Consistent
<1>1. Init => ClosedIffBelowThreshold
  BY CheckResilienceAssumption, NewBreakerIsBreaker DEF Init
<1>2. TypeOK /\ ClosedIffBelowThreshold /\ [Next]_vars => ClosedIffBelowThreshold'
  <2> SUFFICES ASSUME TypeOK, ClosedIffBelowThreshold, [Next]_vars
               PROVE  ClosedIffBelowThreshold'
    OBVIOUS
  <2>0. breaker \in Breaker(Threshold)
    BY DEF TypeOK
  <2>1. ASSUME NEW c \in Caller, Call(c) \/ Acquire(c)
        PROVE  ClosedIffBelowThreshold'
    BY <2>0, <2>1, CheckResilienceAssumption, AdmitBreaker DEF Call, Acquire, Start
  <2>2. ASSUME NEW c \in Caller, Return(c)
        PROVE  ClosedIffBelowThreshold'
    BY <2>2, CheckResilienceAssumption, NewBreakerIsBreaker DEF Return, Succeed
  <2>3. ASSUME NEW c \in Caller, Raise(c)
        PROVE  ClosedIffBelowThreshold'
    BY <2>0, <2>3, CheckResilienceAssumption, FailBreaker DEF Raise
  <2>4. ASSUME NEW S \in SUBSET Caller, Cancel(S)
        PROVE  ClosedIffBelowThreshold'
    BY <2>4 DEF Cancel
  <2>5. CASE Elapse
    BY <2>0, <2>5, CheckResilienceAssumption, CooledDownBreaker DEF Elapse
  <2>6. CASE UNCHANGED vars
    BY <2>6 DEF vars
  <2> QED
    BY <2>1, <2>2, <2>3, <2>4, <2>5, <2>6 DEF Next
<1> QED
  BY <1>1, <1>2, TypeCorrect, PTL DEF Spec

-----------------------------------------------------------------------------
(***************************************************************************)
(* Permits.  An open circuit was opened by a failure whose permit is free  *)
(* again, and nobody starts while it is open: a start makes it half-open.  *)
(* The inductive invariant adds to OpenLeavesPermit that the permits are   *)
(* never exceeded and that a disabled breaker is never touched.            *)
(***************************************************************************)
PermitsKept == Cardinality(Running) =< MaxInflight

DisabledStaysFresh == CbEnabled \/ breaker = NewBreaker

IInv ==
  /\ TypeOK
  /\ PermitsKept
  /\ DisabledStaysFresh
  /\ OpenLeavesPermit

\* The callers in flight are finitely many.
LEMMA RunningIsFinite ==
  /\ IsFiniteSet(Running) /\ Cardinality(Running) \in Nat
  /\ IsFiniteSet(Running') /\ Cardinality(Running)' \in Nat
<1>1. IsFiniteSet(Running) /\ IsFiniteSet(Running')
  BY CheckResilienceAssumption, FS_Subset DEF Running
<1> QED
  BY <1>1, FS_CardinalityType

\* A caller that ends gives its permit back.
LEMMA EndFreesPermit ==
  ASSUME TypeOK, NEW c \in Running, pc' = [pc EXCEPT ![c] = "idle"]
  PROVE  Cardinality(Running)' = Cardinality(Running) - 1
<1>1. Running' = Running \ {c}
  BY DEF Running, TypeOK
<1> QED
  BY <1>1, RunningIsFinite, FS_RemoveElement

\* A caller with a free permit starts within the permits, and not on an open
\* circuit; or it is refused, and nothing changes.
LEMMA StartTakesPermit ==
  ASSUME IInv, PermitFree, NEW c \in Caller \ Running, Start(c)
  PROVE  PermitsKept' /\ DisabledStaysFresh' /\ OpenLeavesPermit'
<1> USE DEF IInv, TypeOK
<1>1. CASE CbEnabled /\ Refuses(breaker)
  <2>1. Running' = Running /\ breaker' = breaker
    BY <1>1 DEF Start, Running
  <2> QED
    BY <2>1 DEF PermitsKept, DisabledStaysFresh, OpenLeavesPermit
<1>2. CASE ~(CbEnabled /\ Refuses(breaker))
  <2>1. Running' = Running \cup {c}
    BY <1>2 DEF Start, Running
  <2>2. Cardinality(Running)' = Cardinality(Running) + 1
    BY <2>1, RunningIsFinite, FS_AddElement
  <2>3. PermitsKept'
    BY <2>2, RunningIsFinite, CheckResilienceAssumption DEF PermitFree, PermitsKept
  <2>4. breaker' = IF CbEnabled THEN Admit(breaker) ELSE breaker
    BY <1>2 DEF Start
  <2>5. breaker'.state # "OPEN"
    BY <2>4, CheckResilienceAssumption, AdmitBreaker, NewBreakerIsBreaker DEF DisabledStaysFresh
  <2> QED
    BY <2>3, <2>4, <2>5 DEF DisabledStaysFresh, OpenLeavesPermit
<1> QED
  BY <1>1, <1>2

\* The invariant is inductive.
LEMMA Induction ==
  /\ Init => IInv
  /\ IInv /\ TypeOK' /\ [Next]_vars => IInv'
<1>1. Init => IInv
  <2> SUFFICES ASSUME Init
               PROVE  IInv
    OBVIOUS
  <2>1. Running = {}
    BY DEF Init, Running
  <2>2. Cardinality(Running) = 0
    BY <2>1, FS_EmptySet
  <2>3. PermitsKept
    BY <2>2, CheckResilienceAssumption DEF PermitsKept
  <2> QED
    BY <2>3, CheckResilienceAssumption, NewBreakerIsBreaker
    DEF Init, IInv, TypeOK, DisabledStaysFresh, OpenLeavesPermit
<1>2. ASSUME IInv, TypeOK', [Next]_vars
      PROVE  PermitsKept' /\ DisabledStaysFresh' /\ OpenLeavesPermit'
  <2> USE <1>2 DEF IInv, TypeOK
  <2>1. ASSUME NEW c \in Caller, Call(c) \/ Acquire(c)
        PROVE  PermitsKept' /\ DisabledStaysFresh' /\ OpenLeavesPermit'
    <3>1. c \in Caller \ Running
      BY <2>1 DEF Call, Acquire, Running
    <3>2. CASE Start(c) /\ PermitFree
      BY <3>1, <3>2, StartTakesPermit
    <3>3. CASE pc' = [pc EXCEPT ![c] = "waiting"] /\ UNCHANGED breaker
      <4>1. Running' = Running
        BY <3>1, <3>3 DEF Running
      <4> QED
        BY <3>3, <4>1 DEF PermitsKept, DisabledStaysFresh, OpenLeavesPermit
    <3> QED
      BY <2>1, <3>2, <3>3 DEF Call, Acquire
  <2>2. ASSUME NEW c \in Caller, Return(c) \/ Raise(c)
        PROVE  PermitsKept' /\ DisabledStaysFresh' /\ OpenLeavesPermit'
    <3>1. c \in Running /\ pc' = [pc EXCEPT ![c] = "idle"]
      BY <2>2 DEF Return, Raise, Running
    <3>2. Cardinality(Running)' = Cardinality(Running) - 1
      BY <3>1, EndFreesPermit
    <3>3. Cardinality(Running)' < MaxInflight
      BY <3>2, RunningIsFinite, CheckResilienceAssumption DEF PermitsKept
    <3>4. DisabledStaysFresh'
      BY <2>2 DEF DisabledStaysFresh, Return, Raise
    <3> QED
      BY <3>3, <3>4, RunningIsFinite, CheckResilienceAssumption
      DEF PermitsKept, OpenLeavesPermit
  <2>3. ASSUME NEW S \in SUBSET Caller, Cancel(S)
        PROVE  PermitsKept' /\ DisabledStaysFresh' /\ OpenLeavesPermit'
    <3>1. Running' \subseteq Running /\ breaker' = breaker
      BY <2>3 DEF Cancel, Running
    <3>2. Cardinality(Running)' =< Cardinality(Running)
      BY <3>1, RunningIsFinite, FS_Subset
    <3> QED
      BY <3>1, <3>2, RunningIsFinite, CheckResilienceAssumption
      DEF PermitsKept, DisabledStaysFresh, OpenLeavesPermit
  <2>4. CASE Elapse
    <3>1. Running' = Running /\ breaker'.state = breaker.state /\ CbEnabled
      BY <2>4, CheckResilienceAssumption, CooledDownBreaker, NewBreakerIsBreaker
      DEF Elapse, Cooling, DisabledStaysFresh, Running
    <3> QED
      BY <3>1 DEF PermitsKept, DisabledStaysFresh, OpenLeavesPermit
  <2>5. CASE UNCHANGED vars
    BY <2>5 DEF vars, Running, PermitsKept, DisabledStaysFresh, OpenLeavesPermit
  <2> QED
    BY <2>1, <2>2, <2>3, <2>4, <2>5 DEF Next
<1> QED
  BY <1>1, <1>2 DEF IInv

\* An open circuit always has a permit to spare, whatever hangs
\* (runtime/resilience.py:35-46, 63-73).
THEOREM TrialFindsPermit == Spec => []OpenLeavesPermit
<1>1. IInv => OpenLeavesPermit
  BY DEF IInv
<1> QED
  BY <1>1, Induction, TypeCorrect, PTL DEF Spec

-----------------------------------------------------------------------------
(***************************************************************************)
(* Serial executions: with one permit, a permit to spare means that        *)
(* nothing is in flight, so no stale success can close an open circuit.    *)
(***************************************************************************)
LEMMA SparePermitMeansQuiet ==
  ASSUME MaxInflight = 1, IInv, breaker.state = "OPEN"
  PROVE  Running = {}
<1>1. Cardinality(Running) = 0
  BY RunningIsFinite DEF IInv, OpenLeavesPermit
<1> QED
  BY <1>1, RunningIsFinite, FS_EmptySet

\* With max_inflight = 1 an open circuit closes only through a trial call
\* made after the reset timeout (runtime/resilience.py:28-33, 49-51).
THEOREM SerialClosesThroughTrial ==
  ASSUME MaxInflight = 1
  PROVE  Spec => ClosesThroughTrial
<1>1. IInv /\ [Next]_vars =>
        [breaker.state = "OPEN" /\ breaker'.state # "OPEN" =>
           breaker.cooled /\ breaker'.state = "HALF_OPEN"]_vars
  <2> SUFFICES ASSUME IInv, [Next]_vars,
                      breaker.state = "OPEN", breaker'.state # "OPEN"
               PROVE  breaker.cooled /\ breaker'.state = "HALF_OPEN"
    BY DEF vars
  <2> USE DEF IInv, TypeOK
  <2>1. Running = {}
    BY SparePermitMeansQuiet
  <2>2. ASSUME NEW c \in Caller, Call(c) \/ Acquire(c)
        PROVE  breaker.cooled /\ breaker'.state = "HALF_OPEN"
    BY <2>2, CheckResilienceAssumption, AdmitBreaker DEF Call, Acquire, Start, Refuses
  <2>3. ASSUME NEW c \in Caller, Return(c) \/ Raise(c)
        PROVE  FALSE
    BY <2>1, <2>3 DEF Return, Raise, Running
  <2>4. ASSUME NEW S \in SUBSET Caller, Cancel(S)
        PROVE  FALSE
    BY <2>4 DEF Cancel
  <2>5. CASE Elapse
    BY <2>5, CheckResilienceAssumption, CooledDownBreaker DEF Elapse
  <2>6. CASE UNCHANGED vars
    BY <2>6 DEF vars
  <2> QED
    BY <2>2, <2>3, <2>4, <2>5, <2>6 DEF Next
<1> QED
  BY <1>1, Induction, TypeCorrect, PTL DEF Spec, ClosesThroughTrial

=============================================================================
