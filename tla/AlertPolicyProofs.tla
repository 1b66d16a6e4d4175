------------------------- MODULE AlertPolicyProofs -------------------------
(***************************************************************************)
(* Theorems about AlertPolicy for every set of fingerprints, every window  *)
(* and any ages of purging, those within a window among them.              *)
(***************************************************************************)
EXTENDS AlertPolicy, TLAPS

(***************************************************************************)
(* The inductive invariant.  _last_dispatched holds the last grant, unless *)
(* a purge was told to forget what is as old: nothing else deletes a stamp *)
(* or brings one back.                                                     *)
(***************************************************************************)
StampsTellGrants ==
  \A f \in Fingerprint : last_dispatched[f] = IF f \in forgotten THEN Never ELSE granted[f]

\* What is forgotten was granted, and is older than the age of some purge.
ForgottenAreOld ==
  \A f \in forgotten : granted[f] # Never /\ \E age \in PurgeAge : now - granted[f] > age

IInv == TypeOK /\ StampsTellGrants /\ ForgottenAreOld

\* Sweeping keeps the stamps stamps, deletes those older than the age and alters none.
LEMMA SweptStamps ==
  ASSUME TypeOK, NEW age \in PurgeAge, NEW stamps \in [Fingerprint -> Stamp]
  PROVE  /\ Swept(stamps, age) \in [Fingerprint -> Stamp]
         /\ \A f \in Fingerprint :
              Swept(stamps, age)[f] =
                IF stamps[f] # Never /\ now - stamps[f] > age THEN Never ELSE stamps[f]
BY DEF Swept, Stamp, Never

\* Every reachable state is well typed (src/core/policies.py:10-65).
THEOREM TypeCorrect == Spec => []TypeOK
<1> USE AlertPolicyAssumption DEF TypeOK, Stamp, Time, Never
<1>1. Init => TypeOK
  BY DEF Init
<1>2. TypeOK /\ [Next]_vars => TypeOK'
  <2> SUFFICES ASSUME TypeOK, [Next]_vars
               PROVE  TypeOK'
    OBVIOUS
  <2>1. ASSUME NEW f \in Fingerprint, Suppress(f)
        PROVE  TypeOK'
    BY <2>1 DEF Suppress, Stamped
  <2>2. ASSUME NEW f \in Fingerprint, Break(f)
        PROVE  TypeOK'
    BY <2>2 DEF Break, Stamped, TakeCount
  <2>3. ASSUME NEW f \in Fingerprint, Grant(f)
        PROVE  TypeOK'
    BY <2>3 DEF Grant, Stamped
  <2>4. ASSUME NEW age \in PurgeAge, Purge(age)
        PROVE  TypeOK'
    <3>1. forgotten' \subseteq Fingerprint
      BY <2>4 DEF Purge
    <3> QED
      BY <2>4, <3>1, SweptStamps DEF Purge
  <2>5. CASE Tick
    BY <2>5 DEF Tick
  <2>6. CASE UNCHANGED vars
    BY <2>6 DEF vars
  <2> QED
    BY <2>1, <2>2, <2>3, <2>4, <2>5, <2>6 DEF Next
<1> QED
  BY <1>1, <1>2, PTL DEF Spec

\* The invariant is inductive.
LEMMA Induction ==
  /\ Init => IInv
  /\ IInv /\ TypeOK' /\ [Next]_vars => IInv'
<1>1. Init => IInv
  BY AlertPolicyAssumption
  DEF Init, IInv, StampsTellGrants, ForgottenAreOld, TypeOK, Stamp, Time, Never
<1>2. ASSUME IInv, TypeOK', [Next]_vars
      PROVE  StampsTellGrants' /\ ForgottenAreOld'
  <2> USE <1>2 DEF IInv, TypeOK, Stamp, Time, Never
  <2>1. ASSUME NEW f \in Fingerprint, Suppress(f) \/ Break(f)
        PROVE  StampsTellGrants' /\ ForgottenAreOld'
    BY <2>1 DEF Suppress, Break, StampsTellGrants, ForgottenAreOld
  <2>2. ASSUME NEW f \in Fingerprint, Grant(f)
        PROVE  StampsTellGrants' /\ ForgottenAreOld'
    BY <2>2 DEF Grant, Stamped, StampsTellGrants, ForgottenAreOld
  <2>3. ASSUME NEW age \in PurgeAge, Purge(age)
        PROVE  StampsTellGrants' /\ ForgottenAreOld'
    <3>1. \A f \in Fingerprint :
            /\ last_dispatched'[f] =
                 IF last_dispatched[f] # Never /\ now - last_dispatched[f] > age
                   THEN Never ELSE last_dispatched[f]
            /\ f \in forgotten' <=>
                 f \in forgotten \/ (granted[f] # Never /\ now - granted[f] > age)
      BY <2>3, SweptStamps DEF Purge
    <3>2. UNCHANGED <<granted, now>>
      BY <2>3 DEF Purge
    <3>3. StampsTellGrants'
      BY <3>1, <3>2 DEF StampsTellGrants
    <3>4. ForgottenAreOld'
      BY <2>3, <3>2 DEF Purge, ForgottenAreOld
    <3> QED
      BY <3>3, <3>4
  <2>4. CASE Tick
    <3>1. StampsTellGrants'
      BY <2>4 DEF Tick, StampsTellGrants
    <3>2. ASSUME NEW f \in forgotten
          PROVE  granted[f] # Never /\ \E age \in PurgeAge : now + 1 - granted[f] > age
      <4>1. PICK age \in PurgeAge : now - granted[f] > age
        BY DEF ForgottenAreOld
      <4>2. now \in Int /\ granted[f] \in Int /\ age \in Int
        BY AlertPolicyAssumption
      <4> QED
        BY <4>1, <4>2 DEF ForgottenAreOld
    <3> QED
      BY <2>4, <3>1, <3>2 DEF Tick, ForgottenAreOld
  <2>5. CASE UNCHANGED vars
    BY <2>5 DEF vars, StampsTellGrants, ForgottenAreOld
  <2> QED
    BY <2>1, <2>2, <2>3, <2>4, <2>5 DEF Next
<1> QED
  BY <1>1, <1>2 DEF IInv

LEMMA AlwaysIInv == Spec => []IInv
BY Induction, TypeCorrect, PTL DEF Spec

\* A window is what the last grant opened: the code reads it off its dictionary rightly.
LEMMA WindowsAgree ==
  ASSUME IInv, NEW f \in Fingerprint
  PROVE  WithinWindow(f) <=> f \in Open
BY DEF IInv, StampsTellGrants, WithinWindow, Open

\* A dispatch that follows another of its fingerprint.
LEMMA GrantedAgain ==
  ASSUME IInv, [Next]_vars, NEW f \in Fingerprint, granted'[f] # granted[f]
  PROVE  granted'[f] = now /\ f \notin Open
<1>1. Grant(f)
  BY DEF IInv, TypeOK, Next, Suppress, Break, Grant, Stamped, Purge, Tick, vars
<1> QED
  BY <1>1, WindowsAgree DEF Grant, Stamped, IInv, TypeOK

\* Two dispatches of one fingerprint are at least dedupe_window_seconds apart, unless a
\* purge between them was given an age that the first exceeded; no other purge and no lost
\* count shortens a window, for any ages (src/core/policies.py:41-65).
THEOREM GrantsAreSpaced == Spec => DispatchSpacing
<1>1. IInv /\ [Next]_vars =>
        [\A f \in Fingerprint :
           granted'[f] # granted[f] /\ granted[f] # Never =>
             granted'[f] - granted[f] >= Dedupe[f] \/ f \in forgotten]_vars
  <2> SUFFICES ASSUME IInv, [Next]_vars, NEW f \in Fingerprint,
                      granted'[f] # granted[f], granted[f] # Never, f \notin forgotten
               PROVE  granted'[f] - granted[f] >= Dedupe[f]
    OBVIOUS
  <2>1. granted'[f] = now /\ f \notin Open
    BY GrantedAgain
  <2>2. now \in Int /\ granted[f] \in Int /\ Dedupe[f] \in Int
    BY AlertPolicyAssumption DEF IInv, TypeOK, Stamp, Time, Never
  <2> QED
    BY <2>1, <2>2 DEF Open
<1> QED
  BY <1>1, AlwaysIInv, PTL DEF DispatchSpacing, Spec

\* So where purges spare the windows, each being given an age that no window exceeds by more
\* than a unit (as the defaults of a day and an hour do), dispatches are spaced without
\* exception (src/core/policies.py:41-65, src/config/parser.py:93).
THEOREM SparedWindowsAreKept ==
  ASSUME \A f \in Fingerprint, age \in PurgeAge : Dedupe[f] =< age + 1
  PROVE  Spec => [][\A f \in Fingerprint :
                      granted'[f] # granted[f] /\ granted[f] # Never =>
                        granted'[f] - granted[f] >= Dedupe[f]]_vars
<1>1. IInv /\ [Next]_vars =>
        [\A f \in Fingerprint :
           granted'[f] # granted[f] /\ granted[f] # Never =>
             granted'[f] - granted[f] >= Dedupe[f]]_vars
  <2> SUFFICES ASSUME IInv, [Next]_vars, NEW f \in Fingerprint,
                      granted'[f] # granted[f], granted[f] # Never
               PROVE  granted'[f] - granted[f] >= Dedupe[f]
    OBVIOUS
  <2>1. granted'[f] = now /\ f \notin Open
    BY GrantedAgain
  <2>2. now \in Int /\ granted[f] \in Int /\ Dedupe[f] \in Int
    BY AlertPolicyAssumption DEF IInv, TypeOK, Stamp, Time, Never
  <2>3. CASE f \notin forgotten
    BY <2>1, <2>2, <2>3 DEF Open
  <2>4. CASE f \in forgotten
    <3>1. PICK age \in PurgeAge : now - granted[f] > age
      BY <2>4 DEF IInv, ForgottenAreOld
    <3>2. age \in Int /\ Dedupe[f] =< age + 1
      BY AlertPolicyAssumption
    <3> QED
      BY <2>1, <2>2, <3>1, <3>2
  <2> QED
    BY <2>3, <2>4
<1> QED
  BY <1>1, AlwaysIInv, PTL DEF Spec

-----------------------------------------------------------------------------
(***************************************************************************)
(* The refinement.  Open and Repeating are the expressions that Promise    *)
(* substitutes for the variables of AlertWindow.                           *)
(***************************************************************************)

\* A purge, or the time, only closes windows.
LEMMA OnlyCloses ==
  ASSUME IInv, (\E age \in PurgeAge : Purge(age)) \/ Tick
  PROVE  Open' \subseteq Open /\ Repeating' = Repeating
<1>1. Repeating' = Repeating
  BY DEF Purge, Tick, Repeating
<1>2. /\ granted' = granted /\ forgotten \subseteq forgotten'
      /\ now' \in Int /\ now \in Int /\ now =< now'
  BY AlertPolicyAssumption DEF Purge, Tick, IInv, TypeOK, Time
<1>3. \A f \in Fingerprint : granted[f] \in Int /\ Dedupe[f] \in Int
  BY AlertPolicyAssumption DEF IInv, TypeOK, Stamp, Time, Never
<1> QED
  BY <1>1, <1>2, <1>3 DEF Open

\* Every step of AlertPolicy is a step of AlertWindow or changes no window.
LEMMA StepRefines ==
  ASSUME IInv, [Next]_vars
  PROVE  [Promise!Next]_<<Open, Repeating>>
<1>1. ASSUME NEW f \in Fingerprint, Suppress(f)
      PROVE  Promise!Suppress(f)
  <2>1. f \in Open
    BY <1>1, WindowsAgree DEF Suppress
  <2>2. Open' = Open
    BY <1>1 DEF Suppress, Open
  <2>3. Repeating' = Repeating \cup {f}
    BY <1>1, AlertPolicyAssumption DEF Suppress, Repeating, IInv, TypeOK
  <2> QED
    BY <2>1, <2>2, <2>3 DEF Promise!Suppress
<1>2. ASSUME NEW f \in Fingerprint, Break(f)
      PROVE  Promise!Break(f)
  <2>1. f \in Repeating \ Open
    BY <1>2, WindowsAgree DEF Break, Repeating
  <2>2. Open' = Open
    BY <1>2 DEF Break, Open
  <2>3. Repeating' = Repeating \ {f}
    BY <1>2, AlertPolicyAssumption DEF Break, TakeCount, Repeating, IInv, TypeOK
  <2> QED
    BY <2>1, <2>2, <2>3 DEF Promise!Break
<1>3. ASSUME NEW f \in Fingerprint, Grant(f)
      PROVE  Promise!Grant(f) \/ UNCHANGED <<Open, Repeating>>
  <2>1. f \notin Open /\ f \notin Repeating /\ Repeating' = Repeating
    BY <1>3, WindowsAgree DEF Grant, Repeating
  <2>2. now \in Int /\ Dedupe[f] \in Int /\ now # Never /\ f \notin forgotten'
    BY <1>3, AlertPolicyAssumption DEF Grant, IInv, TypeOK, Time, Never
  <2>3. granted'[f] = now /\ now' = now
        /\ \A g \in Fingerprint \ {f} : granted'[g] = granted[g] /\ (g \in forgotten' <=> g \in forgotten)
    BY <1>3 DEF Grant, Stamped, IInv, TypeOK
  <2>4. \A g \in Fingerprint \ {f} : g \in Open' <=> g \in Open
    BY <2>3 DEF Open
  <2>5. f \in Open' <=> Dedupe[f] > 0
    BY <2>2, <2>3 DEF Open
  <2>6. Open \subseteq Fingerprint /\ Open' \subseteq Fingerprint
    BY DEF Open
  <2>7. Open' = Open \cup {f} \/ Open' = Open
    BY <2>1, <2>4, <2>6
  <2> QED
    BY <2>1, <2>7 DEF Promise!Grant
<1>4. CASE (\E age \in PurgeAge : Purge(age)) \/ Tick
  <2>1. Open' \subseteq Open /\ Repeating' = Repeating
    BY <1>4, OnlyCloses
  <2>2. Open' = Open \ (Open \ Open') /\ Open \ Open' \in SUBSET Fingerprint
    BY <2>1 DEF Open
  <2>3. Promise!Expire(Open \ Open')
    BY <2>1, <2>2 DEF Promise!Expire
  <2> QED
    BY <2>2, <2>3 DEF Promise!Next
<1>5. CASE UNCHANGED vars
  BY <1>5 DEF vars, Open, Repeating
<1> QED
  BY <1>1, <1>2, <1>3, <1>4, <1>5 DEF Next, Promise!Next

\* AlertPolicy keeps the promise AlertWindow states, on which the executor
\* relies (src/core/policies.py:23-65, src/engine/executor.py:194-204).
THEOREM Refinement == Spec => ImplementsAlertWindow
<1>1. Init => Promise!Init
  BY DEF Init, Promise!Init, Open, Repeating
<1>2. IInv /\ [Next]_vars => [Promise!Next]_<<Open, Repeating>>
  BY StepRefines
<1> QED
  BY <1>1, <1>2, AlwaysIInv, PTL
  DEF Spec, ImplementsAlertWindow, Promise!Spec, Promise!vars

=============================================================================
