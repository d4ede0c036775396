------------------------- MODULE ProviderSagaProofs -------------------------
(***************************************************************************)
(* The safety properties of ProviderSaga, for every number of operations.  *)
(*                                                                         *)
(* The invariant ties the three histories together: the phases completed,  *)
(* the operations begun and the operations performed are the same list of  *)
(* phases, cut at the current phase.  The begun list is longer than the    *)
(* completed one by the operation under way, and the performed list lies   *)
(* between the two.  What the saga says of its transport, resources and    *)
(* billing is a function of how many phases are completed.                 *)
(***************************************************************************)
EXTENDS ProviderSaga, TLAPS

P(i) == PROVIDER_BOOTSTRAP_PHASES[i]

\* The operations begun: one for each phase completed, and the active one.
BegunInv ==
  /\ \A i \in 1 .. Len(begun) : begun[i].phase = P(i)
  /\ active = None => Len(begun) = Len(completed)
  /\ active # None => /\ Len(completed) < LastPhase
                      /\ Len(begun) = Len(completed) + 1
                      /\ active.phase = P(Len(begun))
                      /\ active.operation = begun[Len(begun)].operation

\* The operations performed: those of the completed phases, and perhaps the
\* active one.
EffectsInv ==
  /\ Len(completed) <= Len(effects)
  /\ Len(effects) <= Len(begun)
  /\ \A i \in 1 .. Len(effects) : effects[i] = begun[i]

\* What the record says follows from the number of completed phases.
RecordInv ==
  /\ active = None => status \in {"RUNNING", "COMPLETE"}
  /\ status = "COMPLETE" => active = None
  /\ status = "COMPLETE" <=> Len(completed) = LastPhase
  /\ deregistered <=> Len(completed) >= 8
  /\ cleaned <=> Len(completed) >= 9
  /\ Len(completed) = LastPhase => billing \in TerminalBilling
  /\ evidence = {q \in EVIDENCE_REQUIRED_PHASES : \E i \in 1 .. Len(completed) : P(i) = q}

IInv == TypeOK /\ BegunInv /\ EffectsInv /\ RecordInv

-----------------------------------------------------------------------------
(* The list of phases. *)

LEMMA PhaseList ==
  /\ LastPhase = 10
  /\ \A i \in 1 .. 10 : P(i) \in Phases
  /\ \A i, j \in 1 .. 10 : P(i) = P(j) => i = j
  /\ P(8) = "DEREGISTER" /\ P(9) = "CLEANUP" /\ P(10) = "BILLING_STOP"
<1>1. LastPhase = 10
  BY DEF LastPhase, PROVIDER_BOOTSTRAP_PHASES
<1>2. /\ P(1) = "PROVISION" /\ P(2) = "BOOTSTRAP" /\ P(3) = "ATTEST"
      /\ P(4) = "REGISTER_TRANSPORT" /\ P(5) = "BIND_JOB" /\ P(6) = "EXECUTE"
      /\ P(7) = "COLLECT" /\ P(8) = "DEREGISTER" /\ P(9) = "CLEANUP"
      /\ P(10) = "BILLING_STOP"
  BY DEF P, PROVIDER_BOOTSTRAP_PHASES
<1>3. \A i \in 1 .. 10 : P(i) \in Phases
  BY <1>1 DEF Phases, P
<1>4. \A i \in 1 .. 10 : i \in {1, 2, 3, 4, 5, 6, 7, 8, 9, 10}
  OBVIOUS
<1>5. \A i, j \in {1, 2, 3, 4, 5, 6, 7, 8, 9, 10} : P(i) = P(j) => i = j
  BY <1>2
<1>. QED  BY <1>1, <1>2, <1>3, <1>4, <1>5

LEMMA RequiredPhases ==
  \A q \in EVIDENCE_REQUIRED_PHASES : \E i \in 1 .. 10 : P(i) = q
<1>1. P(2) = "BOOTSTRAP" /\ P(3) = "ATTEST" /\ P(4) = "REGISTER_TRANSPORT" /\ P(5) = "BIND_JOB"
  BY DEF P, PROVIDER_BOOTSTRAP_PHASES
<1>. QED  BY <1>1 DEF EVIDENCE_REQUIRED_PHASES

\* The current phase follows the completed ones.
LEMMA CurrentPhase ==
  ASSUME TypeOK
  PROVE  /\ Len(completed) \in Nat /\ Len(completed) <= 10
         /\ Len(completed) < 10 => Current = P(Len(completed) + 1) /\ Current \in Phases
         /\ Len(completed) = 10 => Current = None
         /\ Current # None => Len(completed) < 10
<1>1. LastPhase = 10 /\ Len(completed) \in Nat /\ Len(completed) <= 10
  BY PhaseList DEF TypeOK
<1>2. Len(completed) < 10 => Current = P(Len(completed) + 1)
  BY <1>1 DEF Current, P
<1>3. \A n \in Nat : n < 10 => P(n + 1) \in Phases
  BY PhaseList
<1>4. Len(completed) = 10 => Current = None
  BY <1>1 DEF Current
<1>5. Current # None => Len(completed) < 10
  <2>1. \A n \in Nat : n <= 10 /\ n # 10 => n < 10
    OBVIOUS
  <2>. QED  BY <1>1, <1>4, <2>1
<1>6. Len(completed) < 10 => Current \in Phases
  BY <1>1, <1>2, <1>3
<1>. QED  BY <1>1, <1>2, <1>4, <1>5, <1>6

LEMMA InitInv == Init => IInv
<1>. SUFFICES ASSUME Init  PROVE IInv
  OBVIOUS
<1>1. Len(completed) = 0 /\ Len(begun) = 0 /\ Len(effects) = 0
  BY DEF Init
<1>2. TypeOK
  <2>1. Len(completed) <= LastPhase
    BY <1>1, PhaseList
  <2>2. Valid
    BY <1>1, PhaseList DEF Init, Valid
  <2>3. completed \in Seq(Phases) /\ begun \in Seq(Claims) /\ effects \in Seq(Claims)
    BY DEF Init
  <2>. QED  BY <2>1, <2>2, <2>3 DEF Init, TypeOK
<1>3. BegunInv /\ EffectsInv
  BY <1>1 DEF Init, BegunInv, EffectsInv
<1>4. RecordInv
  BY <1>1, PhaseList DEF Init, RecordInv
<1>. QED  BY <1>2, <1>3, <1>4 DEF IInv

-----------------------------------------------------------------------------
(* The steps. *)

\* A phase can only be begun when none is under way, and then its operation is
\* the next of the list.
LEMMA BeginInv ==
  ASSUME IInv, NEW operation \in Operations, BeginPhase(operation)
  PROVE  IInv'
<1>. DEFINE n == Len(completed)
            claim == [phase |-> Current, operation |-> operation]
<1>1. n \in Nat /\ n < 10 /\ Current = P(n + 1) /\ Current \in Phases
  BY CurrentPhase DEF IInv, BeginPhase
<1>2. /\ active = None /\ Len(begun) = n
      /\ begun \in Seq(Claims) /\ claim \in Claims
      /\ begun' = Append(begun, claim)
  BY <1>1 DEF BeginPhase, IInv, BegunInv, TypeOK, Claims
<1>3. /\ begun' \in Seq(Claims) /\ Len(begun') = n + 1 /\ begun'[n + 1] = claim
      /\ \A i \in 1 .. n : begun'[i] = begun[i]
  BY <1>1, <1>2
<1>4. active' = [phase |-> Current, operation |-> operation, result |-> "IN_PROGRESS"]
  BY DEF BeginPhase
<1>5. active' \in ActiveOperations
  BY <1>1, <1>4 DEF ActiveOperations
<1>6. /\ active' # None /\ active'.result = "IN_PROGRESS"
      /\ active'.phase = Current /\ active'.operation = operation
  BY <1>4, <1>5, SagaAssumption
<1>7. UNCHANGED <<status, completed, evidence, projection, failure, observation, effects>>
      /\ status = "RUNNING"
  BY DEF BeginPhase
<1>. HIDE DEF n, claim
<1>8. TypeOK'
  <2>1. Valid'
    BY <1>6, <1>7 DEF IInv, TypeOK, Valid, projection
  <2>. QED  BY <1>3, <1>5, <1>7, <2>1 DEF IInv, TypeOK, projection
<1>9. BegunInv'
  <2>1. n' = n
    BY <1>7 DEF n
  <2>2. \A i \in 1 .. Len(begun') : begun'[i].phase = P(i)
    <3>1. \A i \in 1 .. n : begun'[i].phase = P(i)
      BY <1>2, <1>3 DEF IInv, BegunInv
    <3>2. begun'[n + 1].phase = P(n + 1)
      BY <1>1, <1>3 DEF claim
    <3>. QED  BY <1>1, <1>3, <3>1, <3>2
  <2>3. begun'[Len(begun')].operation = active'.operation /\ active'.phase = P(Len(begun'))
    BY <1>1, <1>3, <1>6 DEF claim
  <2>4. Len(completed') < LastPhase /\ Len(begun') = Len(completed') + 1
    BY <1>1, <1>3, <1>7, PhaseList DEF n
  <2>. QED  BY <1>6, <2>2, <2>3, <2>4 DEF BegunInv
<1>10. EffectsInv'
  <2>1. Len(effects) = n
    BY <1>1, <1>2 DEF IInv, EffectsInv, TypeOK, n
  <2>. QED  BY <1>1, <1>2, <1>3, <1>7, <2>1 DEF IInv, EffectsInv, n
<1>11. RecordInv'
  BY <1>6, <1>7, <1>1, PhaseList DEF IInv, RecordInv, projection, n
<1>. QED  BY <1>8, <1>9, <1>10, <1>11 DEF IInv

\* What is known when a result is recorded or reconciled.
LEMMA UnderWay ==
  ASSUME IInv, NEW operation \in Operations, SameOperation(operation)
  PROVE  /\ active \in ActiveOperations /\ active # None
         /\ Len(completed) \in Nat /\ Len(completed) < 10
         /\ Len(begun) = Len(completed) + 1
         /\ Current = P(Len(completed) + 1) /\ Current \in Phases
         /\ active.phase = Current
<1>1. active # None /\ active \in ActiveOperations
  BY DEF SameOperation, IInv, TypeOK
<1>2. Len(completed) < LastPhase /\ Len(begun) = Len(completed) + 1 /\ active.phase = P(Len(begun))
  BY <1>1 DEF IInv, BegunInv
<1>3. Len(completed) < 10
  BY <1>2, PhaseList
<1>. QED  BY <1>1, <1>2, <1>3, CurrentPhase DEF IInv

\* An operation that is reported performed is the last one performed.
LEMMA LastPerformed ==
  ASSUME IInv, NEW operation \in Operations, SameOperation(operation),
         Performed([phase |-> active.phase, operation |-> active.operation])
  PROVE  Len(effects) = Len(completed) + 1
<1>1. PICK i \in 1 .. Len(effects) :
        effects[i] = [phase |-> active.phase, operation |-> active.operation]
  BY DEF Performed
<1>2. effects[i].phase = active.phase
  BY <1>1
<1>3. /\ Len(effects) \in Nat /\ Len(effects) <= Len(begun)
      /\ effects[i] = begun[i] /\ begun[i].phase = P(i)
  BY UnderWay DEF IInv, EffectsInv, BegunInv, TypeOK
<1>4. P(i) = P(Len(completed) + 1) /\ i \in 1 .. 10
  BY <1>2, <1>3, UnderWay
<1>5. PICK n \in Nat : n = Len(completed) /\ n < 10
  BY UnderWay
<1>6. i = n + 1
  BY <1>4, <1>5, PhaseList
<1>. QED  BY <1>3, <1>5, <1>6, UnderWay

\* Passing a phase moves the boundary of the lists by one.
LEMMA PassedInv ==
  ASSUME IInv, NEW operation \in Operations, SameOperation(operation), PhasePassed,
         UNCHANGED <<observation, begun, effects>>
  PROVE  IInv'
<1>1. PICK n \in Nat : n = Len(completed) /\ n < 10
  BY UnderWay
<1>2. Len(effects) = n + 1 /\ Len(begun) = n + 1
  BY <1>1, UnderWay, LastPerformed DEF PhasePassed
<1>3. Current = P(n + 1) /\ Current \in Phases /\ completed \in Seq(Phases)
  BY <1>1, UnderWay DEF IInv, TypeOK
<1>4. completed' = Append(completed, Current)
  BY DEF PhasePassed
<1>5. /\ completed' \in Seq(Phases) /\ Len(completed') = n + 1
      /\ completed'[n + 1] = P(n + 1)
      /\ \A i \in 1 .. n : completed'[i] = completed[i]
  BY <1>1, <1>3, <1>4
<1>6. /\ P(n + 1) = "DEREGISTER" <=> n = 7
      /\ P(n + 1) = "CLEANUP" <=> n = 8
      /\ P(n + 1) = "BILLING_STOP" <=> n = 9
  <2>1. n + 1 \in 1 .. 10
    BY <1>1
  <2>. QED  BY <2>1, PhaseList
<1>7. /\ deregistered' <=> n + 1 >= 8
      /\ cleaned' <=> n + 1 >= 9
      /\ deregistered' \in BOOLEAN /\ cleaned' \in BOOLEAN
  <2>1. /\ deregistered \in BOOLEAN /\ cleaned \in BOOLEAN
        /\ deregistered <=> n >= 8
        /\ cleaned <=> n >= 9
    BY <1>1 DEF IInv, RecordInv, TypeOK
  <2>2. /\ deregistered' = (deregistered \/ P(n + 1) = "DEREGISTER")
        /\ cleaned' = (cleaned \/ P(n + 1) = "CLEANUP")
    BY <1>3 DEF PhasePassed
  <2>3. /\ n + 1 >= 8 <=> n >= 8 \/ n = 7
        /\ n + 1 >= 9 <=> n >= 9 \/ n = 8
    OBVIOUS
  <2>. QED  BY <1>6, <2>1, <2>2, <2>3
<1>8. /\ billing' \in TerminalBilling \cup {"ACTIVE"}
      /\ n = 9 => billing' \in TerminalBilling
  BY <1>1, <1>3, <1>6 DEF PhasePassed, IInv, TypeOK
<1>9. /\ active' = None /\ failure' = failure
      /\ status' = IF n = 9 THEN "COMPLETE" ELSE "RUNNING"
  BY <1>1, PhaseList DEF PhasePassed
<1>10. evidence' = {q \in EVIDENCE_REQUIRED_PHASES : \E i \in 1 .. n + 1 : P(i) = q}
  <2>1. evidence = {q \in EVIDENCE_REQUIRED_PHASES : \E i \in 1 .. n : P(i) = q}
    BY <1>1 DEF IInv, RecordInv
  <2>2. evidence' = evidence \cup ({P(n + 1)} \cap EVIDENCE_REQUIRED_PHASES)
    BY <1>3 DEF PhasePassed
  <2>3. \A i : i \in 1 .. n + 1 <=> i \in 1 .. n \/ i = n + 1
    BY <1>1
  <2>. QED  BY <2>1, <2>2, <2>3
<1>11. TypeOK'
  <2>1. \A i \in 1 .. n + 1 : completed'[i] = PROVIDER_BOOTSTRAP_PHASES[i]
    <3>1. \A i \in 1 .. n : completed[i] = PROVIDER_BOOTSTRAP_PHASES[i]
      BY <1>1 DEF IInv, TypeOK, Valid
    <3>. QED  BY <1>1, <1>5, <3>1 DEF P
  <2>2. Valid'
    <3>1. n = 9 => deregistered' /\ cleaned' /\ Len(completed') = LastPhase
      BY <1>5, <1>7, PhaseList
    <3>. QED  BY <1>5, <1>8, <1>9, <2>1, <3>1 DEF Valid
  <2>3. evidence' \subseteq EVIDENCE_REQUIRED_PHASES
    BY <1>10
  <2>4. Len(completed') <= LastPhase
    BY <1>1, <1>5, PhaseList
  <2>5. begun' \in Seq(Claims) /\ effects' \in Seq(Claims)
        /\ observation' \in {None, "PRESENT", "ABSENT"} /\ failure' \in BOOLEAN
    BY <1>9 DEF IInv, TypeOK
  <2>. QED  BY <1>5, <1>7, <1>8, <1>9, <2>2, <2>3, <2>4, <2>5 DEF TypeOK
<1>12. BegunInv' /\ EffectsInv'
  BY <1>1, <1>2, <1>5, <1>9 DEF IInv, BegunInv, EffectsInv
<1>13. RecordInv'
  BY <1>1, <1>5, <1>7, <1>8, <1>9, <1>10, PhaseList DEF RecordInv
<1>. QED  BY <1>11, <1>12, <1>13 DEF IInv

\* A result that does not pass the phase leaves the lists alone.
LEMMA NotPassedInv ==
  ASSUME IInv, NEW operation \in Operations, SameOperation(operation),
         PhaseUnknown \/ PhaseFailed, UNCHANGED <<observation, begun, effects>>
  PROVE  IInv'
<1>1. PICK result \in {"OUTCOME_UNKNOWN", "FAIL"} :
        /\ active' = [active EXCEPT !.result = result]
        /\ status' = IF result = "FAIL" THEN "FAILED" ELSE "RECONCILIATION_REQUIRED"
        /\ failure' = (failure \/ result = "FAIL")
        /\ UNCHANGED <<completed, evidence, deregistered, cleaned, billing>>
  BY DEF PhaseUnknown, PhaseFailed, projection, IInv, TypeOK
<1>2. /\ active' \in ActiveOperations
      /\ active'.phase = active.phase /\ active'.operation = active.operation
      /\ active'.result = result
  BY <1>1, UnderWay DEF ActiveOperations
<1>3. active' # None
  BY <1>2, SagaAssumption
<1>4. Len(completed) # LastPhase
  BY UnderWay DEF IInv, BegunInv
<1>5. TypeOK'
  <2>1. Valid'
    BY <1>1, <1>2, <1>3 DEF IInv, TypeOK, Valid
  <2>. QED  BY <1>1, <1>2, <2>1 DEF IInv, TypeOK
<1>6. BegunInv' /\ EffectsInv'
  BY <1>1, <1>2, <1>3, UnderWay DEF IInv, BegunInv, EffectsInv
<1>7. RecordInv'
  BY <1>1, <1>3, <1>4 DEF IInv, RecordInv
<1>. QED  BY <1>5, <1>6, <1>7 DEF IInv

\* The provider only ever has the last operation left to perform.
LEMMA PerformInv ==
  ASSUME IInv, NEW i \in 1 .. Len(begun), Perform(begun[i])
  PROVE  IInv'
<1>1. PICK b \in Nat, e \in Nat, n \in Nat : b = Len(begun) /\ e = Len(effects) /\ n = Len(completed)
  BY DEF IInv, TypeOK
<1>2. /\ n <= e /\ e <= b /\ b <= n + 1
      /\ \A j \in 1 .. e : effects[j] = begun[j]
  BY <1>1 DEF IInv, EffectsInv, BegunInv
<1>3. i = e + 1 /\ b = e + 1
  BY <1>1, <1>2 DEF Perform, Performed
<1>4. /\ begun \in Seq(Claims) /\ effects \in Seq(Claims) /\ begun[i] \in Claims
      /\ effects' = Append(effects, begun[i]) /\ UNCHANGED saga
  BY DEF Perform, IInv, TypeOK
<1>5. /\ effects' \in Seq(Claims) /\ Len(effects') = e + 1 /\ effects'[e + 1] = begun[i]
      /\ \A j \in 1 .. e : effects'[j] = effects[j]
  <2>1. PICK c \in Claims : c = begun[i] /\ effects' = Append(effects, c)
    BY <1>4
  <2>. QED  BY <1>1, <1>4, <2>1
<1>6. EffectsInv'
  <2>1. UNCHANGED <<completed, begun>>
    BY <1>4 DEF saga
  <2>2. n <= e + 1 /\ e + 1 <= b
    BY <1>2, <1>3
  <2>3. \A j \in 1 .. e + 1 : effects'[j] = begun[j]
    BY <1>2, <1>3, <1>5
  <2>. QED  BY <1>1, <1>5, <2>1, <2>2, <2>3 DEF EffectsInv
<1>7. TypeOK' /\ BegunInv' /\ RecordInv'
  BY <1>4, <1>5 DEF IInv, TypeOK, Valid, BegunInv, RecordInv, saga, projection
<1>. QED  BY <1>6, <1>7 DEF IInv

LEMMA StepInv == IInv /\ [Next]_vars => IInv'
<1>1. ASSUME IInv, NEW operation \in Operations, BeginPhase(operation)  PROVE IInv'
  BY <1>1, BeginInv
<1>2. ASSUME IInv, NEW operation \in Operations, RecordResult(operation) \/ Reconcile(operation)
      PROVE  IInv'
  BY <1>2, PassedInv, NotPassedInv DEF RecordResult, Reconcile
<1>3. ASSUME IInv, NEW state \in {"PRESENT", "ABSENT"}, ObserveProvider(state)  PROVE IInv'
  BY <1>3 DEF ObserveProvider, IInv, TypeOK, Valid, BegunInv, EffectsInv, RecordInv, projection
<1>4. ASSUME IInv, NEW i \in 1 .. Len(begun), Perform(begun[i])  PROVE IInv'
  BY <1>4, PerformInv
<1>5. ASSUME IInv, UNCHANGED vars  PROVE IInv'
  BY <1>5 DEF vars, saga, projection, IInv, TypeOK, Valid, BegunInv, EffectsInv, RecordInv
<1>. QED  BY <1>1, <1>2, <1>3, <1>4, <1>5 DEF Next

-----------------------------------------------------------------------------
(* The theorems. *)

\* The inductive invariant of the saga and the provider.
THEOREM SagaInvariant == Spec => []IInv
BY InitInv, StepInv, PTL DEF Spec

\* Every variable has its type, and validateSaga refuses no saga it is shown.
THEOREM SagaTypeOK == Spec => []TypeOK
<1>1. IInv => TypeOK
  BY DEF IInv
<1>. QED  BY <1>1, SagaInvariant, PTL

\* The provider performs the phases in order, one operation each, at most one
\* ahead of the saga.
LEMMA InOrder == IInv => EffectsInOrder
<1>. SUFFICES ASSUME IInv  PROVE EffectsInOrder
  OBVIOUS
<1>1. PICK b \in Nat, e \in Nat, n \in Nat : b = Len(begun) /\ e = Len(effects) /\ n = Len(completed)
  BY DEF IInv, TypeOK
<1>2. n <= e /\ e <= b /\ b <= n + 1
  BY <1>1 DEF IInv, EffectsInv, BegunInv
<1>3. e \in {n, n + 1}
  BY <1>2
<1>4. \A i \in 1 .. e : effects[i].phase = PROVIDER_BOOTSTRAP_PHASES[i]
  BY <1>1, <1>2 DEF IInv, EffectsInv, BegunInv, P
<1>. QED  BY <1>1, <1>3, <1>4 DEF EffectsInOrder

THEOREM SagaEffectsInOrder == Spec => []EffectsInOrder
BY InOrder, SagaInvariant, PTL

\* The terminal projection is earned by what the provider performed.
LEMMA Earned == IInv => ProjectionIsEarned
<1>. SUFFICES ASSUME IInv  PROVE ProjectionIsEarned
  OBVIOUS
<1>1. PICK e \in Nat, n \in Nat : e = Len(effects) /\ n = Len(completed) /\ n <= e
  BY DEF IInv, TypeOK, EffectsInv
<1>2. ASSUME NEW i \in 1 .. 10, i <= n  PROVE Done(P(i))
  <2>1. i \in 1 .. e
    BY <1>1, <1>2
  <2>2. effects[i].phase = P(i)
    BY <1>1, <2>1, InOrder DEF EffectsInOrder, P
  <2>. QED  BY <1>1, <2>1, <2>2 DEF Done
<1>3. deregistered => Done("DEREGISTER")
  <2>1. deregistered => 8 <= n
    BY <1>1 DEF IInv, RecordInv
  <2>. QED  BY <1>2, <2>1, PhaseList
<1>4. cleaned => deregistered /\ Done("CLEANUP")
  <2>1. cleaned => 9 <= n /\ 8 <= n
    BY <1>1 DEF IInv, RecordInv
  <2>2. cleaned => deregistered
    BY <1>1, <2>1 DEF IInv, RecordInv
  <2>. QED  BY <1>2, <2>1, <2>2, PhaseList
<1>5. status = "COMPLETE" => Done("BILLING_STOP") /\ evidence = EVIDENCE_REQUIRED_PHASES
  <2>. SUFFICES ASSUME status = "COMPLETE"
                PROVE  Done("BILLING_STOP") /\ evidence = EVIDENCE_REQUIRED_PHASES
    OBVIOUS
  <2>1. n = 10
    BY <1>1, PhaseList DEF IInv, RecordInv
  <2>2. evidence = {q \in EVIDENCE_REQUIRED_PHASES : \E i \in 1 .. 10 : P(i) = q}
    BY <1>1, <2>1 DEF IInv, RecordInv
  <2>. QED  BY <1>2, <2>1, <2>2, PhaseList, RequiredPhases
<1>. QED  BY <1>3, <1>4, <1>5, InOrder DEF ProjectionIsEarned

THEOREM SagaProjectionIsEarned == Spec => []ProjectionIsEarned
BY Earned, SagaInvariant, PTL

\* Once terminal, the projection stays terminal.
THEOREM SagaProjectionNeverReverts == Spec => ProjectionNeverReverts
<1>. DEFINE Kept == /\ deregistered => deregistered'
                    /\ cleaned => cleaned'
                    /\ billing \in TerminalBilling => billing' \in TerminalBilling
                    /\ status = "COMPLETE" => status' = "COMPLETE"
<1>1. ASSUME IInv, NEW operation \in Operations, BeginPhase(operation)  PROVE Kept
  BY <1>1 DEF BeginPhase, projection
<1>2. ASSUME IInv, NEW operation \in Operations, RecordResult(operation) \/ Reconcile(operation)
      PROVE  Kept
  <2>1. active # None /\ status # "COMPLETE"
    BY <1>2 DEF RecordResult, Reconcile, SameOperation, IInv, RecordInv
  <2>2. CASE PhasePassed
    BY <2>1, <2>2 DEF PhasePassed
  <2>3. CASE PhaseUnknown \/ PhaseFailed
    BY <2>1, <2>3 DEF PhaseUnknown, PhaseFailed, projection
  <2>. QED  BY <1>2, <2>2, <2>3 DEF RecordResult, Reconcile
<1>3. ASSUME NEW state \in {"PRESENT", "ABSENT"}, ObserveProvider(state)  PROVE Kept
  BY <1>3 DEF ObserveProvider, projection
<1>4. ASSUME NEW i \in 1 .. Len(begun), Perform(begun[i])  PROVE Kept
  BY <1>4 DEF Perform, saga, projection
<1>5. ASSUME UNCHANGED vars  PROVE Kept
  BY <1>5 DEF vars, saga, projection
<1>6. IInv /\ [Next]_vars => [Kept]_vars
  BY <1>1, <1>2, <1>3, <1>4, <1>5 DEF Next
<1>. QED  BY <1>6, SagaInvariant, PTL DEF Spec, ProjectionNeverReverts
=============================================================================
