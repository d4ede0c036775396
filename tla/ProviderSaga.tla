---------------------------- MODULE ProviderSaga ----------------------------
(***************************************************************************)
(* provider-bootstrap-saga-v1: the durable record of how a provider is     *)
(* taken through its phases, and the provider it is about.                 *)
(*                                                                         *)
(* A caller begins a phase under an operation, has the provider perform    *)
(* it, and records the result; an unknown outcome is kept until the same   *)
(* operation is reconciled.  A begin that was applied once is answered     *)
(* "ok" for ever after (it is replayed from the index), so a caller that   *)
(* was delayed, or restarted and made its call again, may have the         *)
(* provider perform an operation at any later time.  The provider performs *)
(* an operation once, however often it is asked.                           *)
(*                                                                         *)
(* Every call is one compare-and-swap, hence one step, and one that lost a *)
(* race changes nothing (DurableStore).                                    *)
(***************************************************************************)
EXTENDS Integers, Sequences

CONSTANTS Operations,   \* operation ids with their idempotency keys
          None

PROVIDER_BOOTSTRAP_PHASES ==
  <<"PROVISION", "BOOTSTRAP", "ATTEST", "REGISTER_TRANSPORT", "BIND_JOB", "EXECUTE", "COLLECT",
    "DEREGISTER", "CLEANUP", "BILLING_STOP">>
LastPhase == Len(PROVIDER_BOOTSTRAP_PHASES)
Phases == {PROVIDER_BOOTSTRAP_PHASES[i] : i \in 1 .. LastPhase}
EVIDENCE_REQUIRED_PHASES == {"BOOTSTRAP", "ATTEST", "REGISTER_TRANSPORT", "BIND_JOB"}

VARIABLES status,        \* SAGA_STATUS
          completed,     \* COMPLETED_PHASES
          active,        \* ACTIVE_OPERATION, or None
          evidence,      \* the phases of PHASE_EVIDENCE that need it
          deregistered,  \* EXECUTION_TRANSPORT_DEREGISTERED
          cleaned,       \* REQUIRED_RESOURCE_CLEANUP_TERMINAL
          billing,       \* BILLING_STATUS
          failure,       \* whether there is a FAILURE
          observation,   \* LAST_PROVIDER_OBSERVATION
          begun,         \* the operations of the PROVIDER_SAGA_PHASE_STARTED events
          effects        \* the operations the provider performed, in order

projection == <<deregistered, cleaned, billing>>
saga == <<status, completed, active, evidence, projection, failure, observation, begun>>
vars == <<saga, effects>>

Claims == [phase : Phases, operation : Operations]
ActiveOperations ==
  [phase : Phases, operation : Operations,
   result : {"IN_PROGRESS", "OUTCOME_UNKNOWN", "FAIL"}]
TerminalBilling == {"STOPPED", "NOT_APPLICABLE"}

ASSUME SagaAssumption == None \notin Phases /\ None \notin ActiveOperations

\* CURRENT_PHASE.
Current ==
  IF Len(completed) < LastPhase THEN PROVIDER_BOOTSTRAP_PHASES[Len(completed) + 1] ELSE None

Performed(claim) == \E i \in 1 .. Len(effects) : effects[i] = claim

-----------------------------------------------------------------------------
\* initializeProviderBootstrapSagaV1; the caller may give any billing status.
Init ==
  /\ status = "RUNNING"
  /\ completed = <<>>
  /\ active = None
  /\ evidence = {}
  /\ deregistered = FALSE
  /\ cleaned = FALSE
  /\ billing \in TerminalBilling \cup {"ACTIVE"}
  /\ failure = FALSE
  /\ observation = None
  /\ begun = <<>>
  /\ effects = <<>>

\* Faulty variant: the projection is written when its phase is begun.
BeginPhaseAhead(operation) ==
  /\ status = "RUNNING"
  /\ active = None
  /\ Current # None
  /\ active' = [phase |-> Current, operation |-> operation, result |-> "IN_PROGRESS"]
  /\ begun' = Append(begun, [phase |-> Current, operation |-> operation])
  /\ cleaned' = (cleaned \/ Current = "CLEANUP")
  /\ UNCHANGED <<status, completed, evidence, deregistered, billing, failure, observation, effects>>

\* beginProviderBootstrapPhaseV1.
BeginPhase(operation) ==
  /\ status = "RUNNING"
  /\ active = None
  /\ Current # None
  /\ active' = [phase |-> Current, operation |-> operation, result |-> "IN_PROGRESS"]
  /\ begun' = Append(begun, [phase |-> Current, operation |-> operation])
  /\ UNCHANGED <<status, completed, evidence, projection, failure, observation, effects>>

\* applySuccessfulPhase.  Faulty variant: the operation stays active.
PhasePassedActive ==
  /\ Performed([phase |-> active.phase, operation |-> active.operation])
  /\ completed' = Append(completed, Current)
  /\ evidence' = evidence \cup ({Current} \cap EVIDENCE_REQUIRED_PHASES)
  /\ deregistered' = (deregistered \/ Current = "DEREGISTER")
  /\ cleaned' = (cleaned \/ Current = "CLEANUP")
  /\ IF Current = "BILLING_STOP" THEN billing' \in TerminalBilling ELSE UNCHANGED billing
  /\ UNCHANGED active
  /\ status' = IF Len(completed) + 1 = LastPhase THEN "COMPLETE" ELSE "RUNNING"
  /\ UNCHANGED failure

\* Faulty variant: any billing status ends the saga.
PhasePassedBilling ==
  /\ Performed([phase |-> active.phase, operation |-> active.operation])
  /\ completed' = Append(completed, Current)
  /\ evidence' = evidence \cup ({Current} \cap EVIDENCE_REQUIRED_PHASES)
  /\ deregistered' = (deregistered \/ Current = "DEREGISTER")
  /\ cleaned' = (cleaned \/ Current = "CLEANUP")
  /\ IF Current = "BILLING_STOP" THEN billing' \in {"ACTIVE", "STOPPED"} ELSE UNCHANGED billing
  /\ active' = None
  /\ status' = IF Len(completed) + 1 = LastPhase THEN "COMPLETE" ELSE "RUNNING"
  /\ UNCHANGED failure

\* A caller reports "PASS" when the provider performed the operation, with
\* the evidence the phase needs.  A failure recorded earlier is not cleared.
PhasePassed ==
  /\ Performed([phase |-> active.phase, operation |-> active.operation])
  /\ completed' = Append(completed, Current)
  /\ evidence' = evidence \cup ({Current} \cap EVIDENCE_REQUIRED_PHASES)
  /\ deregistered' = (deregistered \/ Current = "DEREGISTER")
  /\ cleaned' = (cleaned \/ Current = "CLEANUP")
  /\ IF Current = "BILLING_STOP" THEN billing' \in TerminalBilling ELSE UNCHANGED billing
  /\ active' = None
  /\ status' = IF Len(completed) + 1 = LastPhase THEN "COMPLETE" ELSE "RUNNING"
  /\ UNCHANGED failure

\* The caller does not know what the provider did.
PhaseUnknown ==
  /\ active' = [active EXCEPT !.result = "OUTCOME_UNKNOWN"]
  /\ status' = "RECONCILIATION_REQUIRED"
  /\ UNCHANGED <<completed, evidence, projection, failure>>

\* "FAIL" or "BLOCKED": the operation stays named.
PhaseFailed ==
  /\ active' = [active EXCEPT !.result = "FAIL"]
  /\ status' = "FAILED"
  /\ failure' = TRUE
  /\ UNCHANGED <<completed, evidence, projection>>

SameOperation(operation) == active # None /\ active.operation = operation

\* recordProviderBootstrapPhaseResultV1: in any status but RECONCILIATION_REQUIRED.
RecordResult(operation) ==
  /\ status # "RECONCILIATION_REQUIRED"
  /\ SameOperation(operation)
  /\ active.phase = Current
  /\ PhasePassed \/ PhaseUnknown \/ PhaseFailed
  /\ UNCHANGED <<observation, begun, effects>>

\* reconcileProviderBootstrapOutcomeV1.
Reconcile(operation) ==
  /\ status = "RECONCILIATION_REQUIRED"
  /\ SameOperation(operation)
  /\ active.phase = Current
  /\ PhasePassed \/ PhaseUnknown \/ PhaseFailed
  /\ UNCHANGED <<observation, begun, effects>>

\* recordProviderObservedStateV1, in any status.
ObserveProvider(state) ==
  /\ observation' = state
  /\ UNCHANGED <<status, completed, active, evidence, projection, failure, begun, effects>>

\* The provider performs an operation some caller was ever told to go ahead with.
Perform(claim) ==
  /\ ~Performed(claim)
  /\ effects' = Append(effects, claim)
  /\ UNCHANGED saga

Next ==
  \/ \E operation \in Operations :
       BeginPhase(operation) \/ RecordResult(operation) \/ Reconcile(operation)
  \/ \E state \in {"PRESENT", "ABSENT"} : ObserveProvider(state)
  \/ \E i \in 1 .. Len(begun) : Perform(begun[i])

Spec == Init /\ [][Next]_vars

-----------------------------------------------------------------------------
(* Properties. *)

\* validateSaga has nothing to refuse in what the mutations make of the saga.
Valid ==
  /\ \A i \in 1 .. Len(completed) : completed[i] = PROVIDER_BOOTSTRAP_PHASES[i]
  /\ status = "RUNNING" /\ active # None => active.result = "IN_PROGRESS"
  /\ status = "RECONCILIATION_REQUIRED" => active # None /\ active.result = "OUTCOME_UNKNOWN"
  /\ status = "COMPLETE" => /\ Len(completed) = LastPhase
                            /\ deregistered /\ cleaned /\ billing \in TerminalBilling
  /\ status = "FAILED" => failure

\* Every variable has its type, and the saga is one that validateSaga accepts.
TypeOK ==
  /\ status \in {"RUNNING", "RECONCILIATION_REQUIRED", "FAILED", "COMPLETE"}
  /\ completed \in Seq(Phases)
  /\ Len(completed) <= LastPhase
  /\ active \in ActiveOperations \cup {None}
  /\ evidence \subseteq EVIDENCE_REQUIRED_PHASES
  /\ deregistered \in BOOLEAN
  /\ cleaned \in BOOLEAN
  /\ billing \in TerminalBilling \cup {"ACTIVE"}
  /\ failure \in BOOLEAN
  /\ observation \in {None, "PRESENT", "ABSENT"}
  /\ begun \in Seq(Claims)
  /\ effects \in Seq(Claims)
  /\ Valid

\* However late callers act on a begin, and whatever results they report, the
\* provider performs the phases in their order, one operation each, and is at
\* most one phase ahead of the saga and never behind it.
EffectsInOrder ==
  /\ \A i \in 1 .. Len(effects) : effects[i].phase = PROVIDER_BOOTSTRAP_PHASES[i]
  /\ Len(effects) \in {Len(completed), Len(completed) + 1}

\* Phase of an effect.
Done(phase) == \E i \in 1 .. Len(effects) : effects[i].phase = phase

\* The terminal projection a session relies on says nothing that did not happen
\* in the order of the phases: the transport is deregistered, the resources are cleaned up after that, and a
\* complete saga stopped the billing last, with all the evidence it needs.
ProjectionIsEarned ==
  /\ EffectsInOrder
  /\ deregistered => Done("DEREGISTER")
  /\ cleaned => deregistered /\ Done("CLEANUP")
  /\ status = "COMPLETE" => Done("BILLING_STOP") /\ evidence = EVIDENCE_REQUIRED_PHASES

\* What the projection called terminal stays terminal, whoever calls what: a
\* session that copied it never has to take it back.
ProjectionNeverReverts ==
  [][/\ deregistered => deregistered'
     /\ cleaned => cleaned'
     /\ billing \in TerminalBilling => billing' \in TerminalBilling
     /\ status = "COMPLETE" => status' = "COMPLETE"]_vars
=============================================================================
