---------------------------- MODULE JobPipeline ----------------------------
(***************************************************************************)
(* From a registered worker job to the one accepted result of an           *)
(* execution: durable-execution-transport-v1, durable-result-collection-   *)
(* v1, durable-result-verification-v1, durable-result-acceptance-v1 and    *)
(* result-quarantine-acceptance-v1, between the job's launch store and the *)
(* execution state they all compare themselves with.                       *)
(*                                                                         *)
(* A job has a launch store, a transport store, a collection record and a  *)
(* verification record of its own; the acceptance journal is the           *)
(* execution's.  An operation that awaits its work under its locks is one  *)
(* step (DurableStore).  The claim of a transport's activation is two: it  *)
(* is checked under the locks of the execution state and of the launch,    *)
(* and its compare-and-swap, returned without an await, runs at any time   *)
(* later.  A request that is refused or answered from an earlier one       *)
(* changes nothing and is left out.                                        *)
(*                                                                         *)
(* Acceptance requests are those of the two builders, which copy the       *)
(* collection record's version, fence and artifacts.  The execution state  *)
(* is what the stores read of it: its version, its fence and whether a     *)
(* reconciliation is pending (ExecutionState).                             *)
(***************************************************************************)
EXTENDS Integers

CONSTANTS Callers,     \* concurrent callers of the activation
          Jobs,        \* worker jobs of the execution
          Operations,  \* activation operations with their idempotency keys
          Results,     \* contents of a job's artifacts
          MaxVersion,  \* bound on the execution's STATE_VERSION
          MaxTransportVersion, \* per job, bound on its transport's STATE_VERSION
          None

Collections == [result : Results, version : Nat, fence : Nat]
Acceptances == [job : Jobs, result : Results, version : Nat, fence : Nat]
Calls == [job : Jobs, operation : Operations, expected : Nat]

\* FAIL stands for BLOCKED too: no store tells them apart.
Verdicts == {"PASS", "FAIL"}

ASSUME PipelineAssumption ==
  /\ MaxVersion \in Nat
  /\ MaxTransportVersion \in [Jobs -> Nat]
  /\ None \notin Operations \cup Results \cup Verdicts
  /\ None \notin Collections \cup Acceptances \cup Calls
  /\ None \notin [result : Results, version : Nat]
  /\ None \notin [job : Jobs, result : Results, version : Nat]

VARIABLES version,      \* STATE_VERSION of the execution state
          fence,        \* its FENCE_TOKEN, as the fence sequence
          pending,      \* RECONCILIATION_REQUIRED, or a provider operation of unknown outcome
          launch,       \* per job, the status of its launch store
          launchFence,  \* per job, the fence its launch is bound to
          state,        \* per job, TRANSPORT_STATE, "ABSENT" before it is initialized
          conformance,  \* per job, CONFORMANCE_RESULT of its transport
          operation,    \* per job, ACTIVE_OPERATION of its transport
          bound,        \* per job, the fence its transport is bound to
          applied,      \* per job, STATE_VERSION of its transport
          claims,       \* per job, the operations its ledger has an activation claim of
          collection,   \* per job, its collection record
          verification, \* per job, the verdict of its verification record
          accepted,     \* the acceptance journal
          call          \* per caller, an activation whose compare-and-swap has yet to run

execution == <<version, fence, pending>>
launches == <<launch, launchFence>>
transports == <<state, conformance, operation, bound, applied, claims>>
records == <<collection, verification, accepted>>
vars == <<execution, launches, transports, records, call>>

\* What a verifier reports: its verdict, whether every check of it is true, and
\* the contents it bound the artifacts to, None for others than any job's.
Payloads == [result : Verdicts, checked : BOOLEAN, content : Results \cup {None}]

-----------------------------------------------------------------------------
Init ==
  /\ version = 0
  /\ fence = 0
  /\ pending = FALSE
  /\ launch = [j \in Jobs |-> "ABSENT"]
  /\ launchFence = [j \in Jobs |-> 0]
  /\ state = [j \in Jobs |-> "ABSENT"]
  /\ conformance = [j \in Jobs |-> "PENDING"]
  /\ operation = [j \in Jobs |-> None]
  /\ bound = [j \in Jobs |-> 0]
  /\ applied = [j \in Jobs |-> 0]
  /\ claims = [j \in Jobs |-> {}]
  /\ collection = [j \in Jobs |-> None]
  /\ verification = [j \in Jobs |-> None]
  /\ accepted = None
  /\ call = [c \in Callers |-> None]

\* Any applied compare-and-swap of the execution state: its version goes up, its
\* fence may advance, a reconciliation may come to be pending or be finished.
ChangeExecution ==
  /\ version < MaxVersion
  /\ version' = version + 1
  /\ fence' \in {fence, fence + 1}
  /\ pending' \in BOOLEAN
  /\ UNCHANGED <<launches, transports, records, call>>

\* The launch store: registered under the current fence, claimed while that is
\* still the current one, and settled by its operation (FencedStores).
RegisterLaunch(j) ==
  /\ launch[j] = "ABSENT"
  /\ launch' = [launch EXCEPT ![j] = "AVAILABLE"]
  /\ launchFence' = [launchFence EXCEPT ![j] = fence]
  /\ UNCHANGED <<execution, transports, records, call>>

ClaimLaunch(j) ==
  /\ launch[j] = "AVAILABLE"
  /\ launchFence[j] = fence
  /\ launch' = [launch EXCEPT ![j] = "CLAIMED"]
  /\ UNCHANGED <<launchFence, execution, transports, records, call>>

SettleLaunch(j) ==
  /\ launch[j] = "CLAIMED"
  /\ launch' = [launch EXCEPT ![j] = "SETTLED"]
  /\ UNCHANGED <<launchFence, execution, transports, records, call>>

-----------------------------------------------------------------------------
(* The transport store. *)

\* validateStore, which every compare-and-swap runs on what it is about to write.
TransportValid(s, c, o) ==
  /\ s = "PREPARING" => c = "PENDING"
  /\ s \in {"READY", "ACTIVE", "CLOSED", "OUTCOME_UNKNOWN"} => c = "PASS"
  /\ s = "FAILED" => c # "PENDING"
  /\ s = "OUTCOME_UNKNOWN" => o # None

\* Faulty variant: what is written is not validated.
ApplyAnything(j, s, c, o) ==
  /\ applied[j] < MaxTransportVersion[j]
  /\ state' = [state EXCEPT ![j] = s]
  /\ conformance' = [conformance EXCEPT ![j] = c]
  /\ operation' = [operation EXCEPT ![j] = o]
  /\ applied' = [applied EXCEPT ![j] = applied[j] + 1]
  /\ UNCHANGED bound

\* The part of applyCas that every operation of the transport has in common.
Apply(j, s, c, o) ==
  /\ applied[j] < MaxTransportVersion[j]
  /\ TransportValid(s, c, o)
  /\ state' = [state EXCEPT ![j] = s]
  /\ conformance' = [conformance EXCEPT ![j] = c]
  /\ operation' = [operation EXCEPT ![j] = o]
  /\ applied' = [applied EXCEPT ![j] = applied[j] + 1]
  /\ UNCHANGED bound

\* A transport is registered for an AVAILABLE launch of the current fence.
RegisterTransport(j) ==
  /\ state[j] = "ABSENT"
  /\ launch[j] = "AVAILABLE"
  /\ launchFence[j] = fence
  /\ state' = [state EXCEPT ![j] = "PREPARING"]
  /\ bound' = [bound EXCEPT ![j] = fence]
  /\ UNCHANGED <<conformance, operation, applied, claims, execution, launches, records, call>>

RecordConformance(j, verdict) ==
  /\ state[j] = "PREPARING"
  /\ conformance[j] = "PENDING"
  /\ Apply(j, IF verdict = "PASS" THEN "READY" ELSE "FAILED", verdict, operation[j])
  /\ UNCHANGED <<claims, execution, launches, records, call>>

\* assertCurrentBinding: one fence across execution, launch and transport.
Current(j) ==
  /\ bound[j] = fence
  /\ launchFence[j] = bound[j]

\* Faulty variant: the launch need not be claimed.
BeginUnclaimed(c, j, o) ==
  /\ call[c] = None
  /\ state[j] # "ABSENT"
  /\ Current(j)
  /\ call' = [call EXCEPT ![c] = [job |-> j, operation |-> o, expected |-> applied[j]]]
  /\ UNCHANGED <<execution, launches, transports, records>>

\* The checks of an activation, made under the locks of the execution state and
\* of the launch.  The caller submits the version of the transport it saw.
BeginActivation(c, j, o) ==
  /\ call[c] = None
  /\ state[j] # "ABSENT"
  /\ Current(j)
  /\ launch[j] = "CLAIMED"
  /\ call' = [call EXCEPT ![c] = [job |-> j, operation |-> o, expected |-> applied[j]]]
  /\ UNCHANGED <<execution, launches, transports, records>>

\* Faulty variant: an activation that is under way is not noticed.
ActivatableTwice(j, expected) ==
  /\ expected = applied[j]
  /\ state[j] = "READY"
  /\ conformance[j] = "PASS"

\* What the compare-and-swap of an activation still checks when it runs.
Activatable(j, expected) ==
  /\ expected = applied[j]
  /\ state[j] = "READY"
  /\ conformance[j] = "PASS"
  /\ operation[j] = None

\* The compare-and-swap of an activation; the locks its checks were made under
\* may be long released.
FinishActivation(c) ==
  /\ call[c] # None
  /\ call' = [call EXCEPT ![c] = None]
  /\ LET j == call[c].job IN
     IF Activatable(j, call[c].expected)
     THEN /\ Apply(j, state[j], conformance[j], call[c].operation)
          /\ claims' = [claims EXCEPT ![j] = claims[j] \cup {call[c].operation}]
     ELSE UNCHANGED transports
  /\ UNCHANGED <<execution, launches, records>>

\* What an operation's result makes of the transport: done, unknown or failed.
Outcome(j, result) ==
  \/ /\ result = "PASS"
     /\ Apply(j, "ACTIVE", conformance[j], None)
  \/ /\ result = "OUTCOME_UNKNOWN"
     /\ Apply(j, "OUTCOME_UNKNOWN", conformance[j], operation[j])
  \/ /\ result = "FAIL"
     /\ Apply(j, "FAILED", conformance[j], None)

\* The operation that was activated reports its result; assertSameOperation
\* refuses every other one.
RecordActivation(j, o, result) ==
  /\ state[j] = "READY"
  /\ operation[j] = o
  /\ Outcome(j, result)
  /\ UNCHANGED <<claims, execution, launches, records, call>>

ReconcileActivation(j, o, result) ==
  /\ state[j] = "OUTCOME_UNKNOWN"
  /\ operation[j] = o
  /\ Outcome(j, result)
  /\ UNCHANGED <<claims, execution, launches, records, call>>

\* A transport whose conformance failed cannot be closed: CLOSED wants PASS.
CloseTransport(j) ==
  /\ state[j] \in {"ACTIVE", "FAILED"}
  /\ operation[j] = None
  /\ Apply(j, "CLOSED", conformance[j], operation[j])
  /\ UNCHANGED <<claims, execution, launches, records, call>>

-----------------------------------------------------------------------------
(* Collection, verification and acceptance. *)

\* assertStateAndTransport: what a result may be collected from.
Collectable(j) ==
  /\ ~pending
  /\ state[j] = "ACTIVE"
  /\ conformance[j] = "PASS"
  /\ operation[j] = None
  /\ bound[j] = fence

\* The first collection of a job stands; its artifacts become QUARANTINED.
Collect(j, r) ==
  /\ collection[j] = None
  /\ Collectable(j)
  /\ collection' = [collection EXCEPT ![j] = [result |-> r, version |-> version, fence |-> fence]]
  /\ UNCHANGED <<verification, accepted, execution, launches, transports, call>>

\* validateVerificationPayload: a PASS has every check true and is bound to the
\* very contents that were collected.
Reportable(j, payload) ==
  payload.result = "PASS" => payload.checked /\ payload.content = collection[j].result

\* The verdict on a collection is written once, and under no fence: a collection
\* that the execution has overtaken is verified all the same.  The record keeps
\* the payload, of which only a PASS is used, and there is one PASS to report.
Verify(j, payload) ==
  /\ collection[j] # None
  /\ verification[j] = None
  /\ Reportable(j, payload)
  /\ verification' = [verification EXCEPT ![j] = payload.result]
  /\ UNCHANGED <<collection, accepted, execution, launches, transports, call>>

\* validateVerificationBinding, on the payload an acceptance is requested with.
Verified(j, payload) ==
  /\ payload.result = "PASS"
  /\ payload.checked
  /\ payload.content = collection[j].result

\* Faulty variant: it compares the fence but not the version.
AcceptableLate(j, payload) ==
  /\ accepted = None
  /\ collection[j] # None
  /\ collection[j].fence = fence
  /\ ~pending
  /\ Verified(j, payload)

\* The acceptance journal compares the request, which carries what the
\* collection record says, with the execution.
Acceptable(j, payload) ==
  /\ accepted = None
  /\ collection[j] # None
  /\ collection[j].version = version
  /\ collection[j].fence = fence
  /\ ~pending
  /\ Verified(j, payload)

\* acceptQuarantinedResultV1 makes the receipt that the journal keeps, whatever
\* builder the request comes from.
Commit(j) ==
  /\ accepted' = [job |-> j, result |-> collection[j].result, version |-> version,
                  fence |-> fence]
  /\ UNCHANGED <<collection, verification, execution, launches, transports, call>>

\* The request is built from the collection and its PASS verification ...
AcceptVerified(j) ==
  /\ verification[j] = "PASS"
  /\ \E payload \in Payloads : Reportable(j, payload) /\ Acceptable(j, payload)
  /\ Commit(j)

\* ... or from the collection and a payload of the caller's own.
AcceptSubmitted(j, payload) ==
  /\ Acceptable(j, payload)
  /\ Commit(j)

-----------------------------------------------------------------------------
Next ==
  \/ ChangeExecution
  \/ \E c \in Callers : FinishActivation(c)
  \/ \E j \in Jobs :
       \/ RegisterLaunch(j)
       \/ ClaimLaunch(j)
       \/ SettleLaunch(j)
       \/ RegisterTransport(j)
       \/ \E verdict \in Verdicts : RecordConformance(j, verdict)
       \/ \E c \in Callers, o \in Operations : BeginActivation(c, j, o)
       \/ \E o \in Operations, result \in Verdicts \cup {"OUTCOME_UNKNOWN"} :
            \/ RecordActivation(j, o, result)
            \/ ReconcileActivation(j, o, result)
       \/ CloseTransport(j)
       \/ \E r \in Results : Collect(j, r)
       \/ \E payload \in Payloads : Verify(j, payload)
       \/ AcceptVerified(j)
       \/ \E payload \in Payloads : AcceptSubmitted(j, payload)

Spec == Init /\ [][Next]_vars

-----------------------------------------------------------------------------
(* Properties. *)

Launches == {"ABSENT", "AVAILABLE", "CLAIMED", "SETTLED"}
States == {"ABSENT", "PREPARING", "READY", "ACTIVE", "CLOSED", "FAILED", "OUTCOME_UNKNOWN"}

\* Every variable has its type, and every transport an operation has written is
\* one that validateStore lets its next reader have.
TypeOK ==
  /\ version \in Nat /\ fence \in Nat /\ pending \in BOOLEAN
  /\ launch \in [Jobs -> Launches]
  /\ launchFence \in [Jobs -> Nat]
  /\ state \in [Jobs -> States]
  /\ conformance \in [Jobs -> Verdicts \cup {"PENDING"}]
  /\ operation \in [Jobs -> Operations \cup {None}]
  /\ bound \in [Jobs -> Nat]
  /\ applied \in [Jobs -> Nat]
  /\ claims \in [Jobs -> SUBSET Operations]
  /\ collection \in [Jobs -> Collections \cup {None}]
  /\ verification \in [Jobs -> Verdicts \cup {None}]
  /\ accepted \in Acceptances \cup {None}
  /\ call \in [Callers -> Calls \cup {None}]
  /\ \A j \in Jobs : TransportValid(state[j], conformance[j], operation[j])

\* However activations are checked, delayed, reported and reconciled, a job's
\* transport is only ever activated by one operation, so that no job runs twice
\* ("TRANSPORT_ACTIVATION_ALREADY_CLAIMED", "SECOND_MUTATION_DENIED").
OneActivation == \A j \in Jobs : \A o, p \in claims[j] : o = p

\* What is accepted has a whole history behind it: it is the result that was
\* collected from this job, over a transport that was activated after the job's
\* launch was claimed, and all of them under one fence.
AcceptedLineage ==
  accepted # None =>
    LET j == accepted.job IN
    /\ collection[j] # None
    /\ accepted.result = collection[j].result
    /\ accepted.version = collection[j].version
    /\ accepted.fence = launchFence[j]
    /\ accepted.fence = bound[j]
    /\ launch[j] \in {"CLAIMED", "SETTLED"}
    /\ claims[j] # {}
    /\ state[j] \in {"ACTIVE", "CLOSED"}

\* Together the stores are a ResultHandoff: one result per job, one acceptance
\* per execution, and nothing overtaken by a change of the execution is accepted.
Handoff == INSTANCE ResultHandoff WITH
  collected <- [j \in Jobs |-> IF collection[j] = None THEN None
                 ELSE [result |-> collection[j].result, version |-> collection[j].version]],
  accepted <- IF accepted = None THEN None
              ELSE [job |-> accepted.job, result |-> accepted.result,
                    version |-> accepted.version]
ImplementsHandoff == Handoff!Spec
=============================================================================
