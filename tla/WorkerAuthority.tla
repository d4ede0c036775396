-------------------------- MODULE WorkerAuthority --------------------------
(***************************************************************************)
(* What lets a worker run its next job, and how it ends: the readiness of  *)
(* its attestation (readiness-expiry-reconciliation-v1), its capability    *)
(* attestation (durable-capability-attestation-v1), the credential lease   *)
(* that its previous job leaves behind (durable-job-credential-lease-v1),  *)
(* the receipt that it was sanitized since (durable-worker-sanitation-     *)
(* receipt-v1) and the isolation boundary of the next job (durable-worker- *)
(* isolation-boundary-v1).                                                 *)
(*                                                                         *)
(* Each is a store of its own, whose operations are a compare-and-swap     *)
(* under its lock (DurableStore): one step, and one that only succeeds on  *)
(* the version the caller expects.  Two operations decide before they take *)
(* that lock, and are two steps: the reconciliation of an expired          *)
(* attestation, and the claim of the boundary, which reads the execution   *)
(* state, the launch and the boundary under the execution lock and returns *)
(* its compare-and-swap without awaiting it.  A caller expects the version *)
(* it could read; an older one is refused.                                 *)
(*                                                                         *)
(* Nothing in the code composes the gates.  A caller binds a session to an *)
(* attestation while that is current, and tells the truth about what a     *)
(* sanitation receipt takes on its word.                                   *)
(***************************************************************************)
EXTENDS Integers

CONSTANTS Callers,           \* concurrent callers of the two-step operations
          Attestations,      \* WORKER_READY_ATTESTATION hashes for this worker and plan
          Expiry,            \* EXPIRES_AT of each
          CredentialExpiry,  \* EXPIRES_AT_MS of the credential lease
          ReceiptExpiry,     \* EXPIRES_AT_MS of the sanitation receipt
          OperationIds,      \* OPERATION_IDs, with their idempotency keys
          MaxTime,           \* bound on the clock
          None

ASSUME AuthorityAssumption ==
  /\ Expiry \in [Attestations -> Nat]
  /\ {CredentialExpiry, ReceiptExpiry, MaxTime} \subseteq Nat
  /\ None \notin Attestations \cup OperationIds

VARIABLES now,         \* RUNTIME_NOW_MS
          readiness,   \* the worker's readiness store
          sessions,    \* the attestations sessions were bound to
          capability,  \* the capability attestation's epoch
          credential,  \* the credential lease of the previous job
          begun,       \* the revocations of it that were begun
          unknown,     \* those whose outcome was recorded as unknown
          receipt,     \* the sanitation receipt
          boundary,    \* the isolation boundary of the next job
          launch,      \* LAUNCH_STATUS of the next job: AVAILABLE, or a later one
          fenced,      \* whether the fence of the next job has been advanced
          call,        \* per caller, what it decided and has not applied yet
          authorized   \* the claims of the boundary that were answered with ok

previous == <<credential, begun, unknown, receipt>>
isolation == <<boundary, launch, fenced, authorized>>
authorityVars == <<now, readiness, sessions, capability, previous, isolation, call>>

Calls == [kind : {"expire"}, expected : Nat]
           \cup [kind : {"claim"}, operation : OperationIds, expected : Nat]

AuthorityInit ==
  /\ now = 0
  /\ readiness = [status |-> "ABSENT", attestation |-> None, version |-> 0]
  /\ sessions = {}
  /\ capability = [status |-> "ABSENT", dynamic |-> FALSE]
  /\ credential = [status |-> "ABSENT", revocation |-> "NOT_REQUIRED", operation |-> None]
  /\ begun = {}
  /\ unknown = {}
  /\ receipt = [status |-> "ABSENT", attestation |-> None]
  /\ boundary = [status |-> "ABSENT", claim |-> None, version |-> 0, claims |-> {}]
  /\ launch = "AVAILABLE"
  /\ fenced = FALSE
  /\ call = [c \in Callers |-> None]
  /\ authorized = {}

Tick ==
  /\ now < MaxTime
  /\ now' = now + 1
  /\ UNCHANGED <<readiness, sessions, capability, previous, isolation, call>>

-----------------------------------------------------------------------------
(* Readiness. *)

\* validateWorkerReadyAttestationForReadinessV1
ValidAttestation(a) == Expiry[a] > now

\* validateExecutionGateAgainstReadinessV1
GateOpen == readiness.status = "READY" /\ Expiry[readiness.attestation] > now

\* Faulty variant: any current attestation will do.
SessionCurrentAnyway(a) == GateOpen

\* validateSessionReadinessBindingV1
SessionCurrent(a) == GateOpen /\ readiness.attestation = a

RegisterReadiness(a) ==
  /\ readiness.status = "ABSENT"
  /\ ValidAttestation(a)
  /\ readiness' = [readiness EXCEPT !.status = "READY", !.attestation = a]
  /\ UNCHANGED <<now, sessions, capability, previous, isolation, call>>

\* The expiry is decided on a read without the lock ...
BeginExpiry(c) ==
  /\ call[c] = None
  /\ readiness.status = "READY"
  /\ Expiry[readiness.attestation] <= now
  /\ call' = [call EXCEPT ![c] = [kind |-> "expire", expected |-> readiness.version]]
  /\ UNCHANGED <<now, readiness, sessions, capability, previous, isolation>>

\* ... and applied under it, on whatever attestation is there then.
ApplyExpiry(c) ==
  /\ call[c] # None
  /\ call[c].kind = "expire"
  /\ readiness' =
       IF call[c].expected = readiness.version
       THEN [readiness EXCEPT !.status = "EXPIRED", !.version = @ + 1]
       ELSE readiness
  /\ call' = [call EXCEPT ![c] = None]
  /\ UNCHANGED <<now, sessions, capability, previous, isolation>>

ReplaceAttestation(a) ==
  /\ readiness.status = "EXPIRED"
  /\ ValidAttestation(a)
  /\ a # readiness.attestation
  /\ readiness' = [status |-> "READY", attestation |-> a, version |-> readiness.version + 1]
  /\ UNCHANGED <<now, sessions, capability, previous, isolation, call>>

\* A caller creates a session for the attestation that is current.
BindSession ==
  /\ GateOpen
  /\ sessions' = sessions \cup {readiness.attestation}
  /\ UNCHANGED <<now, readiness, capability, previous, isolation, call>>

-----------------------------------------------------------------------------
(* Capability attestation. *)

RegisterCapability ==
  /\ capability.status = "ABSENT"
  /\ capability' = [status |-> "ACTIVE", dynamic |-> FALSE]
  /\ UNCHANGED <<now, readiness, sessions, previous, isolation, call>>

\* A dynamic attestation has the static fingerprint, or the epoch has drifted.
RecordDynamicAttestation(drift) ==
  /\ capability.status = "ACTIVE"
  /\ capability' = [status |-> IF drift THEN "DRIFTED" ELSE "ACTIVE", dynamic |-> TRUE]
  /\ UNCHANGED <<now, readiness, sessions, previous, isolation, call>>

\* validateCapabilityExecutionGateV1
CapabilityCurrent == capability.status = "ACTIVE" /\ capability.dynamic

-----------------------------------------------------------------------------
(* The credential lease of the previous job. *)

IssueCredential ==
  /\ credential.status = "ABSENT"
  /\ CredentialExpiry > now
  /\ credential' = [credential EXCEPT !.status = "ACTIVE"]
  /\ UNCHANGED <<now, readiness, sessions, capability, begun, unknown, receipt, isolation, call>>

\* validateJobCredentialUseV1
CredentialUsable ==
  /\ credential.status = "ACTIVE"
  /\ credential.revocation = "NOT_REQUIRED"
  /\ now < CredentialExpiry

Held == credential.status \in {"ACTIVE", "EXPIRED"}

ReconcileCredentialExpiry ==
  /\ Held
  /\ now >= CredentialExpiry
  /\ credential' = [credential EXCEPT !.status = "EXPIRED", !.revocation = "REQUIRED"]
  /\ UNCHANGED <<now, readiness, sessions, capability, begun, unknown, receipt, isolation, call>>

\* Whatever the state of a revocation that is under way.
RequireRevocation ==
  /\ Held
  /\ credential' = [credential EXCEPT !.revocation = "REQUIRED"]
  /\ UNCHANGED <<now, readiness, sessions, capability, begun, unknown, receipt, isolation, call>>

\* One with an unknown outcome may only be begun again as the same operation.
BeginRevocation(o) ==
  /\ credential.revocation \in {"REQUIRED", "OUTCOME_UNKNOWN"}
  /\ credential.revocation = "OUTCOME_UNKNOWN" => credential.operation = o
  /\ credential' = [credential EXCEPT !.revocation = "IN_PROGRESS", !.operation = o]
  /\ begun' = begun \cup {o}
  /\ UNCHANGED <<now, readiness, sessions, capability, unknown, receipt, isolation, call>>

RevocationPassed(o) ==
  /\ credential.operation = o
  /\ credential' = [status |-> "REVOKED", revocation |-> "REVOKED", operation |-> None]
  /\ UNCHANGED <<now, readiness, sessions, capability, begun, unknown, receipt, isolation, call>>

RevocationUnknown(o) ==
  /\ credential.operation = o
  /\ credential' = [credential EXCEPT !.revocation = "OUTCOME_UNKNOWN"]
  /\ unknown' = unknown \cup {o}
  /\ UNCHANGED <<now, readiness, sessions, capability, begun, receipt, isolation, call>>

-----------------------------------------------------------------------------
(* The sanitation receipt. *)

\* assertSanitationFacts: of what the caller says, the previous job's
\* credential is the part that is here.
IssueReceipt(a) ==
  /\ receipt.status = "ABSENT"
  /\ credential.status = "REVOKED"
  /\ a \in sessions
  /\ ReceiptExpiry > now
  /\ receipt' = [status |-> "AVAILABLE", attestation |-> a]
  /\ UNCHANGED <<now, readiness, sessions, capability, credential, begun, unknown, isolation, call>>

\* validateWarmReuseGateV1, for a session bound to attestation a.
WarmReuse(a) ==
  /\ receipt.status = "AVAILABLE"
  /\ now < ReceiptExpiry
  /\ receipt.attestation = a

ConsumeReceipt(a) ==
  /\ a \in sessions
  /\ WarmReuse(a)
  /\ receipt' = [receipt EXCEPT !.status = "CONSUMED"]
  /\ UNCHANGED <<now, readiness, sessions, capability, credential, begun, unknown, isolation, call>>

ReconcileReceiptExpiry ==
  /\ receipt.status = "AVAILABLE"
  /\ now >= ReceiptExpiry
  /\ receipt' = [receipt EXCEPT !.status = "EXPIRED"]
  /\ UNCHANGED <<now, readiness, sessions, capability, credential, begun, unknown, isolation, call>>

InvalidateReceipt ==
  /\ receipt.status = "AVAILABLE"
  /\ receipt' = [receipt EXCEPT !.status = "INVALID"]
  /\ UNCHANGED <<now, readiness, sessions, capability, credential, begun, unknown, isolation, call>>

-----------------------------------------------------------------------------
(* The isolation boundary of the next job. *)

RegisterBoundary ==
  /\ boundary.status = "ABSENT"
  /\ ~fenced
  /\ launch = "AVAILABLE"
  /\ boundary' = [boundary EXCEPT !.status = "AVAILABLE"]
  /\ UNCHANGED <<now, readiness, sessions, capability, previous, launch, fenced, authorized, call>>

\* Under the execution lock: the fence is current, the boundary is not invalid,
\* and the launch is available or this is the claim that it has.
CheckClaim(c, o) ==
  /\ call[c] = None
  /\ ~fenced
  /\ boundary.status \in {"AVAILABLE", "CLAIMED"}
  /\ launch = "AVAILABLE" \/ (boundary.status = "CLAIMED" /\ boundary.claim = o)
  /\ call' = [call EXCEPT ![c] =
                [kind |-> "claim", operation |-> o, expected |-> boundary.version]]
  /\ UNCHANGED <<now, readiness, sessions, capability, previous, isolation>>

\* Under the boundary's lock: a request that was applied is answered again, with
\* the boundary as it is now; a new one takes an available boundary.
Replayed(o) == o \in boundary.claims

\* Faulty variant: the boundary need not be available any more, on any version.
ClaimableAgain(k) == ~Replayed(k.operation) /\ boundary.status # "INVALID"

Claimable(k) ==
  /\ ~Replayed(k.operation)
  /\ k.expected = boundary.version
  /\ boundary.status = "AVAILABLE"

\* Faulty variant: the claim is not entered into the idempotency index.
ClaimedUnrecorded(o) == [boundary EXCEPT !.status = "CLAIMED", !.claim = o, !.version = @ + 1]

Claimed(o) == [boundary EXCEPT !.status = "CLAIMED", !.claim = o, !.version = @ + 1,
                               !.claims = @ \cup {o}]

ApplyClaim(c) ==
  /\ call[c] # None
  /\ call[c].kind = "claim"
  /\ LET o == call[c].operation IN
       /\ boundary' = IF Claimable(call[c]) THEN Claimed(o) ELSE boundary
       /\ authorized' = IF Replayed(o) \/ Claimable(call[c])
                        THEN authorized \cup {[operation |-> o, boundary |-> boundary'.status]}
                        ELSE authorized
  /\ call' = [call EXCEPT ![c] = None]
  /\ UNCHANGED <<now, readiness, sessions, capability, previous, launch, fenced>>

InvalidateBoundary ==
  /\ boundary.status \in {"AVAILABLE", "CLAIMED"}
  /\ boundary' = [boundary EXCEPT !.status = "INVALID", !.claim = None, !.version = @ + 1]
  /\ UNCHANGED <<now, readiness, sessions, capability, previous, launch, fenced, authorized, call>>

\* Another caller claims the launch, under the execution lock (FencedStores).
ClaimLaunch ==
  /\ launch = "AVAILABLE"
  /\ ~fenced
  /\ launch' = "CLAIMED"
  /\ UNCHANGED <<now, readiness, sessions, capability, previous, boundary, fenced, authorized, call>>

AdvanceFence ==
  /\ ~fenced
  /\ fenced' = TRUE
  /\ UNCHANGED <<now, readiness, sessions, capability, previous, boundary, launch, authorized, call>>

-----------------------------------------------------------------------------
ReadinessStep ==
  \/ \E a \in Attestations : RegisterReadiness(a) \/ ReplaceAttestation(a)
  \/ \E c \in Callers : BeginExpiry(c) \/ ApplyExpiry(c)
  \/ BindSession

CredentialStep ==
  \/ IssueCredential \/ ReconcileCredentialExpiry \/ RequireRevocation
  \/ \E o \in OperationIds : BeginRevocation(o) \/ RevocationPassed(o) \/ RevocationUnknown(o)

ReceiptStep ==
  \/ \E a \in Attestations : IssueReceipt(a) \/ ConsumeReceipt(a)
  \/ ReconcileReceiptExpiry \/ InvalidateReceipt

BoundaryStep ==
  \/ \E c \in Callers : (\E o \in OperationIds : CheckClaim(c, o)) \/ ApplyClaim(c)
  \/ RegisterBoundary \/ InvalidateBoundary \/ ClaimLaunch \/ AdvanceFence

AuthorityNext ==
  \/ Tick
  \/ ReadinessStep
  \/ RegisterCapability \/ (\E drift \in BOOLEAN : RecordDynamicAttestation(drift))
  \/ CredentialStep
  \/ ReceiptStep
  \/ BoundaryStep

AuthoritySpec == AuthorityInit /\ [][AuthorityNext]_authorityVars

-----------------------------------------------------------------------------
(* Properties. *)

\* The stores hold what they can, a claim is in the idempotency index of its
\* boundary, and a revocation that is under way or unknown has its operation.
AuthorityTypeOK ==
  /\ now \in 0..MaxTime
  /\ readiness \in [status : {"ABSENT", "READY", "EXPIRED"},
                     attestation : Attestations \cup {None}, version : Nat]
  /\ readiness.status # "ABSENT" => readiness.attestation # None
  /\ sessions \subseteq Attestations
  /\ capability \in [status : {"ABSENT", "ACTIVE", "DRIFTED"}, dynamic : BOOLEAN]
  /\ credential \in [status : {"ABSENT", "ACTIVE", "EXPIRED", "REVOKED"},
                      revocation : {"NOT_REQUIRED", "REQUIRED", "IN_PROGRESS",
                                    "OUTCOME_UNKNOWN", "REVOKED"},
                      operation : OperationIds \cup {None}]
  /\ credential.revocation \in {"IN_PROGRESS", "OUTCOME_UNKNOWN"} => credential.operation \in begun
  /\ begun \subseteq OperationIds
  /\ unknown \subseteq begun
  /\ receipt \in [status : {"ABSENT", "AVAILABLE", "CONSUMED", "EXPIRED", "INVALID"},
                   attestation : sessions \cup {None}]
  /\ boundary \in [status : {"ABSENT", "AVAILABLE", "CLAIMED", "INVALID"},
                    claim : boundary.claims \cup {None}, version : Nat,
                    claims : SUBSET OperationIds]
  /\ launch \in {"AVAILABLE", "CLAIMED"}
  /\ fenced \in BOOLEAN
  /\ call \in [Callers -> Calls \cup {None}]
  /\ authorized \subseteq [operation : OperationIds, boundary : {"CLAIMED", "INVALID"}]

\* An attestation is never written off before it expires, although its expiry is
\* decided without the lock and may be applied after a replacement.
ExpiryIsTimely == readiness.status = "EXPIRED" => Expiry[readiness.attestation] <= now

\* One operation at most is ever authorized to run in the boundary, although the
\* checks and the claim are apart and replays are answered in every state.
OneAuthorization == \A k, l \in authorized : k.operation = l.operation

\* A worker that was reused has no credential of its previous job left.
ReusedIsClean == receipt.status \in {"AVAILABLE", "CONSUMED"} =>
                   credential.status = "REVOKED"

\* Authority is given to one operation, in time, and to a clean worker.
AuthoritySound == ExpiryIsTimely /\ OneAuthorization /\ ReusedIsClean

\* Authority that ended does not come back: not to a session whose attestation
\* was replaced, nor through a credential that can no longer be used, nor to a
\* drifted capability, a used or invalid receipt, or an invalid boundary.
AuthorityIsNeverRegained ==
  [][/\ \A a \in sessions : ~SessionCurrent(a) => ~SessionCurrent(a)'
     /\ credential.status # "ABSENT" /\ ~CredentialUsable => ~CredentialUsable'
     /\ capability.status = "DRIFTED" => ~CapabilityCurrent'
     /\ \A a \in sessions : receipt.status # "ABSENT" /\ ~WarmReuse(a) => ~WarmReuse(a)'
     /\ boundary.status = "INVALID" => boundary'.status = "INVALID"]_authorityVars

\* docs/rev51/R51_P2K_DURABLE_JOB_CREDENTIAL_LEASE.md: a revocation whose outcome
\* is unknown only goes on as the same operation; a second one is denied.
RevocationIsNotRepeated == [][unknown # {} => begun' = begun]_authorityVars
=============================================================================
