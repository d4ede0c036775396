------------------------- MODULE DocumentFields -------------------------
(***************************************************************************)
(* Which fields a document of Pilote may have, as both stacks say it.  A   *)
(* document has exactly the fields of its type, and nowhere in it, however *)
(* deep, a name that belongs to the Runtime: identities of providers and   *)
(* workers, of attempts, operations and fences, and what the Runtime makes *)
(* of them.  Pilote's validators (src/pilote/rev51) and the Runtime's      *)
(* consumers (src/runtime/rev51/pilote-*-consumer-v1) have lists of their  *)
(* own.                                                                    *)
(*                                                                         *)
(* A document is given by the names of its fields and the names inside     *)
(* them.  Where the lists of two documents only differ by some names, the  *)
(* one is defined by the other.                                            *)
(***************************************************************************)
EXTENDS Integers

DocumentTypes == {"A2", "A3", "A4", "A5", "A6", "A7"}

-----------------------------------------------------------------------------
(* Pilote. *)

\* The names no execution intent and no verifier policy may have in it.
FORBIDDEN_KEYS ==
  {"PROVIDER_ID", "PROVIDER_ACCOUNT_OR_TENANT_ID", "PROVIDER_RESOURCE_ID", "WORKER_ID",
   "VM_ID", "DROPLET_ID", "RUNNER_ID", "JIT_REGISTRATION_ID", "LEASE_ID", "EXECUTION_ID",
   "ATTEMPT_ID", "FENCE_TOKEN", "OPERATION_ID", "IDEMPOTENCY_KEY", "SECRET_VALUE",
   "BACKEND_INSTANCE_ID"}
A4_FORBIDDEN == FORBIDDEN_KEYS \cup {"APPROVAL_GRANT_ID", "APPROVAL_CLAIM_ID", "CLAIM_ID"}
A5_FORBIDDEN ==
  FORBIDDEN_KEYS
    \cup {"ATTESTATION_ID", "RESOURCE_BINDING_HASH", "DURABLE_CREATION_RECEIPT_HASH",
          "CREDENTIAL_LEASE_ID"}
A6_FORBIDDEN == FORBIDDEN_KEYS \cup {"RESERVATION_ID", "SCHEDULER_ID", "QUEUE_ID"}
A7_FORBIDDEN ==
  FORBIDDEN_KEYS
    \cup {"LEASE_GENERATION", "CHECKPOINT_ID", "CACHE_ENTRY_ID", "CACHE_KEY",
          "SECURITY_DOMAIN_ID", "INPUT_SET_ID"}

TOP_LEVEL_KEYS ==
  {"ACCEPTANCE_REQUIREMENT_REF", "APPROVAL_BOUNDARY", "BUDGET_INTENT", "CACHE_POLICY",
   "CANONICALIZATION_ID", "CAPABILITY_REQUIREMENTS", "CHECKPOINT_POLICY",
   "CONTRACT_SET_REF", "DATA_LOCALITY_POLICY", "EXECUTION_PATH_POLICY",
   "EXPECTED_EVIDENCE_CLASSES", "EXPECTED_OUTPUT_CLASSES", "INPUT_MODE", "INTENT_SHA256",
   "INTENT_TYPE", "INTENT_VERSION", "OPERATOR_POLICY", "PARALLELISM_INTENT", "PHASE_ID",
   "PROJECT_ID", "RESOURCE_INTENT", "SECURITY_REQUIREMENT", "SEMANTIC_DEPENDENCY_REFS",
   "TASK_CONTRACT_SHA256", "TASK_ID", "VERIFIER_POLICY_REF"}
POLICY_KEYS ==
  {"ACCEPTANCE_REQUIREMENT_REF", "CANONICALIZATION_ID", "CONTRACT_SET_REF", "POLICY_TYPE",
   "POLICY_VERSION", "RAW_WORKER_SUCCESS_DIRECT_ACCEPTANCE",
   "RUNTIME_DEFINED_ACCEPTANCE_SEMANTICS", "RUNTIME_DEFINED_TOLERANCE", "VERIFIER_POLICY",
   "VERIFIER_POLICY_ID", "VERIFIER_POLICY_SHA256", "VERIFIER_POLICY_VERSION"}
A4_KEYS ==
  {"A4_INTENT_SHA256", "APPROVAL_MODE", "AUTHORITY_GRANT_POLICY", "CANONICALIZATION_ID",
   "CONTRACT_SET_REF", "EFFECT_CLASS_REFS", "EXECUTION_INTENT_SHA256",
   "FIRST_IRREVERSIBLE_REMOTE_SUBMISSION_POLICY", "HOST_OPERATION_INTENT", "INTENT_TYPE",
   "INTENT_VERSION", "INTERVENTION_POLICY", "INTERVENTION_POLICY_REF",
   "NORMAL_PATH_POLICY", "OBSERVE_ONLY_INTERVENTION_POLICY", "OPERATOR_POLICY",
   "OUTCOME_UNKNOWN_APPROVAL_POLICY", "PHASE_ID", "PROJECT_ID", "REMOTE_MUTATION_INTENT",
   "SCOPE_REFS", "STATE_AFFECTING_INTERVENTION_POLICY", "TASK_CONTRACT_SHA256", "TASK_ID"}
A5_KEYS ==
  {"A5_INTENT_SHA256", "BOOTSTRAP_CREDENTIAL_PRIVILEGED_JOB_EQUIVALENCE",
   "CANONICALIZATION_ID", "CAPABILITY_ATTESTATION_POLICY", "CAPABILITY_DRIFT_POLICY",
   "CAPABILITY_REQUIREMENT_REFS", "CONTRACT_SET_REF", "EXECUTION_INTENT_SHA256",
   "HOST_MOUNT_POLICY", "HOST_SECRET_INHERITANCE", "INTENT_TYPE", "INTENT_VERSION",
   "JOB_SCOPED_CREDENTIAL_LEASE", "PHASE_ID", "PRIVILEGED_WORKER", "PROJECT_ID",
   "RESOURCE_INTENT", "RESOURCE_OWNERSHIP_PROOF_POLICY", "SECRET_PERSISTENCE",
   "SECURITY_REQUIREMENT", "SHELL_EXECUTION", "STRUCTURED_ENTRYPOINT",
   "TASK_CONTRACT_SHA256", "TASK_ID", "UNATTESTED_WORKER_PRIVILEGED_JOB_CREDENTIAL",
   "UNTRUSTED_CODE_ON_PERSISTENT_WORKER", "WARM_REUSE_SANITATION_RECEIPT"}
A6_KEYS ==
  {"A6_INTENT_SHA256", "ADMISSION_INTERSECTION_POLICY", "CANONICALIZATION_ID",
   "CONTRACT_SET_REF", "EFFECTIVE_PARALLELISM_CAP", "EXECUTION_CLASS",
   "EXECUTION_CLASS_PROVIDER_SELECTION", "EXECUTION_CLASS_SOURCE_REF",
   "EXECUTION_INTENT_SHA256", "HARD_EXECUTION_CLASS_DOWNGRADE", "INHERIT_DAG_POLICY",
   "INTENT_TYPE", "INTENT_VERSION", "MAX_PARALLELISM", "MAX_PARALLELISM_SOURCE_REF",
   "PARALLELISM_INTENT", "PARALLELISM_INTENT_SOURCE_REF", "PARALLEL_ALLOWED_POLICY",
   "PHASE_ID", "PROJECT_ID", "PROVIDER_TRANSPORT_INDEPENDENCE",
   "RUNTIME_EXECUTION_ONLY_EDGE_ADD", "RUNTIME_SEMANTIC_EDGE_ADD",
   "RUNTIME_SEMANTIC_EDGE_REMOVE", "RUNTIME_STRICTER_LIMIT", "SEMANTIC_DEPENDENCY_REFS",
   "SEMANTIC_DEPENDENCY_REFS_SOURCE_REF", "SERIAL_REQUIRED_POLICY", "TASK_CONTRACT_SHA256",
   "TASK_ID"}
A7_KEYS ==
  {"A7_INTENT_SHA256", "CACHE_FINAL_GATE_BYPASS", "CACHE_HIT_VERIFIER_EQUIVALENCE",
   "CACHE_IMMUTABLE_CAS", "CACHE_OBJECT_AUTHORITATIVE_EVIDENCE", "CACHE_POLICY",
   "CACHE_POLICY_SOURCE_REF", "CACHE_PRODUCER_RECEIPT", "CACHE_SECURITY_DOMAIN_MATCH",
   "CANONICALIZATION_ID", "CHECKPOINT_POLICY", "CHECKPOINT_POLICY_SOURCE_REF",
   "CHECKPOINT_RESUME_FENCE_ADVANCE", "CHECKPOINT_RESUME_NEW_ATTEMPT",
   "CHECKPOINT_RESUME_NEW_LEASE_GENERATION", "CHECKPOINT_STALE_ATTEMPT_ACCEPTANCE",
   "CHECKPOINT_STRONG_IDENTITY", "CONTRACT_SET_REF", "DATA_LOCALITY_POLICY",
   "DATA_LOCALITY_POLICY_SOURCE_REF", "DATA_LOCALITY_PROVIDER_SELECTION",
   "DATA_LOCALITY_SECURITY_WEAKENING", "EGRESS_RESTRICTED_FAIL_CLOSED",
   "EXECUTION_INTENT_SHA256", "INTENT_TYPE", "INTENT_VERSION", "PHASE_ID", "PROJECT_ID",
   "RUNTIME_STRICTER_LOCALITY", "TASK_CONTRACT_SHA256", "TASK_ID"}

Forbidden(type) ==
  CASE type = "A4" -> A4_FORBIDDEN
    [] type = "A5" -> A5_FORBIDDEN
    [] type = "A6" -> A6_FORBIDDEN
    [] type = "A7" -> A7_FORBIDDEN
    [] OTHER -> FORBIDDEN_KEYS

\* exactKeys and scanForbidden
ExactKeys(document, keys) == document.fields = keys
Clean(document, forbidden) == (document.fields \cup document.inside) \cap forbidden = {}

PiloteKeys ==
  [A2 |-> TOP_LEVEL_KEYS, A3 |-> POLICY_KEYS, A4 |-> A4_KEYS, A5 |-> A5_KEYS,
   A6 |-> A6_KEYS, A7 |-> A7_KEYS]

PiloteAccepts(type, document) ==
  /\ type \in DocumentTypes => ExactKeys(document, PiloteKeys[type])
  /\ Clean(document, Forbidden(type))

-----------------------------------------------------------------------------
(* The Runtime. *)

FORBIDDEN_CONCRETE_INFRA_KEYS ==
  {"PROVIDER_ID", "PROVIDER_ACCOUNT_OR_TENANT_ID", "PROVIDER_RESOURCE_ID", "WORKER_ID",
   "VM_ID", "DROPLET_ID", "RUNNER_ID", "JIT_REGISTRATION_ID", "LEASE_ID", "EXECUTION_ID",
   "ATTEMPT_ID", "FENCE_TOKEN", "OPERATION_ID", "IDEMPOTENCY_KEY", "SECRET_VALUE",
   "BACKEND_INSTANCE_ID"}
RUNTIME_A4_FORBIDDEN ==
  FORBIDDEN_CONCRETE_INFRA_KEYS
    \cup {"APPROVAL_GRANT_ID", "APPROVAL_CLAIM_ID", "CLAIM_ID"}
RUNTIME_A5_FORBIDDEN ==
  FORBIDDEN_CONCRETE_INFRA_KEYS
    \cup {"ATTESTATION_ID", "RESOURCE_BINDING_HASH", "DURABLE_CREATION_RECEIPT_HASH",
          "CREDENTIAL_LEASE_ID"}
\* The last two were written anew, and are shorter.
RUNTIME_A6_FORBIDDEN ==
  {"PROVIDER_ID", "PROVIDER_RESOURCE_ID", "WORKER_ID", "RUNNER_ID", "VM_ID",
   "RESERVATION_ID", "SCHEDULER_ID", "QUEUE_ID", "ATTEMPT_ID", "LEASE_ID", "FENCE_TOKEN",
   "OPERATION_ID", "IDEMPOTENCY_KEY", "SECRET_VALUE"}
RUNTIME_A7_FORBIDDEN ==
  {"PROVIDER_ID", "PROVIDER_RESOURCE_ID", "WORKER_ID", "LEASE_ID", "LEASE_GENERATION",
   "ATTEMPT_ID", "FENCE_TOKEN", "CHECKPOINT_ID", "CACHE_KEY", "CACHE_ENTRY_ID",
   "SECURITY_DOMAIN_ID", "INPUT_SET_ID"}

RUNTIME_POLICY_KEYS ==
  {"ACCEPTANCE_REQUIREMENT_REF", "CANONICALIZATION_ID", "CONTRACT_SET_REF", "POLICY_TYPE",
   "POLICY_VERSION", "RAW_WORKER_SUCCESS_DIRECT_ACCEPTANCE",
   "RUNTIME_DEFINED_ACCEPTANCE_SEMANTICS", "RUNTIME_DEFINED_TOLERANCE", "VERIFIER_POLICY",
   "VERIFIER_POLICY_ID", "VERIFIER_POLICY_SHA256", "VERIFIER_POLICY_VERSION"}
RUNTIME_A4_KEYS ==
  {"A4_INTENT_SHA256", "APPROVAL_MODE", "AUTHORITY_GRANT_POLICY", "CANONICALIZATION_ID",
   "CONTRACT_SET_REF", "EFFECT_CLASS_REFS", "EXECUTION_INTENT_SHA256",
   "FIRST_IRREVERSIBLE_REMOTE_SUBMISSION_POLICY", "HOST_OPERATION_INTENT", "INTENT_TYPE",
   "INTENT_VERSION", "INTERVENTION_POLICY", "INTERVENTION_POLICY_REF",
   "NORMAL_PATH_POLICY", "OBSERVE_ONLY_INTERVENTION_POLICY", "OPERATOR_POLICY",
   "OUTCOME_UNKNOWN_APPROVAL_POLICY", "PHASE_ID", "PROJECT_ID", "REMOTE_MUTATION_INTENT",
   "SCOPE_REFS", "STATE_AFFECTING_INTERVENTION_POLICY", "TASK_CONTRACT_SHA256", "TASK_ID"}
RUNTIME_A5_KEYS ==
  {"A5_INTENT_SHA256", "BOOTSTRAP_CREDENTIAL_PRIVILEGED_JOB_EQUIVALENCE",
   "CANONICALIZATION_ID", "CAPABILITY_ATTESTATION_POLICY", "CAPABILITY_DRIFT_POLICY",
   "CAPABILITY_REQUIREMENT_REFS", "CONTRACT_SET_REF", "EXECUTION_INTENT_SHA256",
   "HOST_MOUNT_POLICY", "HOST_SECRET_INHERITANCE", "INTENT_TYPE", "INTENT_VERSION",
   "JOB_SCOPED_CREDENTIAL_LEASE", "PHASE_ID", "PRIVILEGED_WORKER", "PROJECT_ID",
   "RESOURCE_INTENT", "RESOURCE_OWNERSHIP_PROOF_POLICY", "SECRET_PERSISTENCE",
   "SECURITY_REQUIREMENT", "SHELL_EXECUTION", "STRUCTURED_ENTRYPOINT",
   "TASK_CONTRACT_SHA256", "TASK_ID", "UNATTESTED_WORKER_PRIVILEGED_JOB_CREDENTIAL",
   "UNTRUSTED_CODE_ON_PERSISTENT_WORKER", "WARM_REUSE_SANITATION_RECEIPT"}
RUNTIME_A6_KEYS ==
  {"A6_INTENT_SHA256", "ADMISSION_INTERSECTION_POLICY", "CANONICALIZATION_ID",
   "CONTRACT_SET_REF", "EFFECTIVE_PARALLELISM_CAP", "EXECUTION_CLASS",
   "EXECUTION_CLASS_PROVIDER_SELECTION", "EXECUTION_CLASS_SOURCE_REF",
   "EXECUTION_INTENT_SHA256", "HARD_EXECUTION_CLASS_DOWNGRADE", "INHERIT_DAG_POLICY",
   "INTENT_TYPE", "INTENT_VERSION", "MAX_PARALLELISM", "MAX_PARALLELISM_SOURCE_REF",
   "PARALLELISM_INTENT", "PARALLELISM_INTENT_SOURCE_REF", "PARALLEL_ALLOWED_POLICY",
   "PHASE_ID", "PROJECT_ID", "PROVIDER_TRANSPORT_INDEPENDENCE",
   "RUNTIME_EXECUTION_ONLY_EDGE_ADD", "RUNTIME_SEMANTIC_EDGE_ADD",
   "RUNTIME_SEMANTIC_EDGE_REMOVE", "RUNTIME_STRICTER_LIMIT", "SEMANTIC_DEPENDENCY_REFS",
   "SEMANTIC_DEPENDENCY_REFS_SOURCE_REF", "SERIAL_REQUIRED_POLICY", "TASK_CONTRACT_SHA256",
   "TASK_ID"}

RuntimeForbidden(type) ==
  CASE type = "A4" -> RUNTIME_A4_FORBIDDEN
    [] type = "A5" -> RUNTIME_A5_FORBIDDEN
    [] type = "A6" -> RUNTIME_A6_FORBIDDEN
    [] type = "A7" -> RUNTIME_A7_FORBIDDEN
    [] OTHER -> FORBIDDEN_CONCRETE_INFRA_KEYS

\* The consumers of A2 and A7 do not ask for exact fields.
RuntimeKeys ==
  [A3 |-> RUNTIME_POLICY_KEYS, A4 |-> RUNTIME_A4_KEYS, A5 |-> RUNTIME_A5_KEYS,
   A6 |-> RUNTIME_A6_KEYS]

RuntimeAccepts(type, document) ==
  /\ type \in DOMAIN RuntimeKeys => ExactKeys(document, RuntimeKeys[type])
  /\ Clean(document, RuntimeForbidden(type))

-----------------------------------------------------------------------------
\* Documents of a type: as it should be, with a field too many or too few, or with
\* a name that belongs to the Runtime as a field or further down.
RuntimeNames == UNION {Forbidden(type) \cup RuntimeForbidden(type) : type \in DocumentTypes}
Documents(type) ==
  [fields : {PiloteKeys[type]} \cup {PiloteKeys[type] \ {k} : k \in PiloteKeys[type]}
              \cup {PiloteKeys[type] \cup {k} : k \in RuntimeNames \cup {"COMMENT"}},
   inside : {{}} \cup {{k} : k \in RuntimeNames}]

\* A document whose fields Pilote accepts is never refused for them by the Runtime;
\* and of policies, approval and resource intents (A3 to A5) the Runtime accepts no
\* other than Pilote does.
FieldsAgree ==
  \A type \in DocumentTypes : \A document \in Documents(type) :
    /\ PiloteAccepts(type, document) => RuntimeAccepts(type, document)
    /\ type \in {"A3", "A4", "A5"} /\ RuntimeAccepts(type, document)
         => PiloteAccepts(type, document)
=============================================================================
