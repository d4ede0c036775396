------------------------ MODULE LegacyCompatibility ------------------------
(***************************************************************************)
(* How tasks of earlier revisions are executed (A8), as both stacks say    *)
(* it: Pilote seals an artifact of profiles and rules (src/pilote/rev51/   *)
(* backward-compatibility-semantic-artifacts-v1), and the Runtime's        *)
(* consumer (src/runtime/rev51/pilote-backward-compatibility-consumer-v1)  *)
(* has tables and functions of its own and binds a legacy execution.       *)
(*                                                                         *)
(* The names are the ones of each source.  A hash is given by its first    *)
(* digits where it is in the source, and the hash of an artifact is its    *)
(* content.  "none" and "malformed" are a missing and an ill-formed value. *)
(* An outcome is the code a function returns; a function that succeeds     *)
(* returns "OK" or the profile.                                            *)
(***************************************************************************)
EXTENDS Integers

Unsupported == "BLOCKED_LEGACY_COMPATIBILITY_REQUIREMENT"
UnknownProfile == "BLOCKED_UNKNOWN_COMPAT_PROFILE"
NoOracle == "BLOCKED_LEGACY_ACCEPTANCE_ORACLE_MISSING"

CompatProfile(id, family, identity, hash) ==
  [id |-> id, family |-> family, identity |-> identity, hash |-> hash]

\* The policies of an artifact that both validators look at.
POLICIES == {"RUNTIME_MAY_REDEFINE_PROFILE_SEMANTICS", "RUNTIME_DEFINED_EQUIVALENCE",
             "SEMANTIC_REINTERPRETATION", "NATIVE_TO_LEGACY_DOWNGRADE",
             "LEGACY_TO_REV51_INTENT_SYNTHESIS"}

\* The content of SEALED_ARTIFACT.
SEALED_ARTIFACT ==
  [allowed  |-> {},
   profiles |->
     {CompatProfile("COMPAT_PROFILE_REV42_TASK_V1", "REV42_TASK_V1", "90b01621", "bb36e0ee"),
      CompatProfile("COMPAT_PROFILE_REV45_PHASE_V1", "REV45_PHASE_V1", "3439a724", "b758045a"),
      CompatProfile("COMPAT_PROFILE_REV50_FRAMEWORK_V1", "REV50_FRAMEWORK_V1", "141fe59a",
                    "fca1cea7")},
   registry |-> [h \in {"bb36e0ee", "b758045a", "fca1cea7"} |-> "ACTIVE"],
   safe     |-> {"PROVIDER_AUTO_SELECTION", "CHECKPOINT_DISABLED_WHEN_NOT_REQUESTED",
                 "CACHE_DISABLED_WHEN_NOT_REQUESTED", "ZERO_TOUCH_EXECUTION", "FENCING",
                 "DURABLE_STATE", "ARTIFACT_QUARANTINE", "CLEANUP_ENFORCEMENT",
                 "BILLING_STOP_ENFORCEMENT"},
   derived  |-> {"CAPABILITY_REQUIREMENTS", "RESOURCE_REQUIREMENTS", "NETWORK_CLASS",
                 "DATA_ACCESS_CLASS", "SECRET_CLASS", "VERIFIER_REQUIREMENTS",
                 "ACCEPTANCE_REQUIREMENTS"},
   explicit |-> {"EXPLICIT_GPU_TOPOLOGY", "ADVANCED_CHECKPOINT_POLICY", "ADVANCED_CACHE_POLICY",
                 "DATA_LOCALITY", "ADVANCED_ISOLATION_SECURITY", "ADVANCED_BUDGET_INTENT",
                 "HYBRID_EXECUTION_PREFERENCE"},
   hardening |-> {"DURABLE_STATE", "FENCING", "ARTIFACT_QUARANTINE", "RESOURCE_OWNERSHIP_PROOF",
                  "OUTCOME_UNKNOWN_RECONCILIATION", "SECRET_REDACTION", "CLEANUP_ENFORCEMENT",
                  "BILLING_STOP_ENFORCEMENT", "ZERO_TOUCH_BOOTSTRAP"},
   forbidden |-> {"TASK_SEMANTICS", "DEPENDENCY_SEMANTICS", "ACCEPTANCE_SEMANTICS",
                  "EXPECTED_PROJECT_OUTPUT", "DECLARED_EFFECT_BOUNDARY"}]

Registry_Statuses == {"ACTIVE", "DEPRECATED", "REVOKED"}

-----------------------------------------------------------------------------
(* Pilote. *)

\* Whatever else is checked of it, an artifact must be the sealed one.
ValidArtifact(a) ==
  /\ a.content.allowed = {}
  /\ \A h \in DOMAIN a.content.registry :
       /\ a.content.registry[h] \in Registry_Statuses
       /\ \E p \in a.content.profiles : p.hash = h
  /\ a.hash = a.content
  /\ a.content = SEALED_ARTIFACT

\* validateProfileRegistryEntryForNewExecutionV1
NewExecution(status) ==
  IF status \notin Registry_Statuses THEN UnknownProfile
  ELSE IF status = "REVOKED" THEN Unsupported ELSE "OK"

\* selectCompatProfileV1 of an artifact that is valid
Selected(content, family, identity) ==
  LET sameFamily == {p \in content.profiles : p.family = family}
      matching == {p \in sameFamily : p.identity = identity}
      profile == CHOOSE p \in matching : TRUE
  IN IF sameFamily = {} THEN [outcome |-> UnknownProfile, profile |-> "none"]
     ELSE IF matching = {} THEN [outcome |-> "BLOCKED_LEGACY_IDENTITY_MISMATCH", profile |-> "none"]
     ELSE IF NewExecution(content.registry[profile.hash]) # "OK"
       THEN [outcome |-> NewExecution(content.registry[profile.hash]), profile |-> "none"]
     ELSE [outcome |-> "OK", profile |-> profile.hash]

\* validateInputModeExclusivityV1
InputMode(mode, native, profile) ==
  CASE mode \notin {"LEGACY_COMPAT", "NATIVE_REV51"} -> Unsupported
    [] mode = "NATIVE_REV51" -> IF profile # "none" THEN "NATIVE_TO_LEGACY_DOWNGRADE_DENY" ELSE "OK"
    [] OTHER -> IF native THEN "LEGACY_TO_REV51_INTENT_SYNTHESIS_DENY"
                ELSE IF profile \in {"none", "malformed"} THEN UnknownProfile ELSE "OK"

\* classifyLegacyFeatureV1
FeatureClass(content, feature) ==
  CASE feature \in content.safe -> "A_SAFE_RUNTIME_DEFAULT"
    [] feature \in content.derived -> "B_DERIVED_FROM_EXISTING_CONTRACT"
    [] feature \in content.explicit -> "C_REQUIRES_EXPLICIT_REV51_INTENT"
    [] OTHER -> "none"

\* validateTransparentHardeningV1
HardeningAllowed(content, hardening, targets) ==
  hardening \in content.hardening /\ targets \cap content.forbidden = {}

\* projectLegacyAcceptanceV1, of a receipt the Runtime has sealed or not
LegacyAcceptance(receipt) ==
  IF ~receipt.sealed THEN NoOracle
  ELSE CASE receipt.result \in {"PASS", "BLOCKED", "OUTCOME_UNKNOWN"} -> receipt.result
         [] receipt.result = "FAIL" -> "NON_PASS"
         [] OTHER -> Unsupported

\* evaluateLegacyAcceptanceOracleV1
LegacyOracle(projection) ==
  CASE projection \in {"PASS", "OUTCOME_UNKNOWN"} -> projection
    [] projection \in {"NON_PASS", "BLOCKED"} -> "FAIL"
    [] OTHER -> NoOracle

-----------------------------------------------------------------------------
(* The Runtime. *)

A8_COMPAT_PROFILES ==
  [REV42_TASK_V1 |->
     CompatProfile("COMPAT_PROFILE_REV42_TASK_V1", "REV42_TASK_V1", "90b01621", "bb36e0ee"),
   REV45_PHASE_V1 |->
     CompatProfile("COMPAT_PROFILE_REV45_PHASE_V1", "REV45_PHASE_V1", "3439a724", "b758045a"),
   REV50_FRAMEWORK_V1 |->
     CompatProfile("COMPAT_PROFILE_REV50_FRAMEWORK_V1", "REV50_FRAMEWORK_V1", "141fe59a",
                   "fca1cea7")]

SAFE_DEFAULTS ==
  {"PROVIDER_AUTO_SELECTION", "CHECKPOINT_DISABLED_WHEN_NOT_REQUESTED",
   "CACHE_DISABLED_WHEN_NOT_REQUESTED", "ZERO_TOUCH_EXECUTION", "FENCING", "DURABLE_STATE",
   "ARTIFACT_QUARANTINE", "CLEANUP_ENFORCEMENT", "BILLING_STOP_ENFORCEMENT"}
DERIVED_DEFAULTS ==
  {"CAPABILITY_REQUIREMENTS", "RESOURCE_REQUIREMENTS", "NETWORK_CLASS", "DATA_ACCESS_CLASS",
   "SECRET_CLASS", "VERIFIER_REQUIREMENTS", "ACCEPTANCE_REQUIREMENTS"}
EXPLICIT_REV51 ==
  {"EXPLICIT_GPU_TOPOLOGY", "ADVANCED_CHECKPOINT_POLICY", "ADVANCED_CACHE_POLICY", "DATA_LOCALITY",
   "ADVANCED_ISOLATION_SECURITY", "ADVANCED_BUDGET_INTENT", "HYBRID_EXECUTION_PREFERENCE"}
HARDENING_ALLOW ==
  {"DURABLE_STATE", "FENCING", "ARTIFACT_QUARANTINE", "RESOURCE_OWNERSHIP_PROOF",
   "OUTCOME_UNKNOWN_RECONCILIATION", "SECRET_REDACTION", "CLEANUP_ENFORCEMENT",
   "BILLING_STOP_ENFORCEMENT", "ZERO_TOUCH_BOOTSTRAP"}
HARDENING_FORBID_TARGETS ==
  {"TASK_SEMANTICS", "DEPENDENCY_SEMANTICS", "ACCEPTANCE_SEMANTICS", "EXPECTED_PROJECT_OUTPUT",
   "DECLARED_EFFECT_BOUNDARY"}

\* The artifact is not compared with a copy, but its own hash with the one the
\* Runtime knows.
A8Artifact(a) ==
  /\ a.content.allowed = {}
  /\ a.hash = a.content
  /\ a.hash = SEALED_ARTIFACT

\* selectA8CompatProfileV1 of an artifact that is valid: the Runtime's table comes
\* first, and the artifact must confirm it.
A8Selected(content, family, identity) ==
  LET expected == A8_COMPAT_PROFILES[family]
      status == content.registry[expected.hash]
      blocked(outcome) == [outcome |-> outcome, profile |-> "none"]
  IN IF family \notin DOMAIN A8_COMPAT_PROFILES THEN blocked(UnknownProfile)
     ELSE IF expected.identity # identity THEN blocked("BLOCKED_LEGACY_IDENTITY_MISMATCH")
     ELSE IF ~\E p \in content.profiles :
                p.id = expected.id /\ p.family = family /\ p.hash = expected.hash
       THEN blocked(Unsupported)
     ELSE IF expected.hash \notin DOMAIN content.registry \/ status \notin Registry_Statuses
       THEN blocked(UnknownProfile)
     ELSE IF status = "REVOKED" THEN blocked(Unsupported)
     ELSE [outcome |-> "OK", profile |-> expected.hash]

\* validateA8InputModeV1.  It calls a downgrade by another name.
A8InputMode(mode, native, profile) ==
  CASE mode \notin {"LEGACY_COMPAT", "NATIVE_REV51"} -> Unsupported
    [] mode = "NATIVE_REV51" -> IF profile # "none" THEN "REV51_TO_LEGACY_DOWNGRADE_DENY" ELSE "OK"
    [] OTHER -> IF native THEN "LEGACY_TO_REV51_INTENT_SYNTHESIS_DENY"
                ELSE IF profile \in {"none", "malformed"} THEN UnknownProfile ELSE "OK"

\* classifyA8LegacyFeatureV1
A8FeatureClass(feature) ==
  CASE feature \in SAFE_DEFAULTS -> "A_SAFE_RUNTIME_DEFAULT"
    [] feature \in DERIVED_DEFAULTS -> "B_DERIVED_FROM_EXISTING_CONTRACT"
    [] feature \in EXPLICIT_REV51 -> "C_REQUIRES_EXPLICIT_REV51_INTENT"
    [] OTHER -> "none"

\* validateA8TransparentHardeningV1
A8HardeningAllowed(hardening, targets) ==
  hardening \in HARDENING_ALLOW /\ targets \cap HARDENING_FORBID_TARGETS = {}

\* validateA8ReceiptCompatibilityMetadataV1: the metadata has exactly its fields.
A8Metadata(metadata, profile) ==
  /\ metadata.mode = "LEGACY_COMPAT"
  /\ metadata.profile = profile
  /\ metadata.others = {}

\* validateA8LegacyIdentityChainV1: of six hashes one is compared.
A8IdentityChain(chain, profile) ==
  /\ chain.wellFormed
  /\ chain.profile = profile

\* projectA8LegacyAcceptanceV1
A8Acceptance(receipt) ==
  IF ~receipt.sealed THEN NoOracle
  ELSE CASE receipt.result = "FAIL" -> "NON_PASS"
         [] receipt.result \in {"PASS", "BLOCKED", "OUTCOME_UNKNOWN"} -> receipt.result
         [] OTHER -> Unsupported

\* evaluateA8LegacyAcceptanceOracleV1
A8Oracle(projection) ==
  CASE projection = "PASS" -> "PASS"
    [] projection = "OUTCOME_UNKNOWN" -> "OUTCOME_UNKNOWN"
    [] projection \in {"NON_PASS", "BLOCKED"} -> "FAIL"
    [] OTHER -> NoOracle

\* validateA8RuntimeBindingV1 of a valid artifact.  The profile of the input mode
\* is the selected one, and only without one the caller's; that the execution has
\* a native intent, or must have passed, is for the caller to say.
A8Bound(content, x) ==
  LET selected == A8Selected(content, x.family, x.identity)
      profile == IF selected.outcome = "OK" THEN selected.profile ELSE x.profile
  IN /\ selected.outcome = "OK"
     /\ A8InputMode(x.mode, x.native, profile) = "OK"
     /\ A8Metadata(x.metadata, selected.profile)
     /\ A8IdentityChain(x.chain, selected.profile)
     /\ \A f \in x.features :
          A8FeatureClass(f) \in {"A_SAFE_RUNTIME_DEFAULT", "B_DERIVED_FROM_EXISTING_CONTRACT"}
     /\ \A h \in x.hardenings : A8HardeningAllowed(h.hardening, h.targets)
     /\ A8Acceptance(x.receipt) \notin {NoOracle, Unsupported}
     /\ x.mustPass => A8Oracle(A8Acceptance(x.receipt)) = "PASS"
-----------------------------------------------------------------------------
\* Artifacts: the sealed one, ones with another status of a profile or with a policy
\* allowed, and their hashes.
Contents ==
  {SEALED_ARTIFACT}
    \cup {[SEALED_ARTIFACT EXCEPT !.registry[h] = s] :
            h \in DOMAIN SEALED_ARTIFACT.registry, s \in Registry_Statuses \cup {"RETIRED"}}
    \cup {[SEALED_ARTIFACT EXCEPT !.allowed = {p}] : p \in POLICIES}
Artifacts == [content : Contents, hash : Contents]

Families == DOMAIN A8_COMPAT_PROFILES \cup {"REV44_TASK_V1"}
Identities == {p.identity : p \in SEALED_ARTIFACT.profiles} \cup {"00000000"}
Features == SEALED_ARTIFACT.safe \cup SEALED_ARTIFACT.derived \cup SEALED_ARTIFACT.explicit
              \cup {"REV52_FEATURE"}
Hardenings ==
  [hardening : SEALED_ARTIFACT.hardening \cup {"REV52_HARDENING"},
   targets : {{}, {"LOGS"}} \cup {{t} : t \in SEALED_ARTIFACT.forbidden}]
Receipts ==
  [sealed : BOOLEAN, result : {"PASS", "FAIL", "BLOCKED", "OUTCOME_UNKNOWN", "PARTIAL"}]

\* Legacy executions that callers may have bound.
Bindings ==
  [family : {"REV42_TASK_V1", "REV45_PHASE_V1", "REV44_TASK_V1"},
   identity : {"90b01621", "3439a724", "00000000"},
   mode : {"LEGACY_COMPAT", "NATIVE_REV51", "REV44"}, native : BOOLEAN,
   profile : {"none", "bb36e0ee"},
   metadata : [mode : {"LEGACY_COMPAT"}, profile : {"bb36e0ee", "b758045a"},
               others : {{}, {"REASON"}}],
   chain : [wellFormed : {TRUE}, profile : {"bb36e0ee", "b758045a"}],
   features : {{}, {"FENCING"}, {"NETWORK_CLASS", "DATA_LOCALITY"}, {"REV52_FEATURE"}},
   hardenings : {{}, {[hardening |-> "FENCING", targets |-> {"LOGS"}]},
                 {[hardening |-> "FENCING", targets |-> {"TASK_SEMANTICS"}]}},
   receipt : Receipts, mustPass : BOOLEAN]

\* The Runtime accepts the artifact Pilote accepts, and no other; it selects the
\* profile Pilote selects whatever the registry says of it, classifies every
\* feature, hardening and verification result as Pilote does; and a legacy execution
\* it binds is one Pilote's own functions let through.
LegacyRulesAgree ==
  /\ \A a \in Artifacts : A8Artifact(a) <=> ValidArtifact(a)
  /\ \A content \in Contents, family \in Families, identity \in Identities :
       A8Selected(content, family, identity) = Selected(content, family, identity)
  /\ \A f \in Features : A8FeatureClass(f) = FeatureClass(SEALED_ARTIFACT, f)
  /\ \A h \in Hardenings :
       A8HardeningAllowed(h.hardening, h.targets)
         <=> HardeningAllowed(SEALED_ARTIFACT, h.hardening, h.targets)
  /\ \A r \in Receipts :
       /\ A8Acceptance(r) = LegacyAcceptance(r)
       /\ A8Oracle(A8Acceptance(r)) = LegacyOracle(LegacyAcceptance(r))
  /\ \A x \in Bindings :
       A8Bound(SEALED_ARTIFACT, x) =>
         LET selected == Selected(SEALED_ARTIFACT, x.family, x.identity) IN
           /\ selected.outcome = "OK"
           /\ InputMode(x.mode, x.native, selected.profile) = "OK"
           /\ x.chain.profile = selected.profile
           /\ \A f \in x.features :
                FeatureClass(SEALED_ARTIFACT, f)
                  \notin {"C_REQUIRES_EXPLICIT_REV51_INTENT", "none"}
           /\ x.mustPass => LegacyOracle(LegacyAcceptance(x.receipt)) = "PASS"
=============================================================================
