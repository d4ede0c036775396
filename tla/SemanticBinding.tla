-------------------------- MODULE SemanticBinding --------------------------
(***************************************************************************)
(* How the Runtime executes what Pilote's documents (PiloteSemantics) say: *)
(* it makes an execution plan of an execution intent and its own selection *)
(* (pilote-execution-intent-consumer-v1), binds the other documents to the *)
(* plan (the A3 to A7 consumers), makes the worker job of the plan         *)
(* (runtime-plan-worker-job-v1), and admits work through the A6 binding    *)
(* and the admission store (durable-admission-budget-cancellation-v1, of   *)
(* which only the reservations in use are here: AdmissionBudget).          *)
(*                                                                         *)
(* Every function takes the documents its caller hands it.  The contract   *)
(* is revised and intents are rebuilt while copies of the older ones are   *)
(* about, so a call may be made with any mixture of what Pilote has built; *)
(* the binding must refuse the mixtures.  The Runtime has consumers of its *)
(* own for documents Pilote has validators for: two translations of one    *)
(* rule, by two teams.  What they say of fields, of the end of an          *)
(* execution and of legacy tasks is in DocumentFields, TerminalSemantics   *)
(* and LegacyCompatibility; it depends on no state.                        *)
(*                                                                         *)
(* The A6 binding decides on a copy of the admission store that was read   *)
(* before the reservations it allows are made.  A caller makes as many     *)
(* reservations as it asked for, each expecting the version of the store   *)
(* that it has seen last.                                                  *)
(***************************************************************************)
EXTENDS PiloteSemantics, DocumentFields, TerminalSemantics, LegacyCompatibility,
        FiniteSetsExt

CONSTANTS Admitters,    \* concurrent callers of the admission gate
          Capabilities, \* what the Runtime offers for checkpoint, cache and locality
          Limits,       \* the sets of project, provider and class limits there may be
          MaxRequest,   \* largest REQUESTED_PARALLELISM tried
          MaxVersion    \* bound on the version of the admission store

ASSUME BindingAssumption ==
  /\ MaxRequest \in Nat \ {0}
  /\ MaxVersion \in Nat
  /\ \A l \in Limits : l \subseteq Nat \ {0}
  /\ Nothing \notin {"DIRECT_REMOTE", "GITHUB_GATE"}

VARIABLES plan,        \* the execution plan, or Nothing
          bound,       \* the document bound to it by each consumer, or Nothing
          realized,    \* EXECUTION_CLASS_REALIZATION of the A6 binding, or Nothing
          job,         \* EXECUTION_MODE of the worker job, or Nothing
          admission,   \* the admission store
          check        \* per caller, what the A6 binding has allowed and is not reserved yet

bindingVars == <<plan, bound, realized, job, admission, check>>

Transports == {"DIRECT_WORKER", "GITHUB_SELF_HOSTED_JIT"}
Realizations == {"HOSTED", "SELF_HOSTED", "HOST_LOCAL"}
Kinds == {"A3", "A4", "A5", "A6", "A7"}

\* TRANSPORT_TO_EXECUTION_MODE
ExecutionMode(t) == IF t = "DIRECT_WORKER" THEN "DIRECT_REMOTE" ELSE "GITHUB_GATE"

NoAdmission == [contract |-> Nothing, intent |-> Nothing, max |-> 0, active |-> 0, version |-> 0]

BindingInit ==
  /\ plan = Nothing
  /\ bound = [k \in Kinds |-> Nothing]
  /\ realized = Nothing
  /\ job = Nothing
  /\ admission = NoAdmission
  /\ check = [c \in Admitters |-> Nothing]

-----------------------------------------------------------------------------
(* The plan. *)

PathBound(i, transport) ==
  /\ i.path = "GITHUB_GATE_REQUIRED" => transport = "GITHUB_SELF_HOSTED_JIT"
  /\ i.path = "DIRECT_REMOTE_REQUIRED" => transport = "DIRECT_WORKER"

\* The verifier policy is selected in words and by hash; only the hash is
\* compared with the intent.
Plan(i, transport, mode) ==
  [intent       |-> i,
   contract     |-> i.contract,
   transport    |-> transport,
   mode         |-> mode,
   verifier     |-> i.verifier,
   operator     |-> i.operator,
   policies     |-> i.policies,
   resources    |-> i.resources,
   acceptance   |-> i.acceptance,
   boundary     |-> i.boundary,
   dependencies |-> i.dependencies,
   parallelism  |-> i.parallelism]

Plans == {Plan(i, t, m) : i \in Intents, t \in Transports, m \in VerifierPolicies}

CreatePlan ==
  /\ plan = Nothing
  /\ \E i \in Intents, t \in Transports, mode \in VerifierPolicies :
       /\ PathBound(i, t)
       /\ plan' = Plan(i, t, mode)
  /\ UNCHANGED <<bound, realized, job, admission, check>>

\* The job is made of the plan alone: no binding is asked for.
CreateJob ==
  /\ plan # Nothing
  /\ job' = ExecutionMode(plan.transport)
  /\ UNCHANGED <<plan, bound, realized, admission, check>>

-----------------------------------------------------------------------------
(* The bindings of A3, A4 and A5. *)

\* Faulty variant: an id may have any length, as for Pilote's validator.
RuntimeValidPolicyOfAnyId(v) == v.mode \in VerifierPolicies /\ v.idLength > 0

\* Stricter than Pilote's validator: an id has at most 128 characters.
RuntimeValidVerifierPolicy(v) == v.mode \in VerifierPolicies /\ v.idLength \in 1..128

BindingA3(i, v, p) ==
  /\ RuntimeValidVerifierPolicy(v)
  /\ i.verifier = v
  /\ i.acceptance = v.acceptance
  /\ p.mode = v.mode
  /\ p.verifier = v
  /\ p.acceptance = v.acceptance
  /\ p.intent = i

RuntimeValidA4(d) == d.mode \in ApprovalModes /\ d.operator \in Operators

\* Faulty variant: the plan may be of another intent than the one bound.
BindingA4OfAnyPlan(c, i, p, d) ==
  /\ RuntimeValidA4(d)
  /\ i.contract = c /\ d.contract = c /\ d.intent = i
  /\ [mode |-> d.mode, refs |-> d.refs] = i.boundary
  /\ d.exact = Content[c].exact
  /\ d.refs \subseteq Content[c].refs

BindingA4(c, i, p, d) ==
  /\ RuntimeValidA4(d)
  /\ i.contract = c
  /\ d.contract = c
  /\ d.intent = i
  /\ [mode |-> d.mode, refs |-> d.refs] = i.boundary
  /\ [mode |-> d.mode, refs |-> d.refs] = p.boundary
  /\ d.exact = Content[c].exact
  /\ d.operator = i.operator
  /\ p.operator = d.operator
  /\ p.intent = i
  /\ d.refs \subseteq Content[c].refs
  /\ Content[c].exact => d.mode = "EXPLICIT_HUMAN_APPROVAL"
  /\ d.mode = "EXPLICIT_HUMAN_APPROVAL" => d.refs # {}

RuntimeValidA5(d) == d.resources.minimum \in Nat

BindingA5(c, i, p, d) ==
  /\ RuntimeValidA5(d)
  /\ i.contract = c
  /\ d.contract = c
  /\ d.intent = i
  /\ d.capabilities = Content[c].capabilities
  /\ d.capabilities = i.capabilities
  /\ d.resources = i.resources
  /\ d.resources = p.resources
  /\ p.intent = i

Bind(kind, d) ==
  /\ bound' = [bound EXCEPT ![kind] = d]
  /\ UNCHANGED <<plan, realized, job, admission, check>>

BindA3 ==
  /\ plan # Nothing
  /\ \E i \in Intents, o \in Options : BindingA3(i, o.verifier, plan) /\ Bind("A3", o.verifier)

BindA4 ==
  /\ plan # Nothing
  /\ \E c \in Contracts, i \in Intents, d \in A4Documents :
       BindingA4(c, i, plan, d) /\ Bind("A4", d)

\* What the enforcement boundary asks of the worker besides depends on no document.
BindA5 ==
  /\ plan # Nothing
  /\ \E c \in Contracts, i \in Intents, d \in A5Documents :
       BindingA5(c, i, plan, d) /\ Bind("A5", d)

-----------------------------------------------------------------------------
(* A7. *)

RuntimeValidA7(d) == d.policies \in [checkpoint : Tri, cache : Tri, locality : Localities]

checkpointProjection(p) ==
  CASE p = "NOT_REQUESTED" -> [usage |-> "DISABLED", required |-> FALSE]
    [] p = "ELIGIBLE" -> [usage |-> "OPTIONAL", required |-> FALSE]
    [] OTHER -> [usage |-> "REQUIRED", required |-> TRUE]

cacheProjection(p) ==
  CASE p = "NOT_REQUESTED" -> [usage |-> "DISABLED", required |-> FALSE]
    [] p = "ELIGIBLE" -> [usage |-> "OPTIONAL", required |-> FALSE]
    [] OTHER -> [usage |-> "REQUIRED", required |-> TRUE]

localityProjection(p) ==
  [colocate |-> p = "COLOCATE_WITH_INPUT_SET", egress |-> p = "EGRESS_RESTRICTED"]

\* The capabilities of the Runtime that the policies of a document require.
Required(policies) ==
  (IF checkpointProjection(policies.checkpoint).required THEN {"CHECKPOINT"} ELSE {})
    \cup (IF cacheProjection(policies.cache).required THEN {"CACHE"} ELSE {})
    \cup (IF localityProjection(policies.locality).colocate THEN {"COLOCATION"} ELSE {})
    \cup (IF localityProjection(policies.locality).egress THEN {"RESTRICTED_EGRESS"} ELSE {})

\* The document is held against the Runtime's capabilities, never against the
\* plan, the intent or the contract: their hashes in it only have the form of one.
BindA7 ==
  /\ plan # Nothing
  /\ \E d \in A7Documents :
       /\ RuntimeValidA7(d)
       /\ Required(d.policies) \subseteq Capabilities
       /\ Bind("A7", d)

-----------------------------------------------------------------------------
(* A6 and admission. *)

\* The store is initialized with hashes and a budget that nothing compares with
\* the plan.
InitializeAdmission ==
  /\ admission = NoAdmission
  /\ \E i \in Intents, b \in Contracts :
       admission' = [contract |-> i.contract, intent |-> i, max |-> Content[b].max,
                     active |-> 0, version |-> 0]
  /\ UNCHANGED <<plan, bound, realized, job, check>>

\* Faulty variant: the consumer takes the maximum of the contract for the cap.
RuntimeCapOfContract(parallelism, max) == max

RuntimeCap(parallelism, max) == IF parallelism = "SERIAL_REQUIRED" THEN 1 ELSE max

RuntimeClasses(class) ==
  CASE class = "SELF_HOSTED_REQUIRED" -> {"SELF_HOSTED"}
    [] class = "HOST_LOCAL_REQUIRED" -> {"HOST_LOCAL"}
    [] OTHER -> Realizations

RuntimeValidA6(d) ==
  /\ d.class \in ExecutionClasses
  /\ d.parallelism \in Parallelisms
  /\ d.max \in 1..1024
  /\ d.cap = RuntimeCap(d.parallelism, d.max)

BindingA6(d, p, s) ==
  /\ RuntimeValidA6(d)
  /\ p.contract = d.contract
  /\ p.intent = d.intent
  /\ p.parallelism = d.parallelism
  /\ p.dependencies = d.dependencies
  /\ s.contract = d.contract
  /\ s.intent = d.intent
  /\ s.max = d.max

\* The effective cap is the least of all limits that apply: that of A6 and those
\* of project, provider and class that there are.
Admissible(d, s, limits, requested) ==
  LET effective == Min({RuntimeCap(d.parallelism, d.max)} \cup limits)
  IN /\ requested <= effective
     /\ s.active + requested <= effective

\* A caller reads the store, and has the A6 binding accept it.
CheckAdmission(c) ==
  /\ plan # Nothing
  /\ admission # NoAdmission
  /\ check[c] = Nothing
  /\ \E d \in A6Documents, realization \in Realizations, requested \in 1..MaxRequest,
        limits \in Limits :
       /\ BindingA6(d, plan, admission)
       /\ realization \in RuntimeClasses(d.class)
       /\ Admissible(d, admission, limits, requested)
       /\ bound' = [bound EXCEPT !["A6"] = d]
       /\ realized' = realization
       /\ check' = [check EXCEPT ![c] = [version |-> admission.version, remaining |-> requested]]
  /\ UNCHANGED <<plan, job, admission>>

\* Faulty variant: the store's version is not compared.
CurrentAnyVersion(c) == check[c].version <= admission.version

\* EXPECTED_ADMISSION_STATE_VERSION
Current(c) == check[c].version = admission.version

\* A reservation is made: the store itself only knows the MAX_PARALLELISM of the
\* contract.
Reserve(c) ==
  /\ check[c] # Nothing
  /\ Current(c)
  /\ admission.active < admission.max
  /\ admission.version < MaxVersion
  /\ admission' = [admission EXCEPT !.active = @ + 1, !.version = @ + 1]
  /\ check' = [check EXCEPT ![c] = IF @.remaining = 1 THEN Nothing
                                   ELSE [version |-> @.version + 1, remaining |-> @.remaining - 1]]
  /\ UNCHANGED <<plan, bound, realized, job>>

\* ADMISSION_STATE_CAS_MISMATCH, or the caller gives up: it must check again.
Withdraw(c) ==
  /\ check[c] # Nothing
  /\ check' = [check EXCEPT ![c] = Nothing]
  /\ UNCHANGED <<plan, bound, realized, job, admission>>

\* Faulty variant: a reservation is given back that is not in use.
ReleaseAgain ==
  /\ admission # NoAdmission
  /\ admission.version < MaxVersion
  /\ admission' = [admission EXCEPT !.active = @ - 1, !.version = @ + 1]
  /\ UNCHANGED <<plan, bound, realized, job, check>>

\* A reservation in use is settled.
Release ==
  /\ admission.active > 0
  /\ admission.version < MaxVersion
  /\ admission' = [admission EXCEPT !.active = @ - 1, !.version = @ + 1]
  /\ UNCHANGED <<plan, bound, realized, job, check>>

-----------------------------------------------------------------------------
BindingNext ==
  \/ CreatePlan
  \/ CreateJob
  \/ BindA3
  \/ BindA4
  \/ BindA5
  \/ BindA7
  \/ InitializeAdmission
  \/ \E c \in Admitters : CheckAdmission(c) \/ Reserve(c) \/ Withdraw(c)
  \/ Release

BindingSpec == BindingInit /\ [][BindingNext]_bindingVars

-----------------------------------------------------------------------------
(* Properties. *)

\* Every variable has its type, the counters of the admission store stay in
\* their bounds, and nothing is bound before there is a plan.
BindingTypeOK ==
  /\ plan \in {Nothing} \cup Plans
  /\ bound.A3 \in {Nothing} \cup {o.verifier : o \in Options}
  /\ bound.A4 \in {Nothing} \cup A4Documents
  /\ bound.A5 \in {Nothing} \cup A5Documents
  /\ bound.A6 \in {Nothing} \cup A6Documents
  /\ bound.A7 \in {Nothing} \cup A7Documents
  /\ realized \in {Nothing} \cup Realizations
  /\ job \in {Nothing, "DIRECT_REMOTE", "GITHUB_GATE"}
  /\ admission \in {NoAdmission}
       \cup [contract : Contracts, intent : Intents, max : {Content[c].max : c \in Contracts},
             active : 0..MaxVersion, version : 0..MaxVersion]
  /\ check \in [Admitters -> {Nothing} \cup [version : 0..MaxVersion, remaining : 1..MaxRequest]]
  /\ plan = Nothing => bound = [k \in Kinds |-> Nothing] /\ job = Nothing

\* Documents that reach the Runtime separately, from several revisions of the
\* contract and several intents, cannot be mixed: what A3 to A6 have bound to a
\* plan is of the plan's own intent and of one revision of the contract, and
\* says no more than that revision allows: no effect or scope beyond it, a
\* human's approval where it wants one, its capabilities, its class realized;
\* and the worker job runs on a path the intent permits.
\* (A7 is not among them: it is held against neither.)
NoMixture ==
  plan # Nothing =>
    LET k == Content[plan.contract] IN
      /\ \A d \in {bound.A4, bound.A5, bound.A6} \ {Nothing} :
           d.intent = plan.intent /\ d.contract = plan.contract
      /\ bound.A3 # Nothing => plan.intent.verifier = bound.A3 /\ plan.mode = bound.A3.mode
      /\ bound.A4 # Nothing =>
           /\ plan.boundary.refs \subseteq k.refs
           /\ k.exact => plan.boundary.mode = "EXPLICIT_HUMAN_APPROVAL"
      /\ bound.A5 # Nothing => bound.A5.capabilities = k.capabilities
      /\ bound.A6 # Nothing => realized \in RequiredClasses(k.class) /\ bound.A6.max = k.max
      /\ job = "DIRECT_REMOTE" => plan.intent.path # "GITHUB_GATE_REQUIRED"
      /\ job = "GITHUB_GATE" => plan.intent.path # "DIRECT_REMOTE_REQUIRED"

\* Whatever callers reserve concurrently, each after the A6 binding accepted a
\* copy of the store it had read, the reservations in use never exceed what
\* Pilote allows for the plan's intent, although the store enforces only the
\* MAX_PARALLELISM of the contract: the version a reservation expects makes the
\* decision and the reservation one step.
WithinSemanticCap ==
  admission.active > 0 =>
    /\ plan # Nothing
    /\ admission.active <= ParallelismCap(plan.intent.parallelism, Content[plan.contract].max)

\* The policies of A7 mean the same to both stacks.
PoliciesAgree ==
  /\ \A p \in Tri :
       /\ checkpointProjection(p).usage = CheckpointPolicyProjection(p).usage
       /\ checkpointProjection(p).required = CheckpointPolicyProjection(p).required
       /\ cacheProjection(p).usage = CachePolicyProjection(p).usage
       /\ cacheProjection(p).required = CachePolicyProjection(p).required
  /\ \A p \in Localities :
       /\ localityProjection(p).colocate
            <=> DataLocalityProjection(p).placement = "INPUT_SET_COLOCATION_REQUIRED"
       /\ localityProjection(p).egress
            <=> DataLocalityProjection(p).egress = "RESTRICTED_FAIL_CLOSED"

\* Where the two stacks agree, and where they do not: a document of A4 to A6 that
\* Pilote has built of the plan's intent is one the Runtime's own consumer binds to
\* that plan, and so is the verifier policy of that intent exactly when its id is
\* one the published schema allows (Pilote builds longer ones, which the Runtime
\* refuses).  No document is refused for fields that Pilote accepts, and the other
\* rules both have a translation of are one rule: the policies of A7, the end of an
\* execution, the execution of legacy tasks.
StacksAgree ==
  /\ PoliciesAgree
  /\ FieldsAgree
  /\ TerminalRulesAgree
  /\ LegacyRulesAgree
  /\ plan # Nothing =>
       /\ \A d \in A4Documents :
            d.intent = plan.intent => BindingA4(d.contract, d.intent, plan, d)
       /\ \A d \in A5Documents :
            d.intent = plan.intent => BindingA5(d.contract, d.intent, plan, d)
       /\ \A d \in A6Documents :
            d.intent = plan.intent =>
              /\ BindingA6(d, plan, [contract |-> d.contract, intent |-> d.intent, max |-> d.max])
              /\ RuntimeClasses(d.class) = RequiredClasses(d.class)
       /\ VerifierBound(plan.intent, plan.verifier) /\ plan.mode = plan.verifier.mode
            => (BindingA3(plan.intent, plan.verifier, plan)
                  <=> plan.verifier.idLength \in PublishedIdLengths)
=============================================================================
