-------------------------- MODULE PiloteSemantics --------------------------
(***************************************************************************)
(* The documents in which Pilote states the meaning of a task              *)
(* (src/pilote/rev51): the execution intent (A2), the verifier policy (A3) *)
(* and the intents for approval and effects (A4), capabilities, resources  *)
(* and security (A5), parallelism and execution class (A6), checkpoint,    *)
(* cache and data locality (A7).  Each is built from a revision of the     *)
(* task contract and an execution intent, and names both by their hash.    *)
(*                                                                         *)
(* A hash stands for the document it is taken of: documents are equal      *)
(* exactly when their hashes are, so a field that holds the hash of a      *)
(* document holds the document.  Fields that are checked alike are one     *)
(* field: effect classes and scope are refs, resource intent and security  *)
(* requirement are resources (an isolation class and a minimum), and of    *)
(* the id of a verifier policy only the length is kept.  What every        *)
(* document of a type has the same (type, version, contract set, fixed     *)
(* policies) is left out, and so are the identifiers of the task: there is *)
(* one.                                                                    *)
(***************************************************************************)
EXTENDS Integers

CONSTANTS Contracts,   \* TASK_CONTRACT_HASH of each revision of the task contract
          Content,       \* what each revision says
          Options,       \* the options execution intents are built with
          Nothing

Tri == {"NOT_REQUESTED", "ELIGIBLE", "REQUIRED"}
Localities == {"NONE", "COLOCATE_WITH_INPUT_SET", "EGRESS_RESTRICTED"}
Paths == {"RUNTIME_DECIDES", "DIRECT_REMOTE_ALLOWED", "DIRECT_REMOTE_REQUIRED",
          "GITHUB_GATE_REQUIRED"}
Operators == {"ZERO_TOUCH_AFTER_APPROVAL", "RECOVERY_INTERACTION_ALLOWED"}
Parallelisms == {"INHERIT_DAG", "PARALLEL_ALLOWED", "SERIAL_REQUIRED"}
ApprovalModes == {"INHERIT_TASK", "EXPLICIT_HUMAN_APPROVAL", "NO_ADDITIONAL_APPROVAL"}
ExecutionClasses == {"RUNTIME_DEFAULT", "HOSTED_ELIGIBLE", "SELF_HOSTED_REQUIRED",
                     "HOST_LOCAL_REQUIRED"}
Isolations == {"DEFAULT", "ISOLATED", "HIGH_ISOLATION"}
VerifierPolicies == {"RUNTIME_REQUIRED", "PROJECT_CI_REQUIRED", "RUNTIME_PLUS_PROJECT_CI"}

ASSUME SemanticsAssumption ==
  /\ \A c \in Contracts :
       /\ Content[c].exact \in BOOLEAN
       /\ Content[c].class \in ExecutionClasses
       /\ Content[c].max \in 1..1024
  /\ Nothing \notin Contracts

-----------------------------------------------------------------------------
(* A2 and A3. *)

\* A verifier policy, which an execution intent names by id and hash.
VerifierPolicy(mode, acceptance, idLength) ==
  [mode |-> mode, acceptance |-> acceptance, idLength |-> idLength]

\* An id must not be empty; it may be as long as it likes, here and in an intent.
ValidVerifierPolicy(v) == v.mode \in VerifierPolicies /\ v.idLength > 0

\* The lengths the published schema allows the id of a policy (which it counts in
\* characters and the code in UTF-16 units; lengths here are the code's).
PublishedIdLengths == 1..128

\* The boundary of an intent whose options give none.
DefaultBoundary(c) ==
  [mode |-> IF Content[c].exact THEN "EXPLICIT_HUMAN_APPROVAL" ELSE "INHERIT_TASK",
   refs |-> Content[c].refs]

\* A boundary given in the options is taken as it is: nothing compares it with
\* the contract here.
ExecutionIntent(c, o) ==
  [contract     |-> c,
   capabilities |-> Content[c].capabilities,
   boundary     |-> IF o.boundary = Nothing THEN DefaultBoundary(c) ELSE o.boundary,
   path         |-> o.path,
   operator     |-> o.operator,
   resources    |-> o.resources,
   verifier     |-> o.verifier,
   acceptance   |-> o.acceptance,
   dependencies |-> o.dependencies,
   parallelism  |-> o.parallelism,
   policies     |-> o.policies]

ValidIntent(i) ==
  /\ i.contract \in Contracts
  /\ i.boundary.mode \in ApprovalModes
  /\ i.path \in Paths
  /\ i.operator \in Operators
  /\ i.parallelism \in Parallelisms
  /\ i.resources \in [isolation : Isolations, minimum : Nat]
  /\ i.policies \in [checkpoint : Tri, cache : Tri, locality : Localities]

Intents == {i \in {ExecutionIntent(c, o) : c \in Contracts, o \in Options} : ValidIntent(i)}

\* An intent and a policy are one verifier requirement.
VerifierBound(i, v) ==
  /\ ValidVerifierPolicy(v)
  /\ i.verifier = v
  /\ i.acceptance = v.acceptance

-----------------------------------------------------------------------------
(* A4: approval, effects, operator. *)

A4Of(c, i) ==
  [contract |-> c, intent |-> i, mode |-> i.boundary.mode, refs |-> i.boundary.refs,
   exact |-> Content[c].exact, operator |-> i.operator]

ValidA4(d) == d.mode \in ApprovalModes /\ d.operator \in Operators

SemanticA4(c, i, d) ==
  /\ ValidIntent(i)
  /\ ValidA4(d)
  /\ i.contract = c
  /\ d.contract = c
  /\ d.intent = i
  /\ [mode |-> d.mode, refs |-> d.refs] = i.boundary
  /\ d.exact = Content[c].exact
  /\ d.operator = i.operator
  /\ d.refs \subseteq Content[c].refs
  /\ Content[c].exact => d.mode = "EXPLICIT_HUMAN_APPROVAL"
  /\ d.mode = "EXPLICIT_HUMAN_APPROVAL" => d.refs # {}

\* What the builder returns: it refuses an intent of another contract, and
\* what it has built if that does not bind.
A4Documents ==
  {d \in {A4Of(i.contract, i) : i \in Intents} : SemanticA4(d.contract, d.intent, d)}

-----------------------------------------------------------------------------
(* A5: capabilities, resources, security. *)

A5Of(c, i) ==
  [contract |-> c, intent |-> i, capabilities |-> i.capabilities, resources |-> i.resources]

\* The isolation classes are those of the execution intent: A5 has none of its own.
ValidA5(d) == d.resources.minimum \in Nat

SemanticA5(c, i, d) ==
  /\ ValidIntent(i)
  /\ ValidA5(d)
  /\ i.contract = c
  /\ d.contract = c
  /\ d.intent = i
  /\ d.capabilities = Content[c].capabilities
  /\ d.capabilities = i.capabilities
  /\ d.resources = i.resources

A5Documents ==
  {d \in {A5Of(i.contract, i) : i \in Intents} : SemanticA5(d.contract, d.intent, d)}

-----------------------------------------------------------------------------
(* A6: parallelism and execution class. *)

\* EFFECTIVE_PARALLELISM_CAP
ParallelismCap(parallelism, max) == IF parallelism = "SERIAL_REQUIRED" THEN 1 ELSE max

\* The classes that realize an execution class.
RequiredClasses(class) ==
  CASE class = "SELF_HOSTED_REQUIRED" -> {"SELF_HOSTED"}
    [] class = "HOST_LOCAL_REQUIRED" -> {"HOST_LOCAL"}
    [] OTHER -> {"HOSTED", "SELF_HOSTED", "HOST_LOCAL"}

A6Of(c, i) ==
  [contract |-> c, intent |-> i, class |-> Content[c].class, parallelism |-> i.parallelism,
   dependencies |-> i.dependencies, max |-> Content[c].max,
   cap |-> ParallelismCap(i.parallelism, Content[c].max)]

ValidA6(d) ==
  /\ d.class \in ExecutionClasses
  /\ d.parallelism \in Parallelisms
  /\ d.max \in 1..1024
  /\ d.cap = ParallelismCap(d.parallelism, d.max)

SemanticA6(c, i, d) ==
  /\ ValidIntent(i)
  /\ ValidA6(d)
  /\ i.contract = c
  /\ d.contract = c
  /\ d.intent = i
  /\ d.class = Content[c].class
  /\ d.parallelism = i.parallelism
  /\ d.dependencies = i.dependencies
  /\ d.max = Content[c].max

A6Documents ==
  {d \in {A6Of(i.contract, i) : i \in Intents} : SemanticA6(d.contract, d.intent, d)}

-----------------------------------------------------------------------------
(* A7: checkpoint, cache, data locality. *)

\* What a policy makes of its mechanism.
Usage(policy) ==
  CASE policy = "NOT_REQUESTED" -> "DISABLED"
    [] policy = "ELIGIBLE" -> "OPTIONAL"
    [] OTHER -> "REQUIRED"

CheckpointPolicyProjection(policy) ==
  [usage |-> Usage(policy), required |-> policy = "REQUIRED", resume |-> policy # "NOT_REQUESTED"]

CachePolicyProjection(policy) ==
  [usage |-> Usage(policy), required |-> policy = "REQUIRED", reuse |-> policy # "NOT_REQUESTED"]

DataLocalityProjection(policy) ==
  [placement |-> CASE policy = "COLOCATE_WITH_INPUT_SET" -> "INPUT_SET_COLOCATION_REQUIRED"
                   [] policy = "EGRESS_RESTRICTED" -> "RUNTIME_DECIDES_WITHIN_SECURITY_BOUNDARY"
                   [] OTHER -> "NONE_ADDITIONAL",
   egress    |-> IF policy = "EGRESS_RESTRICTED" THEN "RESTRICTED_FAIL_CLOSED"
                 ELSE "INHERIT_SECURITY_REQUIREMENTS"]

A7Of(c, i) == [contract |-> c, intent |-> i, policies |-> i.policies]

ValidA7(d) == d.policies \in [checkpoint : Tri, cache : Tri, locality : Localities]

SemanticA7(c, i, d) ==
  /\ ValidIntent(i)
  /\ ValidA7(d)
  /\ i.contract = c
  /\ d.contract = c
  /\ d.intent = i
  /\ d.policies = i.policies

A7Documents ==
  {d \in {A7Of(i.contract, i) : i \in Intents} : SemanticA7(d.contract, d.intent, d)}
=============================================================================
