------------------------- MODULE MCSemanticBinding -------------------------
(***************************************************************************)
(* Two revisions of the contract: the first wants an exact approval and    *)
(* allows more; the second narrows effects, capabilities, parallelism and  *)
(* the class.  Intents with the default boundary, with one that the second *)
(* revision does not allow, and with a serial one; verifier policies with  *)
(* an id of the greatest length the Runtime takes, a shorter and a longer. *)
(***************************************************************************)
EXTENDS SemanticBinding

CONSTANTS c1, c2

MCContent ==
  [c \in {c1, c2} |->
     IF c = c1 THEN [exact |-> TRUE, refs |-> {"e1", "e2"}, capabilities |-> {"p1", "p2"},
                     class |-> "RUNTIME_DEFAULT", max |-> 2]
     ELSE [exact |-> FALSE, refs |-> {"e1"}, capabilities |-> {"p1"},
           class |-> "SELF_HOSTED_REQUIRED", max |-> 1]]

MCLimits == {{}, {1}}

Policy(checkpoint, locality) ==
  [checkpoint |-> checkpoint, cache |-> "ELIGIBLE", locality |-> locality]

v1 == VerifierPolicy("RUNTIME_REQUIRED", "acceptance", 128)
v2 == VerifierPolicy("RUNTIME_PLUS_PROJECT_CI", "acceptance", 32)
v3 == VerifierPolicy("RUNTIME_REQUIRED", "acceptance", 129)

MCOptions ==
  {[boundary |-> Nothing, path |-> "RUNTIME_DECIDES", operator |-> "ZERO_TOUCH_AFTER_APPROVAL",
    resources |-> [isolation |-> "DEFAULT", minimum |-> 0], verifier |-> v1,
    acceptance |-> "acceptance", dependencies |-> <<"d1">>, parallelism |-> "INHERIT_DAG",
    policies |-> Policy("NOT_REQUESTED", "NONE")],
   [boundary |-> [mode |-> "INHERIT_TASK", refs |-> {"e1", "e2"}], path |-> "GITHUB_GATE_REQUIRED",
    operator |-> "ZERO_TOUCH_AFTER_APPROVAL",
    resources |-> [isolation |-> "ISOLATED", minimum |-> 1], verifier |-> v2,
    acceptance |-> "other", dependencies |-> <<"d1">>, parallelism |-> "PARALLEL_ALLOWED",
    policies |-> Policy("REQUIRED", "EGRESS_RESTRICTED")],
   [boundary |-> [mode |-> "EXPLICIT_HUMAN_APPROVAL", refs |-> {"e1"}],
    path |-> "DIRECT_REMOTE_REQUIRED", operator |-> "RECOVERY_INTERACTION_ALLOWED",
    resources |-> [isolation |-> "DEFAULT", minimum |-> 0], verifier |-> v3,
    acceptance |-> "acceptance", dependencies |-> <<"d1", "d2">>, parallelism |-> "SERIAL_REQUIRED",
    policies |-> Policy("ELIGIBLE", "COLOCATE_WITH_INPUT_SET")]}
=============================================================================
