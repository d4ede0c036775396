------------------------- MODULE TerminalSemantics -------------------------
(***************************************************************************)
(* When an execution has ended, as both stacks say it.  Pilote's binding   *)
(* (src/pilote/rev51/execution-terminal-semantic-binding-v1) divides the   *)
(* states of an execution into terminal and others; the Runtime's consumer *)
(* (src/runtime/rev51/pilote-execution-terminal-semantic-consumer-v1) has  *)
(* lists of its own, and builds the evidence that SessionTerminal binds to *)
(* a session.                                                              *)
(*                                                                         *)
(* The names are the ones of each source.  Types, versions, schema and     *)
(* contract references are the same in every document and left out.        *)
(***************************************************************************)
EXTENDS Integers

(* Pilote. *)

EXECUTION_STATES ==
  {"REQUESTED", "READY", "RUNNING", "SUCCEEDED", "FAILED", "CANCELED", "EXPIRED",
   "OUTCOME_UNKNOWN"}
EXECUTION_TERMINAL_STATES == {"SUCCEEDED", "FAILED", "CANCELED", "EXPIRED"}
EXECUTION_NON_TERMINAL_STATES == {"REQUESTED", "READY", "RUNNING", "OUTCOME_UNKNOWN"}

\* The document Pilote seals.
TerminalBinding ==
  [states         |-> EXECUTION_STATES,
   terminal       |-> EXECUTION_TERMINAL_STATES,
   nonTerminal    |-> EXECUTION_NON_TERMINAL_STATES,
   flag           |-> "EXECUTION_TERMINAL",
   outcomeUnknown |-> "NON_TERMINAL_RECONCILIATION_REQUIRED",
   acceptance     |-> "NO_ACCEPTANCE_IMPLICATION",
   evidence       |-> "AUTHORITATIVE_RUNTIME_EVIDENCE_REQUIRED",
   mutation       |-> "DENY"]

\* The terminal states and the others are a partition.
ValidTerminalBinding(b) ==
  /\ b.states = EXECUTION_STATES
  /\ b.terminal = EXECUTION_TERMINAL_STATES
  /\ b.nonTerminal = EXECUTION_NON_TERMINAL_STATES
  /\ b.terminal \cup b.nonTerminal = EXECUTION_STATES
  /\ b.terminal \cap b.nonTerminal = {}
  /\ b.flag = "EXECUTION_TERMINAL"
  /\ b.outcomeUnknown = "NON_TERMINAL_RECONCILIATION_REQUIRED"
  /\ b.acceptance = "NO_ACCEPTANCE_IMPLICATION"
  /\ b.evidence = "AUTHORITATIVE_RUNTIME_EVIDENCE_REQUIRED"
  /\ b.mutation = "DENY"

\* deriveExecutionTerminalProjectionV1
TerminalProjection(state) ==
  [terminal |-> state \in EXECUTION_TERMINAL_STATES, reconcile |-> state = "OUTCOME_UNKNOWN",
   accepted |-> FALSE, evidence |-> TRUE]

-----------------------------------------------------------------------------
(* The Runtime. *)

A5T_EXECUTION_STATES ==
  {"REQUESTED", "READY", "RUNNING", "SUCCEEDED", "FAILED", "CANCELED", "EXPIRED",
   "OUTCOME_UNKNOWN"}
A5T_TERMINAL_STATES == {"SUCCEEDED", "FAILED", "CANCELED", "EXPIRED"}
A5T_NON_TERMINAL_STATES == {"REQUESTED", "READY", "RUNNING", "OUTCOME_UNKNOWN"}
RESOURCE_STATES == {"NOT_ALLOCATED", "ALLOCATED", "CLEANUP_PENDING", "CLEANED", "CLEANUP_FAILED",
                    "UNKNOWN"}
BILLING_STATES == {"NOT_APPLICABLE", "ACTIVE", "STOP_REQUESTED", "STOPPED", "UNKNOWN"}
PROVIDER_OPERATION_STATES == {"PENDING", "SUCCEEDED", "FAILED", "OUTCOME_UNKNOWN"}

\* The loss of chat, phone or terminal has no effect on an execution.
ValidStatus(s) ==
  /\ s.execution \in A5T_EXECUTION_STATES
  /\ s.resource \in RESOURCE_STATES
  /\ s.billing \in BILLING_STATES
  /\ s.operation \in PROVIDER_OPERATION_STATES
  /\ s.disconnects = {"NO_EFFECT"}

\* deriveA5TExecutionTerminalProjectionV1
A5TProjection(state) ==
  [terminal |-> state \in A5T_TERMINAL_STATES, reconcile |-> state = "OUTCOME_UNKNOWN",
   accepted |-> FALSE, evidence |-> TRUE]

\* The parts of evidence that are not merely of some form: the session it names,
\* the status, and what the builder adds.
BuiltEvidence(session, status) ==
  [session |-> session, status |-> status,
   reconcile |-> A5TProjection(status.execution).reconcile, accepted |-> FALSE]

ValidEvidence(e) ==
  /\ ValidStatus(e.status)
  /\ e.status.session = e.session
  /\ e.reconcile = A5TProjection(e.status.execution).reconcile
  /\ e.accepted = FALSE

\* What bindA5TExecutionTerminalToSessionV1 asks of the evidence itself.
EvidenceOfEnd(e) ==
  /\ ValidEvidence(e)
  /\ A5TProjection(e.status.execution).terminal

-----------------------------------------------------------------------------
\* Statuses that callers may submit, well-formed or not.
Statuses ==
  [session : {"s", "other"}, execution : EXECUTION_STATES \cup {"ACCEPTED"},
   resource : {"CLEANED", "LOST"}, billing : {"STOPPED", "LOST"},
   operation : {"OUTCOME_UNKNOWN", "LOST"}, disconnects : {{"NO_EFFECT"}, {"NO_EFFECT", "LOST"}}]
Evidences ==
  [session : {"s"}, status : Statuses, reconcile : BOOLEAN, accepted : BOOLEAN]

\* Pilote's binding is one its validator accepts; the Runtime projects every
\* state as Pilote does; it accepts the evidence it builds of a valid status of
\* the session; and evidence that ends a session, whoever wrote it, is of a state
\* that is terminal for Pilote, asks for no reconciliation and implies no
\* acceptance.
TerminalRulesAgree ==
  /\ ValidTerminalBinding(TerminalBinding)
  /\ A5T_EXECUTION_STATES = TerminalBinding.states
  /\ A5T_NON_TERMINAL_STATES = TerminalBinding.nonTerminal
  /\ \A s \in EXECUTION_STATES : A5TProjection(s) = TerminalProjection(s)
  /\ \A s \in Statuses :
       ValidStatus(s) => (ValidEvidence(BuiltEvidence("s", s)) <=> s.session = "s")
  /\ \A e \in Evidences :
       EvidenceOfEnd(e) =>
         /\ TerminalProjection(e.status.execution).terminal
         /\ ~e.reconcile
         /\ ~e.accepted
=============================================================================
