--------------------------- MODULE SessionTerminal ---------------------------
(***************************************************************************)
(* How a one-shot session comes to its end: one-shot-execution-session-v1, *)
(* the four modules that bind evidence of other stores to it, and          *)
(* durable-session-closure-seal-v1.                                        *)
(*                                                                         *)
(*   op          reads                        sets                         *)
(*   execution   the execution state's fence  EXECUTION_TERMINAL           *)
(*   receipt     the acceptance record        RECEIPT_TERMINAL             *)
(*   billing     the settlement store         BILLING_STATUS = "STOPPED"   *)
(*   provider    the provider saga            EXECUTION_TRANSPORT_-        *)
(*                                            DEREGISTERED and REQUIRED_-  *)
(*                                            RESOURCE_CLEANUP_TERMINAL    *)
(*   disconnect  nothing                      a counter                    *)
(*                                                                         *)
(* Each reads its store and the session without a lock, decides, and then  *)
(* runs the session's compare-and-swap, which is one step under the        *)
(* session's lock (DurableStore).  What the stores promise is taken from   *)
(* the modules that model them; here they are what a binder reads.         *)
(* Whoever uses the exported recordOneShotSessionProgressV1 without one of *)
(* the binders is outside the model, as it is outside src/runtime.         *)
(***************************************************************************)
EXTENDS Integers

CONSTANTS Callers,
          MaxFence,   \* bound on the execution's fence
          MaxEvents,  \* bound on the session's STATE_VERSION
          None

ASSUME TerminalAssumption ==
  /\ MaxFence \in Nat \ {0}
  /\ MaxEvents \in Nat

VARIABLES fence,        \* of the execution state
          accepted,     \* fence of the acceptance record
          settled,      \* fence of the settlement of the session's reservation
          saga,         \* "RUNNING", or BILLING_STATUS of the complete saga
          flags,        \* the session's terminal flags that are true
          billing,      \* the session's BILLING_STATUS
          version,      \* the session's STATE_VERSION
          events,       \* per op, its events in the session's ledger
          seal,         \* the closure seal
          pc, request,  \* per caller, its step and what it asks for
          seen,         \* per caller, the evidence it read
          applied       \* per caller, its key is in IDEMPOTENCY_INDEX

evidence == <<fence, accepted, settled, saga>>
session == <<flags, billing, version, events>>
callers == <<pc, request, seen, applied>>
vars == <<evidence, session, seal, callers>>

TERMINAL_FLAGS == {"EXECUTION_TERMINAL", "RECEIPT_TERMINAL",
                   "EXECUTION_TRANSPORT_DEREGISTERED", "REQUIRED_RESOURCE_CLEANUP_TERMINAL"}
Ops == {"execution", "receipt", "billing", "provider", "disconnect"}
Binders == Ops \ {"disconnect"}
TerminalBilling == {"STOPPED", "NOT_APPLICABLE"}
Fences == 1 .. MaxFence
Requests == [op : Ops, expected : Nat]

\* The parts of a seal that validateSeal constrains.
Seals == [version : Nat, flags : {TERMINAL_FLAGS}, billing : TerminalBilling]

Evidence == [fence : Fences \cup {None}, saga : TerminalBilling \cup {"RUNNING", None}]
NoEvidence == [fence |-> None, saga |-> None]

ASSUME NoneAssumption ==
  /\ None \notin Fences \cup Requests \cup Seals
  /\ None \notin TerminalBilling \cup {"RUNNING", "ACTIVE"}

\* The session is bound to the first fence and keeps it.
FENCE_TOKEN == 1

\* isSessionCompleteV1, and so SESSION_STATUS.
Complete == flags = TERMINAL_FLAGS /\ billing \in TerminalBilling

\* What a binder sets of the session's flags; billing and disconnect set none.
ExecutionFlags == {"EXECUTION_TERMINAL"}
ReceiptFlags == {"RECEIPT_TERMINAL"}
ProviderFlags == {"EXECUTION_TRANSPORT_DEREGISTERED", "REQUIRED_RESOURCE_CLEANUP_TERMINAL"}

FlagsOf(op) ==
  CASE op = "execution" -> ExecutionFlags
    [] op = "receipt" -> ReceiptFlags
    [] op = "provider" -> ProviderFlags
    [] OTHER -> {}

-----------------------------------------------------------------------------
Init ==
  /\ fence = FENCE_TOKEN
  /\ accepted = None
  /\ settled = None
  /\ saga = "RUNNING"
  /\ flags = {}
  /\ billing \in TerminalBilling \cup {"ACTIVE"}
  /\ version = 0
  /\ events = [op \in Ops |-> 0]
  /\ seal = None
  /\ pc = [c \in Callers |-> "idle"]
  /\ request = [c \in Callers |-> None]
  /\ seen = [c \in Callers |-> NoEvidence]
  /\ applied = [c \in Callers |-> FALSE]

(* The stores the evidence comes from. *)

\* A trust reset or a new lease (ExecutionState).
AdvanceFence ==
  /\ fence < MaxFence
  /\ fence' = fence + 1
  /\ UNCHANGED <<accepted, settled, saga, session, seal, callers>>

\* commitDurableResultAcceptanceV1, under the lock of the execution state: one
\* record for good, and it holds the fence of its time.
Accept ==
  /\ accepted = None
  /\ accepted' = fence
  /\ UNCHANGED <<fence, settled, saga, session, seal, callers>>

\* settleReservationUsageV1 of the session's reservation, with the fence it was
\* reserved under.  Settlements of others only make a binder's request stale.
Settle ==
  /\ settled = None
  /\ settled' \in 1 .. fence
  /\ UNCHANGED <<fence, accepted, saga, session, seal, callers>>

\* The saga passes its last phase; what a complete saga projects does not change
\* (ProjectionNeverReverts).
CompleteSaga ==
  /\ saga = "RUNNING"
  /\ saga' \in TerminalBilling
  /\ UNCHANGED <<fence, accepted, settled, session, seal, callers>>

(* The binders. *)

\* A caller prepares a request with the version it knows.
Begin(c, op) ==
  /\ pc[c] = "idle"
  /\ pc' = [pc EXCEPT ![c] = IF op = "disconnect" THEN "cas" ELSE "read"]
  /\ request' = [request EXCEPT ![c] = [op |-> op, expected |-> version]]
  /\ UNCHANGED <<evidence, session, seal, seen, applied>>

\* readDurableExecutionStateV1, readDurableResultAcceptanceV1,
\* readDurableReservationSettlementV1 or readProviderBootstrapSagaV1.  That the
\* request names another version or event of that store is among the refusals.
ReadEvidence(c) ==
  LET op == request[c].op IN
  /\ pc[c] = "read"
  /\ seen' = [seen EXCEPT ![c] =
       [fence |-> CASE op = "execution" -> fence
                    [] op = "receipt" -> accepted
                    [] op = "billing" -> settled
                    [] OTHER -> None,
        saga |-> IF op = "provider" THEN saga ELSE None]]
  /\ pc' = [pc EXCEPT ![c] = "check"]
  /\ UNCHANGED <<evidence, session, seal, request, applied>>

\* validateSessionAgainstDurableExecutionStateV1: epoch, attempt, lease and token,
\* which FenceOrder makes one.
SessionCurrent(e) == e.fence = FENCE_TOKEN

\* The state the evidence document was built from is the one that was read, and
\* the session is of its fence.
ExecutionBound(e) == SessionCurrent(e)

\* assertAcceptanceSessionBinding: both the record and the receipt in it name the
\* session's attempt and token.
AcceptanceBound(e) == e.fence = FENCE_TOKEN

\* assertSettlementSessionBinding: the session's reservation was settled, by one
\* event, under the session's token.
SettlementBound(e) == e.fence = FENCE_TOKEN

\* assertSagaSessionBinding: the saga is complete and has the session's billing.
SagaBound(e) == e.saga # "RUNNING" /\ e.saga = billing

\* Faulty variant: evidence of any fence will do.
BoundToAny(op, e) == IF op = "provider" THEN SagaBound(e) ELSE e.fence # None

\* Faulty variant: the provider's billing status is not compared.
BoundUnbilled(op, e) ==
  CASE op = "execution" -> ExecutionBound(e)
    [] op = "receipt" -> AcceptanceBound(e)
    [] op = "billing" -> SettlementBound(e)
    [] op = "provider" -> e.saga # "RUNNING"

\* The evidence is bound to this session.
Bound(op, e) ==
  CASE op = "execution" -> ExecutionBound(e)
    [] op = "receipt" -> AcceptanceBound(e)
    [] op = "billing" -> SettlementBound(e)
    [] op = "provider" -> SagaBound(e)

\* Nobody bound such evidence before.
Unbound(op) ==
  IF op = "billing" THEN billing = "ACTIVE" ELSE ~ FlagsOf(op) \subseteq flags

\* validateSession, at every read and before every write.  The last event's
\* sequence number is the length of the ledger; the first event opened it.
ValidSession ==
  /\ flags \subseteq TERMINAL_FLAGS
  /\ billing \in TerminalBilling \cup {"ACTIVE"}
  /\ version = events["execution"] + events["receipt"] + events["billing"]
               + events["provider"] + events["disconnect"]

\* readOneShotExecutionSessionV1 and the decision.
CheckSession(c) ==
  LET op == request[c].op IN
  /\ pc[c] = "check"
  /\ ValidSession
  /\ Bound(op, seen[c])
  /\ Unbound(op) \/ applied[c]
  /\ pc' = [pc EXCEPT ![c] = "cas"]
  /\ seen' = [seen EXCEPT ![c] = NoEvidence]
  /\ UNCHANGED <<evidence, session, seal, request, applied>>

\* Faulty variant: the version is not compared.
CasAllowedAnyVersion(r) == ~Complete

\* Faulty variant: a complete session takes further events.
CasAllowedComplete(r) == r.expected = version

\* applySessionCas.
CasAllowed(r) == ~Complete /\ r.expected = version

\* recordOneShotSessionProgressV1, recordSessionClientDisconnectV1: the flags, and
\* assertBillingTransition.
Progress(op) ==
  /\ flags' = flags \cup FlagsOf(op)
  /\ op = "billing" => billing \in {"ACTIVE", "STOPPED"}
  /\ billing' = IF op = "billing" THEN "STOPPED" ELSE billing

Cas(c) ==
  LET r == request[c] IN
  /\ pc[c] = "cas"
  /\ ValidSession
  /\ \/ /\ applied[c]
        /\ UNCHANGED <<session, applied>>
     \/ /\ ~applied[c]
        /\ version < MaxEvents
        /\ CasAllowed(r)
        /\ Progress(r.op)
        /\ version' = version + 1
        /\ events' = [events EXCEPT ![r.op] = events[r.op] + 1]
        /\ applied' = [applied EXCEPT ![c] = TRUE]
  /\ pc' = [pc EXCEPT ![c] = "done"]
  /\ UNCHANGED <<evidence, seal, request, seen>>

\* Any step may throw: a guard above is false, a lock is taken, a key is in use.
Refuse(c) ==
  /\ pc[c] \in {"read", "check", "cas"}
  /\ pc' = [pc EXCEPT ![c] = "done"]
  /\ seen' = [seen EXCEPT ![c] = NoEvidence]
  /\ UNCHANGED <<evidence, session, seal, request, applied>>

\* The caller repeats its request, or, after a crash too, prepares another one.
Retry(c) ==
  /\ pc[c] = "done"
  /\ pc' = [pc EXCEPT ![c] = IF request[c].op = "disconnect" THEN "cas" ELSE "read"]
  /\ UNCHANGED <<evidence, session, seal, request, seen, applied>>

Abandon(c) ==
  /\ pc[c] # "idle"
  /\ pc' = [pc EXCEPT ![c] = "idle"]
  /\ request' = [request EXCEPT ![c] = None]
  /\ seen' = [seen EXCEPT ![c] = NoEvidence]
  /\ applied' = [applied EXCEPT ![c] = FALSE]
  /\ UNCHANGED <<evidence, session, seal>>

(* The closure seal. *)

Snapshot == [version |-> version, flags |-> flags, billing |-> billing]

\* assertCompleteSession; the last event's hash stands and falls with the version.
Sealable(expected) == Complete /\ expected = version

\* Faulty variant: a finalizing session can be sealed.
CommitSealFinalizing(expected) ==
  /\ ValidSession
  /\ "EXECUTION_TERMINAL" \in flags
  /\ expected = version
  /\ seal = None
  /\ seal' = Snapshot
  /\ UNCHANGED <<evidence, session, callers>>

\* commitDurableSessionClosureSealV1, under the session's lock and the seal's.  A
\* replay returns the seal that is there, or finds SealIsOfThisSession broken.
CommitSeal(expected) ==
  /\ ValidSession
  /\ Sealable(expected)
  /\ seal = None
  /\ seal' = Snapshot
  /\ UNCHANGED <<evidence, session, callers>>

Next ==
  \/ AdvanceFence
  \/ Accept
  \/ Settle
  \/ CompleteSaga
  \/ \E c \in Callers :
       \/ \E op \in Ops : Begin(c, op)
       \/ ReadEvidence(c)
       \/ CheckSession(c)
       \/ Cas(c)
       \/ Refuse(c)
       \/ Retry(c)
       \/ Abandon(c)
  \/ \E expected \in 0 .. MaxEvents : CommitSeal(expected)

Spec == Init /\ [][Next]_vars

-----------------------------------------------------------------------------
(* Properties. *)

\* Every variable has its type; validateSeal accepts every seal that is written.
TypeOK ==
  /\ fence \in Fences
  /\ accepted \in Fences \cup {None}
  /\ settled \in Fences \cup {None}
  /\ saga \in TerminalBilling \cup {"RUNNING"}
  /\ flags \in SUBSET TERMINAL_FLAGS
  /\ billing \in TerminalBilling \cup {"ACTIVE"}
  /\ version \in 0 .. MaxEvents
  /\ events \in [Ops -> Nat]
  /\ seal \in Seals \cup {None}
  /\ pc \in [Callers -> {"idle", "read", "check", "cas", "done"}]
  /\ request \in [Callers -> Requests \cup {None}]
  /\ seen \in [Callers -> Evidence]
  /\ applied \in [Callers -> BOOLEAN]

\* However the binders of several callers interleave with trust resets, a
\* complete session has its evidence: buildAuthoritativeGcInputV1 finds the
\* acceptance under the session's fence, a complete saga, and the billing
\* status of the saga in the session (assertCrossBindings); and whoever stopped
\* the billing saw the settlement of the session's own reservation.
CompleteHasEvidence ==
  Complete =>
    /\ accepted = FENCE_TOKEN
    /\ saga = billing
    /\ events["billing"] > 0 => settled = FENCE_TOKEN

\* The replay of a seal never finds another session than the sealed one
\* (SESSION_CLOSURE_SEAL_REPLAY_SESSION_SNAPSHOT_MISMATCH): no call that was
\* under way, and none made later, changes the session after it was sealed.
SealIsOfThisSession == seal # None => seal = Snapshot

\* "a different key after RECEIPT_TERMINAL=true -> denied" (R51_P2T), and the
\* same of the other binders: of all the callers that found the flag unset, one
\* binds it, and the ledger tells which evidence is bound.
BoundOnce ==
  \A op \in Binders :
    \/ events[op] = 0 /\ FlagsOf(op) \cap flags = {}
    \/ events[op] = 1 /\ FlagsOf(op) \subseteq flags /\ (op = "billing" => billing = "STOPPED")

\* The provider's end is bound after the end of billing, and with its status,
\* so the two never disagree later.
ProviderAfterBilling ==
  "REQUIRED_RESOURCE_CLEANUP_TERMINAL" \in flags => billing = saga
=============================================================================
