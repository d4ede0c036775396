----------------------------- MODULE BindingProofs -----------------------------
(***************************************************************************)
(* What a document may be bound to: the stores' evidence to a session that *)
(* is being closed (SessionTerminal), and what Pilote states of a task to  *)
(* the plan the Runtime executes (SemanticBinding).  The safety properties *)
(* of both, for any number of callers, fences, events, contracts, intents  *)
(* and limits.                                                             *)
(*                                                                         *)
(* A binder decides before it takes the session's lock.  What carries its  *)
(* decision to the compare-and-swap is that acceptance, settlement and a   *)
(* complete saga never change, and that a request whose version is still   *)
(* the session's was prepared, read and decided in that very version.      *)
(*                                                                         *)
(* The admission gate decides on a copy of the admission store.  What      *)
(* carries its decision to the reservations is that every reservation and  *)
(* every release is a version: a decision on the version the store is      *)
(* still at has room for all that it allowed and is not reserved yet.      *)
(*                                                                         *)
(* That the two stacks agree needs no invariant but the type of the plan.  *)
(* Its rules are proved of every document, evidence, registry and legacy   *)
(* execution, not only of those that the modules enumerate.                *)
(***************************************************************************)
EXTENDS SessionTerminal, SemanticBinding, FiniteSetTheorems, WellFoundedInduction, TLAPS

-----------------------------------------------------------------------------
(* SessionTerminal. *)

USE TerminalAssumption, NoneAssumption

\* A call under way has a request of a version the session has or had.
RequestInv ==
  \A c \in Callers :
    /\ pc[c] # "idle" => request[c] \in Requests /\ request[c].expected <= version
    /\ pc[c] \in {"read", "check"} => request[c].op \in Binders

\* Evidence that was read and binds the session is still what the stores hold.
SeenInv ==
  \A c \in Callers :
    pc[c] = "check" =>
      /\ request[c].op = "receipt" /\ seen[c].fence = FENCE_TOKEN => accepted = FENCE_TOKEN
      /\ request[c].op = "billing" /\ seen[c].fence = FENCE_TOKEN => settled = FENCE_TOKEN
      /\ request[c].op = "provider" /\ seen[c].saga \in TerminalBilling => saga = seen[c].saga

\* What a binder decided holds in the version its request names.
DecidedInv ==
  \A c \in Callers :
    LET op == request[c].op IN
    pc[c] = "cas" /\ op \in Binders /\ ~applied[c] =>
      /\ op = "receipt" => accepted = FENCE_TOKEN
      /\ op = "billing" => settled = FENCE_TOKEN
      /\ request[c].expected = version => Unbound(op)
      /\ op = "provider" /\ request[c].expected = version => saga = billing

\* The flags of the session have their evidence.
EvidenceInv ==
  /\ "RECEIPT_TERMINAL" \in flags => accepted = FENCE_TOKEN
  /\ "REQUIRED_RESOURCE_CLEANUP_TERMINAL" \in flags => saga = billing
  /\ events["billing"] > 0 => settled = FENCE_TOKEN

SealInv == seal # None => seal = Snapshot /\ Complete

IInv == TypeOK /\ RequestInv /\ SeenInv /\ DecidedInv /\ EvidenceInv /\ BoundOnce /\ SealInv

-----------------------------------------------------------------------------
LEMMA FirstFence == FENCE_TOKEN \in Fences
BY DEF FENCE_TOKEN, Fences

LEMMA FlagsOfType == \A op \in Ops : FlagsOf(op) \subseteq TERMINAL_FLAGS
BY DEF FlagsOf, ExecutionFlags, ReceiptFlags, ProviderFlags, TERMINAL_FLAGS, Ops

LEMMA InitInv == Init => IInv
<1>. SUFFICES ASSUME Init  PROVE IInv
  OBVIOUS
<1>1. TypeOK
  BY FirstFence DEF Init, TypeOK, Evidence, NoEvidence
<1>2. BoundOnce
  BY DEF Init, BoundOnce, Binders
<1>3. \A c \in Callers : pc[c] = "idle"
  BY DEF Init
<1>4. RequestInv /\ SeenInv /\ DecidedInv
  BY <1>3 DEF RequestInv, SeenInv, DecidedInv
<1>5. EvidenceInv /\ SealInv
  BY DEF Init, EvidenceInv, SealInv, Ops
<1>. QED  BY <1>1, <1>2, <1>4, <1>5 DEF IInv

\* The stores only gain evidence.
LEMMA EvidenceStep ==
  ASSUME IInv, AdvanceFence \/ Accept \/ Settle \/ CompleteSaga
  PROVE  IInv'
<1>1. UNCHANGED <<session, seal, callers>>
  BY DEF AdvanceFence, Accept, Settle, CompleteSaga
<1>2. /\ fence' \in Fences
      /\ accepted' \in Fences \cup {None}
      /\ settled' \in Fences \cup {None}
      /\ saga' \in TerminalBilling \cup {"RUNNING"}
  BY DEF IInv, TypeOK, AdvanceFence, Accept, Settle, CompleteSaga, Fences
<1>3. /\ accepted = FENCE_TOKEN => accepted' = FENCE_TOKEN
      /\ settled = FENCE_TOKEN => settled' = FENCE_TOKEN
      /\ saga \in TerminalBilling \cup {"ACTIVE"} => saga' = saga
  BY FirstFence DEF AdvanceFence, Accept, Settle, CompleteSaga, TerminalBilling
<1>4. TypeOK'
  BY <1>1, <1>2 DEF IInv, TypeOK, session, callers
<1>5. RequestInv' /\ BoundOnce' /\ SealInv'
  BY <1>1 DEF IInv, RequestInv, BoundOnce, SealInv, Snapshot, Complete, session, callers
<1>6. SeenInv'
  BY <1>1, <1>3 DEF IInv, SeenInv, callers
<1>7. billing \in TerminalBilling \cup {"ACTIVE"} /\ billing' = billing
  BY <1>1 DEF IInv, TypeOK, session
<1>8. DecidedInv'
  BY <1>1, <1>3, <1>7 DEF IInv, DecidedInv, Unbound, session, callers
<1>9. EvidenceInv'
  BY <1>1, <1>3, <1>7 DEF IInv, EvidenceInv, session
<1>. QED  BY <1>4, <1>5, <1>6, <1>8, <1>9 DEF IInv

\* A step of a caller that leaves the session alone keeps what is said of it.
LEMMA SessionKept ==
  ASSUME IInv, UNCHANGED <<evidence, session, seal>>
  PROVE  EvidenceInv' /\ BoundOnce' /\ SealInv'
BY DEF IInv, EvidenceInv, BoundOnce, SealInv, Snapshot, Complete, evidence, session

LEMMA BeginStep ==
  ASSUME IInv, NEW c \in Callers, NEW op \in Ops, Begin(c, op)
  PROVE  IInv'
<1>1. UNCHANGED <<evidence, session, seal, seen, applied>>
  BY DEF Begin
<1>2. /\ [op |-> op, expected |-> version] \in Requests
      /\ version <= version
  BY DEF IInv, TypeOK, Requests
<1>3. /\ pc'[c] = IF op = "disconnect" THEN "cas" ELSE "read"
      /\ request'[c] = [op |-> op, expected |-> version]
      /\ \A d \in Callers \ {c} : pc'[d] = pc[d] /\ request'[d] = request[d]
  BY DEF Begin, IInv, TypeOK
<1>4. TypeOK'
  BY <1>1, <1>2 DEF Begin, IInv, TypeOK, evidence, session
<1>5. RequestInv'
  BY <1>1, <1>2, <1>3 DEF IInv, RequestInv, Binders, session
<1>6. SeenInv'
  BY <1>1, <1>3 DEF IInv, SeenInv, evidence
<1>7. DecidedInv'
  BY <1>1, <1>3 DEF IInv, DecidedInv, Unbound, Binders, evidence, session
<1>. QED  BY <1>1, <1>4, <1>5, <1>6, <1>7, SessionKept DEF IInv

LEMMA ReadEvidenceStep ==
  ASSUME IInv, NEW c \in Callers, ReadEvidence(c)
  PROVE  IInv'
<1>. DEFINE op == request[c].op
            e == [fence |-> CASE op = "execution" -> fence
                              [] op = "receipt" -> accepted
                              [] op = "billing" -> settled
                              [] OTHER -> None,
                  saga |-> IF op = "provider" THEN saga ELSE None]
<1>1. /\ UNCHANGED <<evidence, session, seal, request, applied>>
      /\ seen' = [seen EXCEPT ![c] = e]
      /\ pc' = [pc EXCEPT ![c] = "check"]
      /\ pc[c] = "read"
  BY DEF ReadEvidence
<1>2. e \in Evidence
  BY DEF IInv, TypeOK, Evidence
<1>3. /\ op = "receipt" => e.fence = accepted
      /\ op = "billing" => e.fence = settled
      /\ op = "provider" => e.saga = saga
  OBVIOUS
<1>4. op = request[c].op
  OBVIOUS
<1>. HIDE DEF op, e
<1>5. TypeOK'
  BY <1>1, <1>2 DEF IInv, TypeOK, evidence, session
<1>6. /\ pc'[c] = "check" /\ seen'[c] = e
      /\ \A d \in Callers \ {c} : pc'[d] = pc[d] /\ seen'[d] = seen[d]
  BY <1>1 DEF IInv, TypeOK
<1>7. RequestInv'
  BY <1>1, <1>6 DEF IInv, RequestInv, session
<1>8. SeenInv'
  BY <1>1, <1>3, <1>4, <1>6 DEF IInv, SeenInv, evidence
<1>9. DecidedInv'
  BY <1>1, <1>6 DEF IInv, DecidedInv, Unbound, evidence, session
<1>. QED  BY <1>1, <1>5, <1>7, <1>8, <1>9, SessionKept DEF IInv

LEMMA CheckSessionStep ==
  ASSUME IInv, NEW c \in Callers, CheckSession(c)
  PROVE  IInv'
<1>1. /\ UNCHANGED <<evidence, session, seal, request, applied>>
      /\ pc[c] = "check"
      /\ Bound(request[c].op, seen[c])
      /\ Unbound(request[c].op) \/ applied[c]
  BY DEF CheckSession
<1>2. TypeOK'
  BY DEF CheckSession, IInv, TypeOK, evidence, session, Evidence, NoEvidence
<1>3. /\ pc'[c] = "cas"
      /\ \A d \in Callers \ {c} : pc'[d] = pc[d] /\ seen'[d] = seen[d]
  BY DEF CheckSession, IInv, TypeOK
<1>4. RequestInv'
  BY <1>1, <1>3 DEF IInv, RequestInv, session
<1>5. SeenInv'
  BY <1>1, <1>3 DEF IInv, SeenInv, evidence
<1>6. /\ request[c].op = "receipt" => accepted = FENCE_TOKEN
      /\ request[c].op = "billing" => settled = FENCE_TOKEN
  BY <1>1 DEF Bound, AcceptanceBound, SettlementBound, IInv, SeenInv
<1>7. request[c].op = "provider" => saga = billing
  <2>. SUFFICES ASSUME request[c].op = "provider"  PROVE saga = billing
    OBVIOUS
  <2>1. seen[c].saga = billing
    BY <1>1 DEF Bound, SagaBound, ExecutionBound
  <2>2. CASE billing \in TerminalBilling
    BY <1>1, <2>1, <2>2 DEF IInv, SeenInv
  <2>3. CASE billing = "ACTIVE"
    BY <2>1, <2>3 DEF IInv, TypeOK, Evidence, TerminalBilling
  <2>. QED  BY <2>2, <2>3 DEF IInv, TypeOK
<1>8. DecidedInv'
  BY <1>1, <1>3, <1>6, <1>7 DEF IInv, DecidedInv, Unbound, evidence, session
<1>. QED  BY <1>1, <1>2, <1>4, <1>5, <1>8, SessionKept DEF IInv

\* Two ops have no flag in common.
LEMMA FlagsApart ==
  \A op1 \in Ops : \A op2 \in Ops : op1 # op2 => FlagsOf(op1) \cap FlagsOf(op2) = {}
BY DEF FlagsOf, ExecutionFlags, ReceiptFlags, ProviderFlags, Ops

\* The compare-and-swap that is applied: the decision holds in this version, and
\* every other decision is about an earlier one from now on.
LEMMA ApplyStep ==
  ASSUME IInv, NEW c \in Callers, Cas(c), ~applied[c]
  PROVE  IInv'
<1>. DEFINE op == request[c].op
<1>1. /\ UNCHANGED <<evidence, seal, request, seen>>
      /\ pc[c] = "cas"
      /\ version < MaxEvents
      /\ CasAllowed(request[c])
      /\ Progress(op)
      /\ version' = version + 1
      /\ events' = [events EXCEPT ![op] = events[op] + 1]
      /\ applied' = [applied EXCEPT ![c] = TRUE]
      /\ pc' = [pc EXCEPT ![c] = "done"]
  BY DEF Cas
<1>2. request[c] \in Requests /\ op \in Ops
  BY <1>1 DEF IInv, RequestInv, Requests
<1>3. ~Complete /\ request[c].expected = version
  BY <1>1 DEF CasAllowed
<1>4. /\ pc'[c] = "done"
      /\ \A d \in Callers \ {c} : pc'[d] = pc[d] /\ applied'[d] = applied[d]
  BY <1>1 DEF IInv, TypeOK
<1>5. op \in Binders =>
        /\ op = "receipt" => accepted = FENCE_TOKEN
        /\ op = "billing" => settled = FENCE_TOKEN
        /\ Unbound(op)
        /\ op = "provider" => saga = billing
  BY <1>1, <1>3 DEF IInv, DecidedInv
<1>6. /\ flags' = flags \cup FlagsOf(op)
      /\ op = "billing" => billing' = "STOPPED"
      /\ op # "billing" => billing' = billing
  BY <1>1 DEF Progress
<1>7. /\ events'[op] = events[op] + 1
      /\ \A o \in Ops \ {op} : events'[o] = events[o]
      /\ events' \in [Ops -> Nat]
  BY <1>1, <1>2 DEF IInv, TypeOK
<1>. HIDE DEF op
<1>8. TypeOK'
  <2>1. flags' \in SUBSET TERMINAL_FLAGS
    BY <1>2, <1>6, FlagsOfType DEF IInv, TypeOK
  <2>2. billing' \in TerminalBilling \cup {"ACTIVE"}
    BY <1>6 DEF IInv, TypeOK, TerminalBilling
  <2>3. version' \in 0 .. MaxEvents
    BY <1>1 DEF IInv, TypeOK
  <2>4. /\ pc' \in [Callers -> {"idle", "read", "check", "cas", "done"}]
        /\ applied' \in [Callers -> BOOLEAN]
    BY <1>1 DEF IInv, TypeOK
  <2>. QED  BY <1>1, <1>7, <2>1, <2>2, <2>3, <2>4 DEF IInv, TypeOK, evidence
<1>9. RequestInv'
  <2>1. version \in Nat /\ version' = version + 1
    BY <1>1 DEF IInv, TypeOK
  <2>2. \A d \in Callers : request[d] \in Requests => request[d].expected \in Nat
    BY DEF Requests
  <2>. QED  BY <1>1, <1>4, <2>1, <2>2 DEF IInv, RequestInv
<1>10. SeenInv'
  BY <1>1, <1>4 DEF IInv, SeenInv, evidence
<1>11. DecidedInv'
  <2>1. ASSUME NEW d \in Callers \ {c}, pc[d] = "cas"
        PROVE  request[d].expected # version'
    <3>1. request[d].expected \in Nat /\ request[d].expected <= version
      BY <2>1 DEF IInv, RequestInv, Requests
    <3>. QED  BY <1>1, <3>1 DEF IInv, TypeOK
  <2>. QED  BY <1>1, <1>4, <2>1 DEF IInv, DecidedInv, evidence
<1>12. EvidenceInv'
  <2>1. UNCHANGED <<accepted, settled, saga>>
    BY <1>1 DEF evidence
  <2>2. "RECEIPT_TERMINAL" \in flags' => accepted' = FENCE_TOKEN
    BY <1>2, <1>5, <1>6, <2>1 DEF IInv, EvidenceInv,
           FlagsOf, ExecutionFlags, ReceiptFlags, ProviderFlags, Ops, Binders
  <2>3. "REQUIRED_RESOURCE_CLEANUP_TERMINAL" \in flags' => saga' = billing'
    <3>1. CASE op = "billing"
      <4>1. billing = "ACTIVE" /\ flags' = flags
        BY <1>5, <1>6, <3>1 DEF Unbound, Binders, Ops,
               FlagsOf, ExecutionFlags, ReceiptFlags, ProviderFlags
      <4>2. saga # "ACTIVE"
        BY DEF IInv, TypeOK, TerminalBilling
      <4>. QED  BY <4>1, <4>2 DEF IInv, EvidenceInv
    <3>2. CASE op # "billing"
      BY <1>2, <1>5, <1>6, <2>1, <3>2 DEF IInv, EvidenceInv,
             FlagsOf, ExecutionFlags, ReceiptFlags, ProviderFlags, Ops, Binders
    <3>. QED  BY <3>1, <3>2
  <2>4. events'["billing"] > 0 => settled' = FENCE_TOKEN
    <3>1. CASE op = "billing"
      BY <1>5, <2>1, <3>1 DEF Binders, Ops
    <3>2. CASE op # "billing"
      BY <1>7, <2>1, <3>2 DEF IInv, EvidenceInv, Ops
    <3>. QED  BY <3>1, <3>2
  <2>. QED  BY <2>2, <2>3, <2>4 DEF EvidenceInv
<1>13. BoundOnce'
  <2>. SUFFICES ASSUME NEW o \in Binders
                PROVE  \/ events'[o] = 0 /\ FlagsOf(o) \cap flags' = {}
                       \/ /\ events'[o] = 1
                          /\ FlagsOf(o) \subseteq flags'
                          /\ o = "billing" => billing' = "STOPPED"
    BY DEF BoundOnce
  <2>1. CASE o = op
    <3>1. Unbound(o)
      BY <1>5, <2>1
    <3>2. events[o] = 0
      BY <3>1 DEF IInv, BoundOnce, Unbound
    <3>. QED  BY <1>6, <1>7, <2>1, <3>2
  <2>2. CASE o # op
    <3>1. o \in Ops /\ FlagsOf(o) \cap FlagsOf(op) = {}
      BY <1>2, <2>2, FlagsApart DEF Binders
    <3>2. events'[o] = events[o]
      BY <1>7, <2>2, <3>1
    <3>3. FlagsOf(o) \cap flags' = FlagsOf(o) \cap flags /\ flags \subseteq flags'
      BY <1>6, <3>1
    <3>4. o = "billing" => billing' = billing
      BY <1>6, <2>2
    <3>. QED  BY <3>2, <3>3, <3>4 DEF IInv, BoundOnce
  <2>. QED  BY <2>1, <2>2
<1>14. SealInv'
  BY <1>1, <1>3 DEF IInv, SealInv
<1>. QED  BY <1>8, <1>9, <1>10, <1>11, <1>12, <1>13, <1>14 DEF IInv

\* Every other step of a caller leaves the session alone and decides nothing.
LEMMA CallerStep ==
  ASSUME IInv, NEW c \in Callers,
         (Cas(c) /\ applied[c]) \/ Refuse(c) \/ Retry(c) \/ Abandon(c)
  PROVE  IInv'
<1>1. UNCHANGED <<evidence, session, seal>>
  BY DEF Cas, Refuse, Retry, Abandon
<1>2. \A d \in Callers \ {c} :
        /\ pc'[d] = pc[d]
        /\ request'[d] = request[d]
        /\ seen'[d] = seen[d]
        /\ applied'[d] = applied[d]
  BY DEF Cas, Refuse, Retry, Abandon, IInv, TypeOK
<1>3. /\ pc' \in [Callers -> {"idle", "read", "check", "cas", "done"}]
      /\ request' \in [Callers -> Requests \cup {None}]
      /\ seen' \in [Callers -> Evidence]
      /\ applied' \in [Callers -> BOOLEAN]
  <2>1. NoEvidence \in Evidence
    BY DEF NoEvidence, Evidence
  <2>. QED  BY <2>1 DEF Cas, Refuse, Retry, Abandon, IInv, TypeOK
<1>4. TypeOK'
  BY <1>1, <1>3 DEF IInv, TypeOK, evidence, session
<1>5. \/ pc'[c] = "idle"
      \/ pc'[c] = "done" /\ pc[c] # "idle" /\ request'[c] = request[c]
      \/ /\ pc[c] = "done" /\ request'[c] = request[c]
         /\ pc'[c] = IF request[c].op = "disconnect" THEN "cas" ELSE "read"
  BY DEF Cas, Refuse, Retry, Abandon, IInv, TypeOK
<1>6. RequestInv'
  <2>1. request[c] \in Requests => request[c].op \in Ops
    BY DEF Requests
  <2>. QED  BY <1>1, <1>2, <1>5, <2>1 DEF IInv, RequestInv, Binders, session
<1>7. SeenInv'
  BY <1>1, <1>2, <1>5 DEF IInv, SeenInv, evidence
<1>8. DecidedInv'
  BY <1>1, <1>2, <1>5 DEF IInv, DecidedInv, Unbound, Binders, evidence, session
<1>. QED  BY <1>1, <1>4, <1>6, <1>7, <1>8, SessionKept DEF IInv

LEMMA CommitSealStep ==
  ASSUME IInv, NEW expected \in 0 .. MaxEvents, CommitSeal(expected)
  PROVE  IInv'
<1>1. /\ UNCHANGED <<evidence, session, callers>>
      /\ Complete
      /\ seal' = Snapshot
  BY DEF CommitSeal, Sealable
<1>2. Snapshot \in Seals
  BY <1>1 DEF IInv, TypeOK, Snapshot, Seals, Complete
<1>3. TypeOK'
  BY <1>1, <1>2 DEF IInv, TypeOK, evidence, session, callers
<1>4. RequestInv' /\ SeenInv' /\ DecidedInv'
  BY <1>1 DEF IInv, RequestInv, SeenInv, DecidedInv, Unbound, evidence, session, callers
<1>5. EvidenceInv' /\ BoundOnce'
  BY <1>1 DEF IInv, EvidenceInv, BoundOnce, evidence, session
<1>6. SealInv'
  BY <1>1 DEF SealInv, Snapshot, Complete, session
<1>. QED  BY <1>3, <1>4, <1>5, <1>6 DEF IInv

LEMMA StutterStep ==
  ASSUME IInv, UNCHANGED vars
  PROVE  IInv'
<1>1. UNCHANGED <<evidence, session, seal, callers>>
  BY DEF vars
<1>2. TypeOK'
  BY <1>1 DEF IInv, TypeOK, evidence, session, callers
<1>3. RequestInv' /\ SeenInv' /\ DecidedInv'
  BY <1>1 DEF IInv, RequestInv, SeenInv, DecidedInv, Unbound, evidence, session, callers
<1>. QED  BY <1>1, <1>2, <1>3, SessionKept DEF IInv

LEMMA NextInv == IInv /\ [Next]_vars => IInv'
<1>. SUFFICES ASSUME IInv, [Next]_vars  PROVE IInv'
  OBVIOUS
<1>1. CASE AdvanceFence \/ Accept \/ Settle \/ CompleteSaga
  BY <1>1, EvidenceStep
<1>2. ASSUME NEW c \in Callers, NEW op \in Ops, Begin(c, op)  PROVE IInv'
  BY <1>2, BeginStep
<1>3. ASSUME NEW c \in Callers, ReadEvidence(c)  PROVE IInv'
  BY <1>3, ReadEvidenceStep
<1>4. ASSUME NEW c \in Callers, CheckSession(c)  PROVE IInv'
  BY <1>4, CheckSessionStep
<1>5. ASSUME NEW c \in Callers, Cas(c)  PROVE IInv'
  BY <1>5, ApplyStep, CallerStep
<1>6. ASSUME NEW c \in Callers, Refuse(c) \/ Retry(c) \/ Abandon(c)  PROVE IInv'
  BY <1>6, CallerStep
<1>7. ASSUME NEW expected \in 0 .. MaxEvents, CommitSeal(expected)  PROVE IInv'
  BY <1>7, CommitSealStep
<1>8. CASE UNCHANGED vars
  BY <1>8, StutterStep
<1>. QED  BY <1>1, <1>2, <1>3, <1>4, <1>5, <1>6, <1>7, <1>8 DEF Next

LEMMA Invariance == Spec => []IInv
BY InitInv, NextInv, PTL DEF Spec

-----------------------------------------------------------------------------
\* Every variable has its type, and every seal that commitDurableSessionClosureSealV1
\* writes is one that validateSeal accepts when it is read again.
THEOREM TypeCorrect == Spec => []TypeOK
<1>1. IInv => TypeOK
  BY DEF IInv
<1>. QED  BY <1>1, Invariance, PTL

\* Of all the callers that race to bind a store to the session, one does:
\* the flag is set by one event of the ledger, and set for good.
THEOREM BindingIsUnique == Spec => []BoundOnce
<1>1. IInv => BoundOnce
  BY DEF IInv
<1>. QED  BY <1>1, Invariance, PTL

\* The provider's end is bound with the billing status it shares with the session.
THEOREM ProviderFollowsBilling == Spec => []ProviderAfterBilling
<1>1. IInv => ProviderAfterBilling
  BY DEF IInv, EvidenceInv, ProviderAfterBilling
<1>. QED  BY <1>1, Invariance, PTL

\* A complete session has the acceptance, the settlement and the saga it was
\* closed on, whatever trust resets happened between the reads and the writes.
THEOREM CompleteIsFounded == Spec => []CompleteHasEvidence
<1>1. ASSUME IInv, Complete
      PROVE  /\ accepted = FENCE_TOKEN
             /\ saga = billing
             /\ events["billing"] > 0 => settled = FENCE_TOKEN
  BY <1>1 DEF IInv, EvidenceInv, Complete, TERMINAL_FLAGS
<1>2. IInv => CompleteHasEvidence
  BY <1>1 DEF CompleteHasEvidence
<1>. QED  BY <1>2, Invariance, PTL

\* A sealed session never changes again: the replay of its seal finds it as it was.
THEOREM SealedForGood == Spec => []SealIsOfThisSession
<1>1. IInv => SealIsOfThisSession
  BY DEF IInv, SealInv, SealIsOfThisSession
<1>. QED  BY <1>1, Invariance, PTL

\* What a session was told of its end is not taken back, and a sealed session
\* takes nothing any more.
EndIsKept ==
  /\ flags \subseteq flags'
  /\ billing \in TerminalBilling => billing' = billing
  /\ version <= version'
  /\ Complete => UNCHANGED session
  /\ seal # None => UNCHANGED seal

LEMMA StepKeepsEnd == IInv /\ [Next]_vars => EndIsKept
<1>. SUFFICES ASSUME IInv, [Next]_vars  PROVE EndIsKept
  OBVIOUS
<1>1. ASSUME UNCHANGED <<session, seal>>  PROVE EndIsKept
  BY <1>1 DEF EndIsKept, session, IInv, TypeOK
<1>2. ASSUME NEW c \in Callers, Cas(c)  PROVE EndIsKept
  <2>1. CASE applied[c]
    BY <1>1, <1>2, <2>1 DEF Cas
  <2>2. CASE ~applied[c]
    <3>1. /\ ~Complete /\ Progress(request[c].op) /\ version' = version + 1 /\ UNCHANGED seal
      BY <1>2, <2>2 DEF Cas, CasAllowed
    <3>2. /\ flags \subseteq flags'
          /\ billing \in TerminalBilling => billing' = billing
      BY <3>1 DEF Progress, TerminalBilling
    <3>. QED  BY <3>1, <3>2 DEF EndIsKept, IInv, TypeOK
  <2>. QED  BY <2>1, <2>2
<1>3. ASSUME NEW expected \in 0 .. MaxEvents, CommitSeal(expected)  PROVE EndIsKept
  BY <1>3 DEF CommitSeal, EndIsKept, session, IInv, TypeOK
<1>4. ASSUME AdvanceFence \/ Accept \/ Settle \/ CompleteSaga  PROVE EndIsKept
  BY <1>1, <1>4 DEF AdvanceFence, Accept, Settle, CompleteSaga
<1>5. ASSUME NEW c \in Callers, NEW op \in Ops, Begin(c, op)  PROVE EndIsKept
  BY <1>1, <1>5 DEF Begin
<1>6. ASSUME NEW c \in Callers,
             ReadEvidence(c) \/ CheckSession(c) \/ Refuse(c) \/ Retry(c) \/ Abandon(c)
      PROVE  EndIsKept
  BY <1>1, <1>6 DEF ReadEvidence, CheckSession, Refuse, Retry, Abandon
<1>7. CASE UNCHANGED vars
  BY <1>1, <1>7 DEF vars
<1>. QED  BY <1>2, <1>3, <1>4, <1>5, <1>6, <1>7 DEF Next

\* The end of a session is final: flags and billing status are not taken back, a complete
\* session takes no event, and the seal that is written then is the last.
THEOREM SessionEndIsKept == Spec => [][EndIsKept]_vars
<1>1. IInv /\ [Next]_vars => [EndIsKept]_vars
  BY StepKeepsEnd
<1>. QED  BY <1>1, Invariance, PTL DEF Spec

-----------------------------------------------------------------------------
(* SemanticBinding: the plan, what is bound to it, and admission. *)

\* What Pilote allows for the plan's intent.
SemanticCap == ParallelismCap(plan.intent.parallelism, Content[plan.contract].max)

\* The plan's transport is on the path its intent permits, and the job is the
\* transport's.
PlanInv ==
  /\ bound = [k \in Kinds |-> bound[k]]
  /\ plan # Nothing => PathBound(plan.intent, plan.transport)
  /\ job # Nothing => plan # Nothing /\ job = ExecutionMode(plan.transport)

\* What was allowed of the version the store is still at fits in beside what is
\* in use.
CheckInv ==
  /\ admission.active <= admission.version
  /\ \A c \in Admitters : check[c] # Nothing =>
       /\ plan # Nothing
       /\ admission # NoAdmission
       /\ check[c].version <= admission.version
       /\ check[c].version = admission.version =>
            admission.active + check[c].remaining <= SemanticCap

\* What is bound agrees with a plan that never changes; and a decision of the gate is
\* worth something only at its own version, at which CheckInv says it still fits in.
SemanticInv == BindingTypeOK /\ PlanInv /\ CheckInv /\ NoMixture /\ WithinSemanticCap

\* A plan holds its intent and what the intent says.
LEMMA PlanFields ==
  ASSUME NEW p \in Plans
  PROVE  /\ p.intent \in Intents
         /\ p.transport \in Transports
         /\ p.mode \in VerifierPolicies
         /\ p = Plan(p.intent, p.transport, p.mode)
         /\ p.contract = p.intent.contract
         /\ p.verifier = p.intent.verifier
         /\ p.operator = p.intent.operator
         /\ p.policies = p.intent.policies
         /\ p.resources = p.intent.resources
         /\ p.acceptance = p.intent.acceptance
         /\ p.boundary = p.intent.boundary
         /\ p.dependencies = p.intent.dependencies
         /\ p.parallelism = p.intent.parallelism
<1>1. PICK i \in Intents, t \in Transports, m \in VerifierPolicies : p = Plan(i, t, m)
  BY DEF Plans
<1>2. /\ p.intent = i /\ p.transport = t /\ p.mode = m
      /\ p.contract = i.contract /\ p.verifier = i.verifier /\ p.operator = i.operator
      /\ p.policies = i.policies /\ p.resources = i.resources /\ p.acceptance = i.acceptance
      /\ p.boundary = i.boundary /\ p.dependencies = i.dependencies
      /\ p.parallelism = i.parallelism
  BY <1>1 DEF Plan
<1>. QED BY <1>1, <1>2

\* An intent is valid, and of a revision of the contract there is.
LEMMA IntentFacts ==
  ASSUME NEW i \in Intents
  PROVE  ValidIntent(i) /\ i.contract \in Contracts
BY DEF Intents, ValidIntent

\* The maximum of a revision is a positive number.
LEMMA ContentFacts ==
  ASSUME NEW c \in Contracts
  PROVE  /\ Content[c].class \in ExecutionClasses
         /\ Content[c].max \in Nat
         /\ Content[c].max >= 1
<1>1. /\ Content[c].class \in ExecutionClasses
      /\ Content[c].max \in 1..1024
  BY SemanticsAssumption, Zenon DEF SemanticsAssumption
<1>2. ASSUME NEW m \in 1..1024
      PROVE  m \in Nat /\ m >= 1
  OBVIOUS
<1>. QED BY <1>1, <1>2

\* What the builders of A4, A5 and A6 return binds to the intent it is of.
LEMMA A4Facts ==
  ASSUME NEW d \in A4Documents
  PROVE  /\ d.intent \in Intents
         /\ SemanticA4(d.contract, d.intent, d)
<1>1. PICK i \in Intents : d = A4Of(i.contract, i)
  BY DEF A4Documents
<1>2. d.intent = i
  BY <1>1 DEF A4Of
<1>. QED BY <1>2 DEF A4Documents

LEMMA A5Facts ==
  ASSUME NEW d \in A5Documents
  PROVE  /\ d.intent \in Intents
         /\ SemanticA5(d.contract, d.intent, d)
<1>1. PICK i \in Intents : d = A5Of(i.contract, i)
  BY DEF A5Documents
<1>2. d.intent = i
  BY <1>1 DEF A5Of
<1>. QED BY <1>2 DEF A5Documents

LEMMA A6Facts ==
  ASSUME NEW d \in A6Documents
  PROVE  /\ d.intent \in Intents
         /\ SemanticA6(d.contract, d.intent, d)
<1>1. PICK i \in Intents : d = A6Of(i.contract, i)
  BY DEF A6Documents
<1>2. d.intent = i
  BY <1>1 DEF A6Of
<1>. QED BY <1>2 DEF A6Documents

\* A nonempty set of naturals has a least member.
LEMMA LeastOfNaturals ==
  ASSUME NEW S \in SUBSET Nat, S # {}
  PROVE  /\ Min(S) \in S
         /\ \A x \in S : Min(S) <= x
<1>1. PICK n \in S : TRUE
  OBVIOUS
<1>. DEFINE low == {x \in S : x <= n}
           below == {0..x : x \in low}
<1>2. PICK b \in below :
        \A a \in below : ~(<<a, b>> \in StrictSubsetOrdering(0..n))
  <2>1. IsFiniteSet(0..n)
    BY FS_Interval
  <2>2. IsWellFoundedOn(StrictSubsetOrdering(0..n), SUBSET (0..n))
    BY <2>1, FS_FiniteSubsetsOfFinite, FS_StrictSubsetOrderingWellFounded
  <2>3. below \subseteq SUBSET (0..n)
    OBVIOUS
  <2>4. 0..n \in below
    OBVIOUS
  <2>5. below # {}
    BY <2>4
  <2>. HIDE DEF below
  <2>. QED BY <2>2, <2>3, <2>5, WFMin
<1>3. PICK m \in low : b = 0..m
  OBVIOUS
<1>4. \A x \in S : m <= x
  <2>. SUFFICES ASSUME NEW x \in S, x < m
               PROVE  FALSE
    OBVIOUS
  <2>1. x \in low /\ 0..x \in below
    OBVIOUS
  <2>2. /\ 0..x \subseteq b
        /\ 0..x # b
    <3>1. m \in b /\ m \notin 0..x
      BY <1>3
    <3>. QED BY <1>3, <3>1
  <2>3. 0..x \in SUBSET (0..n) /\ b \in SUBSET (0..n)
    BY <1>3
  <2>. HIDE DEF below
  <2>4. <<0..x, b>> \in StrictSubsetOrdering(0..n)
    BY <2>2, <2>3 DEF StrictSubsetOrdering
  <2>. QED BY <1>2, <2>1, <2>4
<1>. QED BY <1>3, <1>4 DEF Min

-----------------------------------------------------------------------------
\* What a consumer has found of a document before it is bound to the plan.
Accepted(kind, d) ==
  /\ kind = "A3" =>
       /\ d \in {o.verifier : o \in Options}
       /\ plan.intent.verifier = d
       /\ plan.mode = d.mode
  /\ kind \in {"A4", "A5"} => d.intent = plan.intent /\ d.contract = plan.contract
  /\ kind = "A4" =>
       /\ d \in A4Documents
       /\ plan.boundary.refs \subseteq Content[plan.contract].refs
       /\ Content[plan.contract].exact => plan.boundary.mode = "EXPLICIT_HUMAN_APPROVAL"
  /\ kind = "A5" =>
       /\ d \in A5Documents
       /\ d.capabilities = Content[plan.contract].capabilities
  /\ kind = "A7" => d \in A7Documents

\* What the consumers of A3, A4 and A5 check is what the mixture rules want.
LEMMA AcceptedA4 ==
  ASSUME plan \in Plans, NEW c, NEW i, NEW d \in A4Documents, BindingA4(c, i, plan, d)
  PROVE  Accepted("A4", d)
<1>1. /\ plan.intent = i /\ i.contract = c /\ d.intent = i /\ d.contract = c
      /\ [mode |-> d.mode, refs |-> d.refs] = plan.boundary
      /\ d.refs \subseteq Content[c].refs
      /\ Content[c].exact => d.mode = "EXPLICIT_HUMAN_APPROVAL"
  BY DEF BindingA4
<1>2. plan.contract = c
  BY <1>1, PlanFields
<1>3. plan.boundary.mode = d.mode /\ plan.boundary.refs = d.refs
  BY <1>1
<1>. QED BY <1>1, <1>2, <1>3 DEF Accepted

LEMMA AcceptedA5 ==
  ASSUME plan \in Plans, NEW c, NEW i, NEW d \in A5Documents, BindingA5(c, i, plan, d)
  PROVE  Accepted("A5", d)
<1>1. /\ plan.intent = i /\ i.contract = c /\ d.intent = i /\ d.contract = c
      /\ d.capabilities = Content[c].capabilities
  BY DEF BindingA5
<1>2. plan.contract = c
  BY <1>1, PlanFields
<1>. QED BY <1>1, <1>2 DEF Accepted

LEMMA AcceptedA3 ==
  ASSUME plan \in Plans, NEW i, NEW o \in Options, BindingA3(i, o.verifier, plan)
  PROVE  Accepted("A3", o.verifier)
<1>1. plan.intent = i /\ i.verifier = o.verifier /\ plan.mode = o.verifier.mode
  BY DEF BindingA3
<1>. QED BY <1>1 DEF Accepted

\* Binding a document changes that one entry.
LEMMA OneBound ==
  ASSUME NEW kind \in Kinds, NEW d, bound = [k \in Kinds |-> bound[k]],
         bound' = [bound EXCEPT ![kind] = d]
  PROVE  /\ bound' = [k \in Kinds |-> bound'[k]]
         /\ bound'[kind] = d
         /\ \A k \in Kinds \ {kind} : bound'[k] = bound[k]
OBVIOUS

\* No document is bound, nothing reserved.
LEMMA Initially == BindingInit => SemanticInv
<1>. SUFFICES ASSUME BindingInit PROVE SemanticInv
  OBVIOUS
<1>1. BindingTypeOK
  BY BindingAssumption DEF BindingInit, BindingTypeOK, NoAdmission, Kinds
<1>2. PlanInv
  BY DEF BindingInit, PlanInv
<1>3. CheckInv
  BY DEF BindingInit, CheckInv, NoAdmission
<1>4. NoMixture
  BY DEF BindingInit, NoMixture
<1>5. WithinSemanticCap
  BY DEF BindingInit, WithinSemanticCap, NoAdmission
<1>. QED BY <1>1, <1>2, <1>3, <1>4, <1>5 DEF SemanticInv

\* The admission store and the checks stay as they are while the plan does.
LEMMA AdmissionKept ==
  ASSUME CheckInv, WithinSemanticCap, UNCHANGED <<plan, admission, check>>
  PROVE  CheckInv' /\ WithinSemanticCap'
BY DEF CheckInv, WithinSemanticCap, SemanticCap

\* Binding an accepted document, of any kind but A6, keeps the invariant.
LEMMA BindStep ==
  ASSUME SemanticInv, plan # Nothing, NEW kind \in Kinds \ {"A6"}, NEW d,
         Accepted(kind, d), Bind(kind, d)
  PROVE  SemanticInv'
<1>1. /\ bound' = [k \in Kinds |-> bound'[k]]
      /\ bound'[kind] = d
      /\ \A k \in Kinds \ {kind} : bound'[k] = bound[k]
  BY OneBound DEF SemanticInv, PlanInv, Bind
<1>2. UNCHANGED <<plan, realized, job, admission, check>>
  BY DEF Bind
<1>3. bound'.A6 = bound.A6
  BY <1>1 DEF Kinds
<1>4. BindingTypeOK'
  <2>1. /\ bound'.A3 \in {Nothing} \cup {o.verifier : o \in Options}
        /\ bound'.A4 \in {Nothing} \cup A4Documents
        /\ bound'.A5 \in {Nothing} \cup A5Documents
        /\ bound'.A7 \in {Nothing} \cup A7Documents
    BY <1>1 DEF Kinds, Accepted, SemanticInv, BindingTypeOK
  <2>. QED BY <1>2, <1>3, <2>1 DEF SemanticInv, BindingTypeOK
<1>5. PlanInv'
  BY <1>1, <1>2 DEF SemanticInv, PlanInv
<1>6. NoMixture'
  <2>1. /\ bound'.A3 = bound.A3 \/ (kind = "A3" /\ bound'.A3 = d)
        /\ bound'.A4 = bound.A4 \/ (kind = "A4" /\ bound'.A4 = d)
        /\ bound'.A5 = bound.A5 \/ (kind = "A5" /\ bound'.A5 = d)
    BY <1>1 DEF Kinds
  <2>2. \A e \in {bound'.A4, bound'.A5, bound'.A6} \ {Nothing} :
          e.intent = plan.intent /\ e.contract = plan.contract
    BY <1>3, <2>1 DEF SemanticInv, NoMixture, Accepted
  <2>3. bound'.A3 # Nothing => plan.intent.verifier = bound'.A3 /\ plan.mode = bound'.A3.mode
    BY <2>1 DEF SemanticInv, NoMixture, Accepted
  <2>4. bound'.A4 # Nothing =>
          /\ plan.boundary.refs \subseteq Content[plan.contract].refs
          /\ Content[plan.contract].exact => plan.boundary.mode = "EXPLICIT_HUMAN_APPROVAL"
    BY <2>1 DEF SemanticInv, NoMixture, Accepted
  <2>5. bound'.A5 # Nothing => bound'.A5.capabilities = Content[plan.contract].capabilities
    BY <2>1 DEF SemanticInv, NoMixture, Accepted
  <2>. QED BY <1>2, <1>3, <2>2, <2>3, <2>4, <2>5 DEF SemanticInv, NoMixture
<1>7. CheckInv' /\ WithinSemanticCap'
  BY <1>2, AdmissionKept DEF SemanticInv
<1>. QED BY <1>4, <1>5, <1>6, <1>7 DEF SemanticInv

\* Before there is a plan nothing is bound and nothing in use.
LEMMA CreatePlanStep ==
  ASSUME SemanticInv, CreatePlan
  PROVE  SemanticInv'
<1>1. PICK i \in Intents, t \in Transports, m \in VerifierPolicies :
        PathBound(i, t) /\ plan' = Plan(i, t, m)
  BY DEF CreatePlan
<1>2. plan = Nothing /\ UNCHANGED <<bound, realized, job, admission, check>>
  BY DEF CreatePlan
<1>3. bound = [k \in Kinds |-> Nothing] /\ job = Nothing
  BY <1>2 DEF SemanticInv, BindingTypeOK
<1>4. plan' \in Plans
  BY <1>1 DEF Plans
<1>5. BindingTypeOK'
  BY <1>2, <1>3, <1>4 DEF SemanticInv, BindingTypeOK
<1>6. PlanInv'
  <2>1. plan'.intent = i /\ plan'.transport = t
    BY <1>1 DEF Plan
  <2>. QED BY <1>1, <1>2, <1>3, <2>1 DEF SemanticInv, PlanInv
<1>7. admission.active \in Nat /\ admission.active = 0
  BY <1>2 DEF SemanticInv, BindingTypeOK, WithinSemanticCap, NoAdmission
<1>8. CheckInv'
  BY <1>2 DEF SemanticInv, CheckInv
<1>9. NoMixture'
  BY <1>2, <1>3, BindingAssumption DEF NoMixture, Kinds
<1>10. WithinSemanticCap'
  BY <1>2, <1>7 DEF WithinSemanticCap
<1>. QED BY <1>5, <1>6, <1>8, <1>9, <1>10 DEF SemanticInv

\* The job runs where the transport of the plan goes, which its path permits.
LEMMA CreateJobStep ==
  ASSUME SemanticInv, CreateJob
  PROVE  SemanticInv'
<1>1. /\ plan # Nothing
      /\ job' = ExecutionMode(plan.transport)
      /\ UNCHANGED <<plan, bound, realized, admission, check>>
  BY DEF CreateJob
<1>2. plan \in Plans
  BY <1>1 DEF SemanticInv, BindingTypeOK
<1>3. plan.transport \in Transports
  BY <1>2, PlanFields
<1>4. BindingTypeOK'
  <2>1. job' \in {"DIRECT_REMOTE", "GITHUB_GATE"}
    BY <1>1 DEF ExecutionMode
  <2>. QED BY <1>1, <2>1 DEF SemanticInv, BindingTypeOK
<1>5. PlanInv'
  BY <1>1 DEF SemanticInv, PlanInv
<1>6. NoMixture'
  <2>1. PathBound(plan.intent, plan.transport)
    BY <1>1 DEF SemanticInv, PlanInv
  <2>2. /\ job' = "DIRECT_REMOTE" => plan.intent.path # "GITHUB_GATE_REQUIRED"
        /\ job' = "GITHUB_GATE" => plan.intent.path # "DIRECT_REMOTE_REQUIRED"
    BY <1>1, <1>3, <2>1 DEF PathBound, ExecutionMode, Transports
  <2>. QED BY <1>1, <2>2 DEF SemanticInv, NoMixture
<1>7. CheckInv' /\ WithinSemanticCap'
  BY <1>1, AdmissionKept DEF SemanticInv
<1>. QED BY <1>4, <1>5, <1>6, <1>7 DEF SemanticInv

\* The steps of the consumers.
LEMMA BindA3Step ==
  ASSUME SemanticInv, BindA3
  PROVE  SemanticInv'
<1>1. PICK i \in Intents, o \in Options :
        BindingA3(i, o.verifier, plan) /\ Bind("A3", o.verifier)
  BY DEF BindA3
<1>2. plan # Nothing /\ plan \in Plans
  BY DEF BindA3, SemanticInv, BindingTypeOK
<1>. QED BY <1>1, <1>2, AcceptedA3, BindStep DEF Kinds

LEMMA BindA4Step ==
  ASSUME SemanticInv, BindA4
  PROVE  SemanticInv'
<1>1. PICK c \in Contracts, i \in Intents, d \in A4Documents :
        BindingA4(c, i, plan, d) /\ Bind("A4", d)
  BY DEF BindA4
<1>2. plan # Nothing /\ plan \in Plans
  BY DEF BindA4, SemanticInv, BindingTypeOK
<1>. QED BY <1>1, <1>2, AcceptedA4, BindStep DEF Kinds

LEMMA BindA5Step ==
  ASSUME SemanticInv, BindA5
  PROVE  SemanticInv'
<1>1. PICK c \in Contracts, i \in Intents, d \in A5Documents :
        BindingA5(c, i, plan, d) /\ Bind("A5", d)
  BY DEF BindA5
<1>2. plan # Nothing /\ plan \in Plans
  BY DEF BindA5, SemanticInv, BindingTypeOK
<1>. QED BY <1>1, <1>2, AcceptedA5, BindStep DEF Kinds

LEMMA BindA7Step ==
  ASSUME SemanticInv, BindA7
  PROVE  SemanticInv'
<1>1. PICK d \in A7Documents : Bind("A7", d)
  BY DEF BindA7
<1>2. plan # Nothing /\ Accepted("A7", d)
  BY DEF BindA7, Accepted
<1>. QED BY <1>1, <1>2, BindStep DEF Kinds

\* A new admission store has nothing in use.
LEMMA InitializeAdmissionStep ==
  ASSUME SemanticInv, InitializeAdmission
  PROVE  SemanticInv'
<1>1. PICK i \in Intents, b \in Contracts :
        admission' = [contract |-> i.contract, intent |-> i, max |-> Content[b].max,
                      active |-> 0, version |-> 0]
  BY DEF InitializeAdmission
<1>2. admission = NoAdmission /\ UNCHANGED <<plan, bound, realized, job, check>>
  BY DEF InitializeAdmission
<1>3. BindingTypeOK'
  <2>1. /\ i.contract \in Contracts
        /\ 0 \in 0..MaxVersion
    BY IntentFacts, BindingAssumption
  <2>2. admission' \in
          [contract : Contracts, intent : Intents, max : {Content[c].max : c \in Contracts},
           active : 0..MaxVersion, version : 0..MaxVersion]
    BY <1>1, <2>1
  <2>. QED BY <1>2, <2>2 DEF SemanticInv, BindingTypeOK
<1>4. PlanInv' /\ NoMixture'
  BY <1>2 DEF SemanticInv, PlanInv, NoMixture
<1>5. CheckInv'
  BY <1>1, <1>2 DEF SemanticInv, CheckInv
<1>6. WithinSemanticCap'
  BY <1>1 DEF WithinSemanticCap
<1>. QED BY <1>3, <1>4, <1>5, <1>6 DEF SemanticInv

AdmissionStates ==
  [contract : Contracts, intent : Intents, max : {Content[c].max : c \in Contracts},
   active : 0..MaxVersion, version : 0..MaxVersion]
CheckStates == [version : 0..MaxVersion, remaining : 1..MaxRequest]

\* The fields of an admission store that is initialized.
LEMMA AdmissionFields ==
  ASSUME BindingTypeOK, admission # NoAdmission
  PROVE  /\ admission \in AdmissionStates
         /\ admission.active \in 0..MaxVersion
         /\ admission.version \in 0..MaxVersion
         /\ admission = [contract |-> admission.contract, intent |-> admission.intent,
                         max |-> admission.max, active |-> admission.active,
                         version |-> admission.version]
BY DEF BindingTypeOK, AdmissionStates

\* The cap of the plan's intent is a number.
LEMMA CapIsNat ==
  ASSUME plan \in Plans
  PROVE  SemanticCap \in Nat
<1>1. plan.contract \in Contracts
  BY PlanFields, IntentFacts
<1>. QED BY <1>1, ContentFacts DEF SemanticCap, ParallelismCap

\* The least of all limits is at most what Pilote allows.
LEMMA EffectiveCap ==
  ASSUME plan \in Plans, NEW d \in A6Documents, NEW s, BindingA6(d, plan, s),
         NEW limits \in Limits, NEW requested \in Nat, s.active \in Nat,
         Admissible(d, s, limits, requested)
  PROVE  s.active + requested <= SemanticCap
<1>. DEFINE cap == RuntimeCap(d.parallelism, d.max)
           all == {cap} \cup limits
<1>1. cap = SemanticCap
  <2>1. /\ plan.contract = d.contract
        /\ plan.parallelism = d.parallelism
        /\ plan.parallelism = plan.intent.parallelism
    BY PlanFields DEF BindingA6
  <2>2. d.max = Content[d.contract].max
    BY A6Facts DEF SemanticA6
  <2>. QED BY <2>1, <2>2 DEF RuntimeCap, ParallelismCap, SemanticCap
<1>2. all \in SUBSET Nat /\ cap \in all
  BY <1>1, CapIsNat, BindingAssumption
<1>3. s.active + requested <= Min(all)
  BY DEF Admissible
<1>4. Min(all) \in Nat /\ Min(all) <= cap
  <2>. HIDE DEF all
  <2>. QED BY <1>2, LeastOfNaturals
<1>. HIDE DEF all, cap
<1>5. cap \in Nat
  BY <1>1, CapIsNat
<1>. QED BY <1>1, <1>3, <1>4, <1>5

\* What is allowed of the version that was read fits in beside what is in use.
LEMMA CheckAdmissionStep ==
  ASSUME SemanticInv, NEW c \in Admitters, CheckAdmission(c)
  PROVE  SemanticInv'
<1>1. PICK d \in A6Documents, realization \in Realizations, requested \in 1..MaxRequest,
           limits \in Limits :
        /\ BindingA6(d, plan, admission)
        /\ realization \in RuntimeClasses(d.class)
        /\ Admissible(d, admission, limits, requested)
        /\ bound' = [bound EXCEPT !["A6"] = d]
        /\ realized' = realization
        /\ check' = [check EXCEPT ![c] = [version |-> admission.version, remaining |-> requested]]
  BY DEF CheckAdmission
<1>2. /\ plan # Nothing
      /\ admission # NoAdmission
      /\ UNCHANGED <<plan, job, admission>>
  BY DEF CheckAdmission
<1>3. plan \in Plans
  BY <1>2 DEF SemanticInv, BindingTypeOK
<1>4. /\ bound' = [k \in Kinds |-> bound'[k]]
      /\ bound'["A6"] = d
      /\ \A k \in Kinds \ {"A6"} : bound'[k] = bound[k]
  BY <1>1, OneBound DEF SemanticInv, PlanInv, Kinds
<1>5. /\ bound'.A3 = bound.A3
      /\ bound'.A4 = bound.A4
      /\ bound'.A5 = bound.A5
      /\ bound'.A6 = d
      /\ bound'.A7 = bound.A7
  BY <1>4 DEF Kinds
<1>6. admission.active \in Nat /\ admission.version \in 0..MaxVersion /\ requested \in Nat
  BY <1>2, AdmissionFields DEF SemanticInv
<1>7. BindingTypeOK'
  <2>1. [version |-> admission.version, remaining |-> requested] \in CheckStates
    BY <1>6 DEF CheckStates
  <2>2. check' \in [Admitters -> {Nothing} \cup CheckStates]
    BY <1>1, <2>1 DEF SemanticInv, BindingTypeOK, CheckStates
  <2>3. realized' \in {Nothing} \cup Realizations
    BY <1>1
  <2>4. /\ bound'.A3 \in {Nothing} \cup {o.verifier : o \in Options}
        /\ bound'.A4 \in {Nothing} \cup A4Documents
        /\ bound'.A5 \in {Nothing} \cup A5Documents
        /\ bound'.A6 \in {Nothing} \cup A6Documents
        /\ bound'.A7 \in {Nothing} \cup A7Documents
    BY <1>5 DEF SemanticInv, BindingTypeOK
  <2>. QED BY <1>2, <2>2, <2>3, <2>4 DEF SemanticInv, BindingTypeOK, CheckStates
<1>8. PlanInv'
  BY <1>2, <1>4 DEF SemanticInv, PlanInv
<1>9. CheckInv'
  <2>1. admission.active + requested <= SemanticCap
    BY <1>1, <1>3, <1>6, EffectiveCap
  <2>2. SemanticCap' = SemanticCap
    BY <1>2 DEF SemanticCap
  <2>3. ASSUME NEW e \in Admitters, check'[e] # Nothing
        PROVE  /\ check'[e].version <= admission.version
               /\ check'[e].version = admission.version =>
                    admission.active + check'[e].remaining <= SemanticCap
    <3>1. CASE e = c
      <4>1. check'[e] = [version |-> admission.version, remaining |-> requested]
        BY <1>1, <3>1 DEF SemanticInv, BindingTypeOK
      <4>. QED BY <1>6, <2>1, <4>1
    <3>2. CASE e # c
      <4>1. check'[e] = check[e]
        BY <1>1, <3>2 DEF SemanticInv, BindingTypeOK
      <4>. QED BY <2>3, <4>1 DEF SemanticInv, CheckInv
    <3>. QED BY <3>1, <3>2
  <2>. QED BY <1>2, <2>2, <2>3 DEF SemanticInv, CheckInv
<1>10. NoMixture'
  <2>1. /\ d.intent = plan.intent
        /\ d.contract = plan.contract
    BY <1>1 DEF BindingA6
  <2>2. d.class = Content[plan.contract].class /\ d.max = Content[plan.contract].max
    BY <2>1, A6Facts DEF SemanticA6
  <2>3. realized' \in RequiredClasses(Content[plan.contract].class)
    <3>1. RuntimeClasses(d.class) = RequiredClasses(d.class)
      BY DEF RuntimeClasses, RequiredClasses, Realizations
    <3>. QED BY <1>1, <2>2, <3>1
  <2>4. \A e \in {bound'.A4, bound'.A5, bound'.A6} \ {Nothing} :
          e.intent = plan.intent /\ e.contract = plan.contract
    BY <1>2, <1>5, <2>1 DEF SemanticInv, NoMixture
  <2>. QED BY <1>2, <1>5, <2>2, <2>3, <2>4 DEF SemanticInv, NoMixture
<1>11. WithinSemanticCap'
  BY <1>2 DEF SemanticInv, WithinSemanticCap
<1>. QED BY <1>7, <1>8, <1>9, <1>10, <1>11 DEF SemanticInv

\* Who gives up reserves nothing.
LEMMA WithdrawStep ==
  ASSUME SemanticInv, NEW c \in Admitters, Withdraw(c)
  PROVE  SemanticInv'
<1>1. /\ check' = [check EXCEPT ![c] = Nothing]
      /\ UNCHANGED <<plan, bound, realized, job, admission>>
  BY DEF Withdraw
<1>2. BindingTypeOK'
  <2>1. check' \in [Admitters -> {Nothing} \cup CheckStates]
    BY <1>1 DEF SemanticInv, BindingTypeOK, CheckStates
  <2>. QED BY <1>1, <2>1 DEF SemanticInv, BindingTypeOK, CheckStates
<1>3. CheckInv'
  <2>1. \A e \in Admitters : check'[e] # Nothing => check'[e] = check[e]
    BY <1>1 DEF SemanticInv, BindingTypeOK
  <2>2. SemanticCap' = SemanticCap
    BY <1>1 DEF SemanticCap
  <2>. QED BY <1>1, <2>1, <2>2 DEF SemanticInv, CheckInv
<1>4. PlanInv' /\ NoMixture' /\ WithinSemanticCap'
  BY <1>1 DEF SemanticInv, PlanInv, NoMixture, WithinSemanticCap
<1>. QED BY <1>2, <1>3, <1>4 DEF SemanticInv

\* A reservation takes one of what its caller was allowed; whoever else was allowed
\* something, of this version, was so of one that is gone.
LEMMA ReserveStep ==
  ASSUME SemanticInv, NEW c \in Admitters, Reserve(c)
  PROVE  SemanticInv'
<1>1. /\ check[c] # Nothing
      /\ check[c].version = admission.version
      /\ admission.version < MaxVersion
      /\ admission' = [admission EXCEPT !.active = @ + 1, !.version = @ + 1]
      /\ check' = [check EXCEPT ![c] =
                    IF @.remaining = 1 THEN Nothing
                    ELSE [version |-> @.version + 1, remaining |-> @.remaining - 1]]
      /\ UNCHANGED <<plan, bound, realized, job>>
  BY DEF Reserve, Current
<1>2. /\ plan # Nothing
      /\ admission # NoAdmission
      /\ admission.active + check[c].remaining <= SemanticCap
      /\ admission.active <= admission.version
  BY <1>1 DEF SemanticInv, CheckInv
<1>3. /\ admission \in AdmissionStates
      /\ admission.active \in 0..MaxVersion
      /\ admission.version \in 0..MaxVersion
  BY <1>2, AdmissionFields DEF SemanticInv
<1>4. check[c].remaining \in 1..MaxRequest
  BY <1>1 DEF SemanticInv, BindingTypeOK
<1>5. SemanticCap \in Nat /\ SemanticCap' = SemanticCap
  BY <1>1, <1>2, CapIsNat DEF SemanticInv, BindingTypeOK, SemanticCap
<1>6. admission' = [contract |-> admission.contract, intent |-> admission.intent,
                    max |-> admission.max, active |-> admission.active + 1,
                    version |-> admission.version + 1]
  BY <1>1, <1>3 DEF AdmissionStates
<1>7. /\ admission'.active = admission.active + 1
      /\ admission'.version = admission.version + 1
  BY <1>6
<1>8. /\ admission.active + 1 \in 0..MaxVersion
      /\ admission.version + 1 \in 0..MaxVersion
      /\ admission.active + 1 # 0
  BY <1>1, <1>2, <1>3, BindingAssumption
<1>9. admission' \in AdmissionStates /\ admission' # NoAdmission
  BY <1>3, <1>6, <1>7, <1>8 DEF AdmissionStates, NoAdmission
<1>10. \A e \in Admitters \ {c} : check'[e] = check[e]
  BY <1>1 DEF SemanticInv, BindingTypeOK
<1>11. \/ check'[c] = Nothing
       \/ /\ check[c].remaining - 1 \in 1..MaxRequest
          /\ check'[c] = [version |-> admission.version + 1, remaining |-> check[c].remaining - 1]
  <2>1. check'[c] = IF check[c].remaining = 1 THEN Nothing
                    ELSE [version |-> check[c].version + 1, remaining |-> check[c].remaining - 1]
    BY <1>1 DEF SemanticInv, BindingTypeOK
  <2>2. check[c].remaining # 1 => check[c].remaining - 1 \in 1..MaxRequest
    BY <1>4, BindingAssumption
  <2>. QED BY <1>1, <2>1, <2>2
<1>12. BindingTypeOK'
  <2>1. check'[c] \in {Nothing} \cup CheckStates
    BY <1>8, <1>11 DEF CheckStates
  <2>2. check' = [check EXCEPT ![c] = check'[c]]
    BY <1>1 DEF SemanticInv, BindingTypeOK
  <2>3. check' \in [Admitters -> {Nothing} \cup CheckStates]
    BY <2>1, <2>2 DEF SemanticInv, BindingTypeOK, CheckStates
  <2>. QED BY <1>1, <1>9, <2>3 DEF SemanticInv, BindingTypeOK, AdmissionStates, CheckStates
<1>13. CheckInv'
  <2>1. admission'.active <= admission'.version
    BY <1>2, <1>3, <1>7
  <2>2. ASSUME NEW e \in Admitters, check'[e] # Nothing
        PROVE  /\ check'[e].version <= admission'.version
               /\ check'[e].version = admission'.version =>
                    admission'.active + check'[e].remaining <= SemanticCap
    <3>1. CASE e = c
      <4>1. /\ check'[e].version = admission.version + 1
            /\ check'[e].remaining = check[c].remaining - 1
        BY <1>11, <2>2, <3>1
      <4>. QED BY <1>2, <1>3, <1>4, <1>5, <1>7, <4>1
    <3>2. CASE e # c
      <4>1. check'[e] = check[e]
        BY <1>10, <3>2
      <4>2. check[e].version \in 0..MaxVersion /\ check[e].version <= admission.version
        BY <2>2, <4>1 DEF SemanticInv, BindingTypeOK, CheckInv
      <4>. QED BY <1>3, <1>7, <4>1, <4>2
    <3>. QED BY <3>1, <3>2
  <2>. QED BY <1>1, <1>2, <1>5, <1>9, <2>1, <2>2 DEF CheckInv
<1>14. PlanInv' /\ NoMixture'
  BY <1>1 DEF SemanticInv, PlanInv, NoMixture
<1>15. WithinSemanticCap'
  <2>1. admission.active + 1 <= SemanticCap
    BY <1>2, <1>3, <1>4, <1>5
  <2>. QED BY <1>1, <1>2, <1>7, <2>1 DEF WithinSemanticCap, SemanticCap
<1>. QED BY <1>12, <1>13, <1>14, <1>15 DEF SemanticInv

\* A release makes every decision one on an older version.
LEMMA ReleaseStep ==
  ASSUME SemanticInv, Release
  PROVE  SemanticInv'
<1>1. /\ admission.active > 0
      /\ admission.version < MaxVersion
      /\ admission' = [admission EXCEPT !.active = @ - 1, !.version = @ + 1]
      /\ UNCHANGED <<plan, bound, realized, job, check>>
  BY DEF Release
<1>2. admission # NoAdmission
  BY <1>1 DEF NoAdmission
<1>3. /\ admission \in AdmissionStates
      /\ admission.active \in 0..MaxVersion
      /\ admission.version \in 0..MaxVersion
  BY <1>2, AdmissionFields DEF SemanticInv
<1>4. /\ plan # Nothing
      /\ admission.active <= SemanticCap
      /\ admission.active <= admission.version
      /\ SemanticCap' = SemanticCap
  BY <1>1 DEF SemanticInv, CheckInv, WithinSemanticCap, SemanticCap
<1>5. admission' = [contract |-> admission.contract, intent |-> admission.intent,
                    max |-> admission.max, active |-> admission.active - 1,
                    version |-> admission.version + 1]
  BY <1>1, <1>3 DEF AdmissionStates
<1>6. /\ admission'.active = admission.active - 1
      /\ admission'.version = admission.version + 1
  BY <1>5
<1>7. /\ admission.active - 1 \in 0..MaxVersion
      /\ admission.version + 1 \in 0..MaxVersion
      /\ admission.version + 1 # 0
  BY <1>1, <1>3, BindingAssumption
<1>8. admission' \in AdmissionStates /\ admission' # NoAdmission
  BY <1>3, <1>5, <1>6, <1>7 DEF AdmissionStates, NoAdmission
<1>9. BindingTypeOK'
  BY <1>1, <1>8 DEF SemanticInv, BindingTypeOK, AdmissionStates
<1>10. CheckInv'
  <2>1. admission'.active <= admission'.version
    BY <1>3, <1>4, <1>6
  <2>2. ASSUME NEW e \in Admitters, check[e] # Nothing
        PROVE  check[e].version < admission'.version /\ check[e].version \in Nat
    <3>1. check[e].version \in 0..MaxVersion /\ check[e].version <= admission.version
      BY <2>2 DEF SemanticInv, BindingTypeOK, CheckInv
    <3>. QED BY <1>3, <1>6, <3>1
  <2>3. ASSUME NEW e \in Admitters, check[e] # Nothing
        PROVE  check[e].version <= admission'.version /\ check[e].version # admission'.version
    BY <1>3, <1>6, <2>2, <2>3
  <2>. QED BY <1>1, <1>4, <1>8, <2>1, <2>3 DEF CheckInv
<1>11. PlanInv' /\ NoMixture'
  BY <1>1 DEF SemanticInv, PlanInv, NoMixture
<1>12. WithinSemanticCap'
  <2>1. SemanticCap \in Nat
    BY <1>4, CapIsNat DEF SemanticInv, BindingTypeOK
  <2>2. admission.active - 1 <= SemanticCap
    BY <1>3, <1>4, <2>1
  <2>. QED BY <1>1, <1>4, <1>6, <2>2 DEF WithinSemanticCap, SemanticCap
<1>. QED BY <1>9, <1>10, <1>11, <1>12 DEF SemanticInv

\* A step of nothing keeps the invariant.
LEMMA BindingStutters ==
  ASSUME SemanticInv, UNCHANGED bindingVars
  PROVE  SemanticInv'
<1>1. UNCHANGED <<plan, bound, realized, job, admission, check>>
  BY DEF bindingVars
<1>2. BindingTypeOK'
  BY <1>1 DEF SemanticInv, BindingTypeOK
<1>3. PlanInv' /\ NoMixture'
  BY <1>1 DEF SemanticInv, PlanInv, NoMixture
<1>. QED BY <1>1, <1>2, <1>3, AdmissionKept DEF SemanticInv

\* The invariant of SemanticBinding.
THEOREM SemanticInvariant == BindingSpec => []SemanticInv
<1>1. ASSUME SemanticInv, [BindingNext]_bindingVars  PROVE SemanticInv'
  <2>1. CASE UNCHANGED bindingVars
    BY <1>1, <2>1, BindingStutters
  <2>2. CASE CreatePlan
    BY <1>1, <2>2, CreatePlanStep
  <2>3. CASE CreateJob
    BY <1>1, <2>3, CreateJobStep
  <2>4. CASE BindA3
    BY <1>1, <2>4, BindA3Step
  <2>5. CASE BindA4
    BY <1>1, <2>5, BindA4Step
  <2>6. CASE BindA5
    BY <1>1, <2>6, BindA5Step
  <2>7. CASE BindA7
    BY <1>1, <2>7, BindA7Step
  <2>8. CASE InitializeAdmission
    BY <1>1, <2>8, InitializeAdmissionStep
  <2>9. ASSUME NEW c \in Admitters, CheckAdmission(c)  PROVE SemanticInv'
    BY <1>1, <2>9, CheckAdmissionStep
  <2>10. ASSUME NEW c \in Admitters, Reserve(c)  PROVE SemanticInv'
    BY <1>1, <2>10, ReserveStep
  <2>11. ASSUME NEW c \in Admitters, Withdraw(c)  PROVE SemanticInv'
    BY <1>1, <2>11, WithdrawStep
  <2>12. CASE Release
    BY <1>1, <2>12, ReleaseStep
  <2>. QED
    BY <1>1, <2>1, <2>2, <2>3, <2>4, <2>5, <2>6, <2>7, <2>8, <2>9, <2>10, <2>11, <2>12
       DEF BindingNext
<1>. QED BY <1>1, Initially, PTL DEF BindingSpec

-----------------------------------------------------------------------------
(* SemanticBinding: the two stacks. *)

\* The policies of A7 mean the same to both stacks.
LEMMA PoliciesAreOne == PoliciesAgree
BY DEF PoliciesAgree, Tri, Localities, checkpointProjection, cacheProjection, localityProjection,
       CheckpointPolicyProjection, CachePolicyProjection, DataLocalityProjection, Usage

\* What Pilote has built of the intent of the plan binds to the plan, but for a
\* verifier policy whose id is longer than the published schema allows.
LEMMA PlanDocumentsBind ==
  ASSUME plan \in Plans
  PROVE  /\ \A d \in A4Documents :
              d.intent = plan.intent => BindingA4(d.contract, d.intent, plan, d)
         /\ \A d \in A5Documents :
              d.intent = plan.intent => BindingA5(d.contract, d.intent, plan, d)
         /\ \A d \in A6Documents :
              d.intent = plan.intent =>
                /\ BindingA6(d, plan, [contract |-> d.contract, intent |-> d.intent, max |-> d.max])
                /\ RuntimeClasses(d.class) = RequiredClasses(d.class)
         /\ VerifierBound(plan.intent, plan.verifier) /\ plan.mode = plan.verifier.mode
              => (BindingA3(plan.intent, plan.verifier, plan)
                    <=> plan.verifier.idLength \in PublishedIdLengths)
<1>1. ASSUME NEW d \in A4Documents, d.intent = plan.intent
      PROVE  BindingA4(d.contract, d.intent, plan, d)
  BY <1>1, PlanFields, A4Facts DEF SemanticA4, ValidA4, BindingA4, RuntimeValidA4
<1>2. ASSUME NEW d \in A5Documents, d.intent = plan.intent
      PROVE  BindingA5(d.contract, d.intent, plan, d)
  BY <1>2, PlanFields, A5Facts DEF SemanticA5, ValidA5, BindingA5, RuntimeValidA5
<1>3. ASSUME NEW d \in A6Documents, d.intent = plan.intent
      PROVE  /\ BindingA6(d, plan, [contract |-> d.contract, intent |-> d.intent, max |-> d.max])
             /\ RuntimeClasses(d.class) = RequiredClasses(d.class)
  <2>1. RuntimeValidA6(d)
    BY A6Facts DEF SemanticA6, ValidA6, RuntimeValidA6, RuntimeCap, ParallelismCap
  <2>2. /\ plan.contract = d.contract
        /\ plan.intent = d.intent
        /\ plan.parallelism = d.parallelism
        /\ plan.dependencies = d.dependencies
    BY <1>3, PlanFields, A6Facts DEF SemanticA6
  <2>3. BindingA6(d, plan, [contract |-> d.contract, intent |-> d.intent, max |-> d.max])
    BY <2>1, <2>2 DEF BindingA6
  <2>4. RuntimeClasses(d.class) = RequiredClasses(d.class)
    BY DEF RuntimeClasses, RequiredClasses, Realizations
  <2>. QED BY <2>3, <2>4
<1>4. ASSUME VerifierBound(plan.intent, plan.verifier), plan.mode = plan.verifier.mode
      PROVE  BindingA3(plan.intent, plan.verifier, plan)
               <=> plan.verifier.idLength \in PublishedIdLengths
  <2>1. RuntimeValidVerifierPolicy(plan.verifier)
          <=> plan.verifier.idLength \in PublishedIdLengths
    BY <1>4 DEF VerifierBound, ValidVerifierPolicy, RuntimeValidVerifierPolicy,
                PublishedIdLengths
  <2>. QED BY <1>4, <2>1, PlanFields DEF VerifierBound, BindingA3
<1>. QED BY <1>1, <1>2, <1>3, <1>4

-----------------------------------------------------------------------------
\* The names each stack has written down are the same, but for what A6 and A7 forbid.
LEMMA KeysAreOne ==
  /\ RUNTIME_POLICY_KEYS = POLICY_KEYS
  /\ RUNTIME_A4_KEYS = A4_KEYS
  /\ RUNTIME_A5_KEYS = A5_KEYS
  /\ RUNTIME_A6_KEYS = A6_KEYS
  /\ FORBIDDEN_CONCRETE_INFRA_KEYS = FORBIDDEN_KEYS
<1>1. RUNTIME_POLICY_KEYS = POLICY_KEYS
  BY Zenon DEF RUNTIME_POLICY_KEYS, POLICY_KEYS
<1>2. RUNTIME_A4_KEYS = A4_KEYS
  BY Zenon DEF RUNTIME_A4_KEYS, A4_KEYS
<1>3. RUNTIME_A5_KEYS = A5_KEYS
  BY Zenon DEF RUNTIME_A5_KEYS, A5_KEYS
<1>4. RUNTIME_A6_KEYS = A6_KEYS
  BY Zenon DEF RUNTIME_A6_KEYS, A6_KEYS
<1>5. FORBIDDEN_CONCRETE_INFRA_KEYS = FORBIDDEN_KEYS
  BY Zenon DEF FORBIDDEN_CONCRETE_INFRA_KEYS, FORBIDDEN_KEYS
<1>. QED BY <1>1, <1>2, <1>3, <1>4, <1>5

\* The Runtime forbids no name that Pilote allows, and of A3 to A5 the same.
LEMMA RuntimeForbidsNoMore ==
  ASSUME NEW type
  PROVE  RuntimeForbidden(type) \subseteq Forbidden(type)
<1>1. RUNTIME_A4_FORBIDDEN = A4_FORBIDDEN /\ RUNTIME_A5_FORBIDDEN = A5_FORBIDDEN
  BY KeysAreOne, Zenon
     DEF RUNTIME_A4_FORBIDDEN, A4_FORBIDDEN, RUNTIME_A5_FORBIDDEN, A5_FORBIDDEN
<1>2. RUNTIME_A6_FORBIDDEN \subseteq A6_FORBIDDEN
  BY DEF RUNTIME_A6_FORBIDDEN, A6_FORBIDDEN, FORBIDDEN_KEYS
<1>3. RUNTIME_A7_FORBIDDEN \subseteq A7_FORBIDDEN
  BY DEF RUNTIME_A7_FORBIDDEN, A7_FORBIDDEN, FORBIDDEN_KEYS
<1>. QED BY <1>1, <1>2, <1>3, KeysAreOne DEF RuntimeForbidden, Forbidden

LEMMA ForbiddenIsOne ==
  ASSUME NEW type \in {"A3", "A4", "A5"}
  PROVE  RuntimeForbidden(type) = Forbidden(type)
<1>1. RUNTIME_A4_FORBIDDEN = A4_FORBIDDEN /\ RUNTIME_A5_FORBIDDEN = A5_FORBIDDEN
  BY KeysAreOne, Zenon
     DEF RUNTIME_A4_FORBIDDEN, A4_FORBIDDEN, RUNTIME_A5_FORBIDDEN, A5_FORBIDDEN
<1>. QED BY <1>1, KeysAreOne DEF RuntimeForbidden, Forbidden

\* Of every document, whatever its type and fields: the Runtime refuses none for its
\* fields that Pilote accepts, and accepts no A3, A4 or A5 that Pilote refuses.
THEOREM FieldsAgreeOnEvery ==
  ASSUME NEW type, NEW document
  PROVE  /\ PiloteAccepts(type, document) => RuntimeAccepts(type, document)
         /\ type \in {"A3", "A4", "A5"} /\ RuntimeAccepts(type, document)
              => PiloteAccepts(type, document)
<1>1. ASSUME type \in DOMAIN RuntimeKeys
      PROVE  type \in DocumentTypes /\ PiloteKeys[type] = RuntimeKeys[type]
  BY <1>1, KeysAreOne DEF PiloteKeys, RuntimeKeys, DocumentTypes
<1>2. Clean(document, Forbidden(type)) => Clean(document, RuntimeForbidden(type))
  BY RuntimeForbidsNoMore DEF Clean
<1>3. type \in {"A3", "A4", "A5"} =>
        (Clean(document, RuntimeForbidden(type)) <=> Clean(document, Forbidden(type)))
  BY ForbiddenIsOne
<1>4. type \in {"A3", "A4", "A5"} => type \in DOMAIN RuntimeKeys
  BY DEF RuntimeKeys
<1>. QED BY <1>1, <1>2, <1>3, <1>4 DEF PiloteAccepts, RuntimeAccepts

\* So it is of the documents of FieldsAgree.
LEMMA FieldsAreOne == FieldsAgree
BY FieldsAgreeOnEvery DEF FieldsAgree

-----------------------------------------------------------------------------
\* Both stacks project a state alike.
LEMMA ProjectionsAreOne ==
  ASSUME NEW state
  PROVE  A5TProjection(state) = TerminalProjection(state)
BY DEF A5TProjection, TerminalProjection, A5T_TERMINAL_STATES, EXECUTION_TERMINAL_STATES

\* Evidence that ends a session, whoever wrote it and whatever else it says, is of a
\* state that is terminal for Pilote, asks for no reconciliation and implies no
\* acceptance.
THEOREM EndIsTerminal ==
  ASSUME NEW e, EvidenceOfEnd(e)
  PROVE  /\ TerminalProjection(e.status.execution).terminal
         /\ ~e.reconcile
         /\ ~e.accepted
<1>1. /\ e.reconcile = A5TProjection(e.status.execution).reconcile
      /\ e.accepted = FALSE
      /\ A5TProjection(e.status.execution).terminal
  BY DEF EvidenceOfEnd, ValidEvidence
<1>2. /\ A5TProjection(e.status.execution).terminal
           <=> e.status.execution \in A5T_TERMINAL_STATES
      /\ A5TProjection(e.status.execution).reconcile
           <=> e.status.execution = "OUTCOME_UNKNOWN"
  BY DEF A5TProjection
<1>3. e.status.execution # "OUTCOME_UNKNOWN"
  BY <1>1, <1>2 DEF A5T_TERMINAL_STATES
<1>. QED BY <1>1, <1>2, <1>3, ProjectionsAreOne

\* The rules for the end of an execution are one.
LEMMA TerminalRulesAreOne == TerminalRulesAgree
<1>1. ValidTerminalBinding(TerminalBinding)
  <2>1. EXECUTION_TERMINAL_STATES \cup EXECUTION_NON_TERMINAL_STATES = EXECUTION_STATES
    BY DEF EXECUTION_STATES, EXECUTION_TERMINAL_STATES, EXECUTION_NON_TERMINAL_STATES
  <2>2. EXECUTION_TERMINAL_STATES \cap EXECUTION_NON_TERMINAL_STATES = {}
    BY DEF EXECUTION_TERMINAL_STATES, EXECUTION_NON_TERMINAL_STATES
  <2>. QED BY <2>1, <2>2 DEF ValidTerminalBinding, TerminalBinding
<1>2. /\ A5T_EXECUTION_STATES = TerminalBinding.states
      /\ A5T_NON_TERMINAL_STATES = TerminalBinding.nonTerminal
  BY DEF A5T_EXECUTION_STATES, A5T_NON_TERMINAL_STATES, TerminalBinding, EXECUTION_STATES,
         EXECUTION_NON_TERMINAL_STATES
<1>3. ASSUME NEW s, ValidStatus(s)
      PROVE  ValidEvidence(BuiltEvidence("s", s)) <=> s.session = "s"
  BY <1>3 DEF ValidEvidence, BuiltEvidence
<1>. QED BY <1>1, <1>2, <1>3, ProjectionsAreOne, EndIsTerminal DEF TerminalRulesAgree

-----------------------------------------------------------------------------
\* The profiles of the sealed artifact.
Profile42 == CompatProfile("COMPAT_PROFILE_REV42_TASK_V1", "REV42_TASK_V1", "90b01621", "bb36e0ee")
Profile45 ==
  CompatProfile("COMPAT_PROFILE_REV45_PHASE_V1", "REV45_PHASE_V1", "3439a724", "b758045a")
Profile50 ==
  CompatProfile("COMPAT_PROFILE_REV50_FRAMEWORK_V1", "REV50_FRAMEWORK_V1", "141fe59a", "fca1cea7")

\* The content of the sealed artifact is what the tables of the Runtime hold.
LEMMA Sealed ==
  /\ SEALED_ARTIFACT.allowed = {}
  /\ SEALED_ARTIFACT.profiles = {Profile42, Profile45, Profile50}
  /\ SEALED_ARTIFACT.registry = [h \in {"bb36e0ee", "b758045a", "fca1cea7"} |-> "ACTIVE"]
  /\ SEALED_ARTIFACT.safe = SAFE_DEFAULTS
  /\ SEALED_ARTIFACT.derived = DERIVED_DEFAULTS
  /\ SEALED_ARTIFACT.explicit = EXPLICIT_REV51
  /\ SEALED_ARTIFACT.hardening = HARDENING_ALLOW
  /\ SEALED_ARTIFACT.forbidden = HARDENING_FORBID_TARGETS
<1>1. /\ SEALED_ARTIFACT.allowed = {}
      /\ SEALED_ARTIFACT.profiles = {Profile42, Profile45, Profile50}
      /\ SEALED_ARTIFACT.registry = [h \in {"bb36e0ee", "b758045a", "fca1cea7"} |-> "ACTIVE"]
  BY DEF SEALED_ARTIFACT, Profile42, Profile45, Profile50
<1>2. SEALED_ARTIFACT.safe = SAFE_DEFAULTS
  BY DEF SEALED_ARTIFACT, SAFE_DEFAULTS
<1>3. SEALED_ARTIFACT.derived = DERIVED_DEFAULTS
  BY DEF SEALED_ARTIFACT, DERIVED_DEFAULTS
<1>4. SEALED_ARTIFACT.explicit = EXPLICIT_REV51
  BY DEF SEALED_ARTIFACT, EXPLICIT_REV51
<1>5. SEALED_ARTIFACT.hardening = HARDENING_ALLOW
  BY DEF SEALED_ARTIFACT, HARDENING_ALLOW
<1>6. SEALED_ARTIFACT.forbidden = HARDENING_FORBID_TARGETS
  BY DEF SEALED_ARTIFACT, HARDENING_FORBID_TARGETS
<1>. QED BY <1>1, <1>2, <1>3, <1>4, <1>5, <1>6

\* An artifact is accepted by both or by none.
LEMMA ArtifactsAreOne ==
  ASSUME NEW a
  PROVE  A8Artifact(a) <=> ValidArtifact(a)
<1>1. \A h \in DOMAIN SEALED_ARTIFACT.registry :
        /\ SEALED_ARTIFACT.registry[h] \in Registry_Statuses
        /\ \E p \in SEALED_ARTIFACT.profiles : p.hash = h
  <2>1. /\ Profile42.hash = "bb36e0ee"
        /\ Profile45.hash = "b758045a"
        /\ Profile50.hash = "fca1cea7"
    BY DEF Profile42, Profile45, Profile50, CompatProfile
  <2>. QED BY <2>1, Sealed DEF Registry_Statuses
<1>. QED BY <1>1 DEF A8Artifact, ValidArtifact

\* Whatever the registry says of the three profiles, and whatever family and identity
\* a legacy task has, both stacks select the same profile or block for the same reason.
THEOREM SelectionsAreOne ==
  ASSUME NEW content, NEW family, NEW identity,
         content.profiles = SEALED_ARTIFACT.profiles,
         DOMAIN content.registry = DOMAIN SEALED_ARTIFACT.registry
  PROVE  A8Selected(content, family, identity) = Selected(content, family, identity)
<1>. DEFINE sameFamily == {p \in content.profiles : p.family = family}
           matching == {p \in sameFamily : p.identity = identity}
           blocked(outcome) == [outcome |-> outcome, profile |-> "none"]
<1>1. /\ content.profiles = {Profile42, Profile45, Profile50}
      /\ DOMAIN content.registry = {"bb36e0ee", "b758045a", "fca1cea7"}
  BY Sealed
<1>2. /\ DOMAIN A8_COMPAT_PROFILES = {"REV42_TASK_V1", "REV45_PHASE_V1", "REV50_FRAMEWORK_V1"}
      /\ A8_COMPAT_PROFILES["REV42_TASK_V1"] = Profile42
      /\ A8_COMPAT_PROFILES["REV45_PHASE_V1"] = Profile45
      /\ A8_COMPAT_PROFILES["REV50_FRAMEWORK_V1"] = Profile50
  BY DEF A8_COMPAT_PROFILES, Profile42, Profile45, Profile50
<1>3. /\ Profile42.family = "REV42_TASK_V1"
      /\ Profile45.family = "REV45_PHASE_V1"
      /\ Profile50.family = "REV50_FRAMEWORK_V1"
      /\ {Profile42.hash, Profile45.hash, Profile50.hash} = {"bb36e0ee", "b758045a", "fca1cea7"}
  BY DEF Profile42, Profile45, Profile50, CompatProfile
<1>4. CASE family \notin DOMAIN A8_COMPAT_PROFILES
  <2>1. sameFamily = {}
    BY <1>1, <1>2, <1>3, <1>4
  <2>. QED BY <1>4, <2>1 DEF A8Selected, Selected
<1>5. CASE family \in DOMAIN A8_COMPAT_PROFILES
  <2>. DEFINE expected == A8_COMPAT_PROFILES[family]
             status == content.registry[expected.hash]
  <2>1. /\ expected \in content.profiles
        /\ expected.family = family
        /\ expected.hash \in DOMAIN content.registry
        /\ sameFamily = {expected}
    BY <1>1, <1>2, <1>3, <1>5
  <2>. HIDE DEF expected
  <2>2. CASE expected.identity # identity
    <3>1. matching = {} /\ sameFamily # {}
      BY <2>1, <2>2
    <3>2. Selected(content, family, identity) = blocked("BLOCKED_LEGACY_IDENTITY_MISMATCH")
      BY <3>1, Zenon DEF Selected
    <3>3. A8Selected(content, family, identity) = blocked("BLOCKED_LEGACY_IDENTITY_MISMATCH")
      BY <1>5, <2>2, Zenon DEF A8Selected, expected
    <3>. QED BY <3>2, <3>3
  <2>3. CASE expected.identity = identity
    <3>1. matching = {expected} /\ sameFamily # {} /\ matching # {}
      BY <2>1, <2>3
    <3>2. (CHOOSE p \in matching : TRUE) = expected
      BY <3>1
    <3>3. Selected(content, family, identity) =
            IF NewExecution(status) # "OK" THEN blocked(NewExecution(status))
            ELSE [outcome |-> "OK", profile |-> expected.hash]
      BY <3>1, <3>2, Zenon DEF Selected
    <3>4. A8Selected(content, family, identity) =
            IF status \notin Registry_Statuses THEN blocked(UnknownProfile)
            ELSE IF status = "REVOKED" THEN blocked(Unsupported)
            ELSE [outcome |-> "OK", profile |-> expected.hash]
      BY <1>5, <2>1, <2>3, Zenon DEF A8Selected, expected
    <3>5. UnknownProfile # "OK" /\ Unsupported # "OK"
      BY DEF UnknownProfile, Unsupported
    <3>. QED BY <3>3, <3>4, <3>5 DEF NewExecution
  <2>. QED BY <2>2, <2>3
<1>. QED BY <1>4, <1>5

\* Features, hardenings and verification results are classified alike.
LEMMA FeaturesAreOne ==
  ASSUME NEW f
  PROVE  A8FeatureClass(f) = FeatureClass(SEALED_ARTIFACT, f)
BY Sealed DEF A8FeatureClass, FeatureClass

LEMMA HardeningsAreOne ==
  ASSUME NEW hardening, NEW targets
  PROVE  A8HardeningAllowed(hardening, targets)
           <=> HardeningAllowed(SEALED_ARTIFACT, hardening, targets)
BY Sealed DEF A8HardeningAllowed, HardeningAllowed

LEMMA AcceptancesAreOne ==
  ASSUME NEW receipt
  PROVE  /\ A8Acceptance(receipt) = LegacyAcceptance(receipt)
         /\ A8Oracle(A8Acceptance(receipt)) = LegacyOracle(LegacyAcceptance(receipt))
<1>1. A8Acceptance(receipt) = LegacyAcceptance(receipt)
  BY DEF A8Acceptance, LegacyAcceptance
<1>2. ASSUME NEW p
      PROVE  A8Oracle(p) = LegacyOracle(p)
  BY DEF A8Oracle, LegacyOracle
<1>. QED BY <1>1, <1>2

\* A legacy execution the Runtime binds is one Pilote's functions let through.
LEMMA BoundIsAllowed ==
  ASSUME NEW x, A8Bound(SEALED_ARTIFACT, x)
  PROVE  LET selected == Selected(SEALED_ARTIFACT, x.family, x.identity) IN
           /\ selected.outcome = "OK"
           /\ InputMode(x.mode, x.native, selected.profile) = "OK"
           /\ x.chain.profile = selected.profile
           /\ \A f \in x.features :
                FeatureClass(SEALED_ARTIFACT, f)
                  \notin {"C_REQUIRES_EXPLICIT_REV51_INTENT", "none"}
           /\ x.mustPass => LegacyOracle(LegacyAcceptance(x.receipt)) = "PASS"
<1>. DEFINE selected == Selected(SEALED_ARTIFACT, x.family, x.identity)
<1>1. A8Selected(SEALED_ARTIFACT, x.family, x.identity) = selected
  BY SelectionsAreOne
<1>. HIDE DEF selected
<1>2. /\ selected.outcome = "OK"
      /\ A8InputMode(x.mode, x.native, selected.profile) = "OK"
      /\ A8IdentityChain(x.chain, selected.profile)
      /\ \A f \in x.features :
           A8FeatureClass(f) \in {"A_SAFE_RUNTIME_DEFAULT", "B_DERIVED_FROM_EXISTING_CONTRACT"}
      /\ x.mustPass => A8Oracle(A8Acceptance(x.receipt)) = "PASS"
  BY <1>1 DEF A8Bound
<1>3. InputMode(x.mode, x.native, selected.profile) = "OK"
  BY <1>2 DEF A8InputMode, InputMode, Unsupported, UnknownProfile
<1>4. \A f \in x.features :
        FeatureClass(SEALED_ARTIFACT, f) \notin {"C_REQUIRES_EXPLICIT_REV51_INTENT", "none"}
  BY <1>2, FeaturesAreOne
<1>5. x.mustPass => LegacyOracle(LegacyAcceptance(x.receipt)) = "PASS"
  BY <1>2, AcceptancesAreOne
<1>. QED BY <1>2, <1>3, <1>4, <1>5 DEF A8IdentityChain, selected

\* The rules for legacy tasks are one.
LEMMA LegacyRulesAreOne == LegacyRulesAgree
<1>1. ASSUME NEW content \in Contents
      PROVE  /\ content.profiles = SEALED_ARTIFACT.profiles
             /\ DOMAIN content.registry = DOMAIN SEALED_ARTIFACT.registry
  <2>1. CASE content = SEALED_ARTIFACT
    BY <2>1
  <2>2. ASSUME NEW h \in DOMAIN SEALED_ARTIFACT.registry,
               NEW s \in Registry_Statuses \cup {"RETIRED"},
               content = [SEALED_ARTIFACT EXCEPT !.registry[h] = s]
        PROVE  /\ content.profiles = SEALED_ARTIFACT.profiles
               /\ DOMAIN content.registry = DOMAIN SEALED_ARTIFACT.registry
    BY <2>2 DEF SEALED_ARTIFACT
  <2>3. ASSUME NEW p, content = [SEALED_ARTIFACT EXCEPT !.allowed = {p}]
        PROVE  /\ content.profiles = SEALED_ARTIFACT.profiles
               /\ DOMAIN content.registry = DOMAIN SEALED_ARTIFACT.registry
    BY <2>3 DEF SEALED_ARTIFACT
  <2>. QED BY <2>1, <2>2, <2>3 DEF Contents
<1>2. \A content \in Contents, family \in Families, identity \in Identities :
        A8Selected(content, family, identity) = Selected(content, family, identity)
  BY <1>1, SelectionsAreOne
<1>. QED
  BY <1>2, ArtifactsAreOne, FeaturesAreOne, HardeningsAreOne, AcceptancesAreOne, BoundIsAllowed
     DEF LegacyRulesAgree

-----------------------------------------------------------------------------
\* Every variable of SemanticBinding has its type, the admission store stays in its
\* bounds, and nothing is bound before there is a plan.
THEOREM BindingTypes == BindingSpec => []BindingTypeOK
<1>1. SemanticInv => BindingTypeOK
  BY DEF SemanticInv
<1>. QED  BY <1>1, SemanticInvariant, PTL

\* Documents of several revisions and intents are never mixed in what is bound to
\* a plan, and the worker job runs on a path the intent permits.
THEOREM DocumentsNotMixed == BindingSpec => []NoMixture
<1>1. SemanticInv => NoMixture
  BY DEF SemanticInv
<1>. QED  BY <1>1, SemanticInvariant, PTL

\* Whatever callers of the admission gate reserve and release concurrently, the
\* reservations in use stay within what Pilote allows for the plan's intent.
THEOREM SemanticCapKept == BindingSpec => []WithinSemanticCap
<1>1. SemanticInv => WithinSemanticCap
  BY DEF SemanticInv
<1>. QED  BY <1>1, SemanticInvariant, PTL

\* A document of A4 to A6 Pilote has built of the plan's intent is one the Runtime's own
\* consumer binds to that plan; of the intent's verifier policy it is so exactly when its
\* id is no longer than the published schema allows; no document is refused for fields
\* that Pilote accepts; and the other rules that both stacks have written are one.
THEOREM StacksAlwaysAgree == BindingSpec => []StacksAgree
<1>1. ASSUME SemanticInv  PROVE StacksAgree
  <2>1. plan # Nothing => plan \in Plans
    BY <1>1 DEF SemanticInv, BindingTypeOK
  <2>. QED
    BY <2>1, PoliciesAreOne, FieldsAreOne, TerminalRulesAreOne, LegacyRulesAreOne,
       PlanDocumentsBind DEF StacksAgree
<1>. QED  BY <1>1, SemanticInvariant, PTL
=============================================================================
