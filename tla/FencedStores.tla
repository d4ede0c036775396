---------------------------- MODULE FencedStores ----------------------------
(***************************************************************************)
(* Stores that guard one external mutation each under the execution's      *)
(* fence: durable-worker-job-launch-v1 and durable-resource-ownership-     *)
(* proof-v1.  Their state machines are the same under different names:     *)
(*                                                                         *)
(*   here        AVAILABLE  CLAIMED  UNKNOWN                  COMPLETED    *)
(*   launch      AVAILABLE  CLAIMED  OUTCOME_UNKNOWN          STARTED      *)
(*   ownership   AVAILABLE  IN_USE   RECONCILIATION_REQUIRED  CONSUMED     *)
(*                                                                         *)
(* and FAILED.  A claim takes the lock of the execution state, compares    *)
(* the store's fence with the current one, and runs the store's own        *)
(* compare-and-swap under the store's lock.  The launch awaits it before   *)
(* its finally block releases the execution lock.  The ownership proof     *)
(* returns it without an await, and the lock is released while it runs.    *)
(*                                                                         *)
(* Locks are taken or the call fails.  Under a store's lock a read, the    *)
(* decision and the write are one step (DurableStore), and what is left of *)
(* the execution state is its fence (ExecutionState).                      *)
(***************************************************************************)
EXTENDS Integers, Sequences

CONSTANTS Clients,      \* concurrent callers; each makes call after call
          Operations,   \* operation ids with their idempotency keys
          MaxFence,     \* bound on the fence
          MaxVersion,   \* per store, bound on its STATE_VERSION
          NoClient, NoOperation, NoRequest

\* The claim of a launch awaits its compare-and-swap, the ownership proof's does not.
Stores == {"launch", "ownership"}
Awaited == {"launch"}

ASSUME FencedAssumption ==
  /\ MaxFence \in Nat
  /\ MaxVersion \in [Stores -> Nat]
  /\ NoClient \notin Clients
  /\ NoOperation \notin Operations

VARIABLES fence,      \* FENCE_TOKEN of the execution state, as its fence sequence
          execLock,   \* holder of the execution state's lock
          storeLock,  \* per store, holder of its lock
          status,     \* per store, "ABSENT" before it is initialized
          bound,      \* per store, the fence it is bound to
          active,     \* per store, ACTIVE_OPERATION
          ledger,     \* per store, the requests applied to it
          pc,         \* per client, the step its call takes next
          request     \* per client, the request it makes

vars == <<fence, execLock, storeLock, status, bound, active, ledger, pc, request>>
stores == <<status, bound, active, ledger>>

Kinds == {"claim", "record", "reconcile"}
StoreRequests ==
  [kind : Kinds, store : Stores, expected : Nat, operation : Operations, fence : Nat]
Entries == [kind : Kinds, operation : Operations]
AdvanceRequest == [kind |-> "advance"]

ASSUME NoRequestAssumption == NoRequest \notin StoreRequests \cup {AdvanceRequest}

\* STATE_VERSION counts the requests applied since the store was initialized.
Version(s) == Len(ledger[s])

-----------------------------------------------------------------------------
Init ==
  /\ fence = 0
  /\ execLock = NoClient
  /\ storeLock = [s \in Stores |-> NoClient]
  /\ status = [s \in Stores |-> "ABSENT"]
  /\ bound = [s \in Stores |-> 0]
  /\ active = [s \in Stores |-> NoOperation]
  /\ ledger = [s \in Stores |-> <<>>]
  /\ pc = [c \in Clients |-> "idle"]
  /\ request = [c \in Clients |-> NoRequest]

Goto(c, label) == pc' = [pc EXCEPT ![c] = label]

Return(c) ==
  /\ Goto(c, "idle")
  /\ request' = [request EXCEPT ![c] = NoRequest]

\* Initialization holds both locks throughout: it is one step when they are free.
Register(s) ==
  /\ status[s] = "ABSENT"
  /\ execLock = NoClient
  /\ storeLock[s] = NoClient
  /\ status' = [status EXCEPT ![s] = "AVAILABLE"]
  /\ bound' = [bound EXCEPT ![s] = fence]
  /\ UNCHANGED <<fence, execLock, storeLock, active, ledger, pc, request>>

\* A call begins.  Its caller submits the version and the fence it saw.
BeginStoreCall(c, s, kind, operation) ==
  /\ pc[c] = "idle"
  /\ status[s] # "ABSENT"
  /\ request' = [request EXCEPT ![c] =
       [kind |-> kind, store |-> s, expected |-> Version(s), operation |-> operation,
        fence |-> fence]]
  /\ Goto(c, IF kind = "claim" THEN "execLock" ELSE "storeLock")
  /\ UNCHANGED <<fence, execLock, storeLock, stores>>

BeginAdvance(c) ==
  /\ pc[c] = "idle"
  /\ fence < MaxFence
  /\ request' = [request EXCEPT ![c] = AdvanceRequest]
  /\ Goto(c, "execLock")
  /\ UNCHANGED <<fence, execLock, storeLock, stores>>

LockExecution(c) ==
  /\ pc[c] = "execLock"
  /\ \/ /\ execLock = NoClient
        /\ execLock' = c
        /\ Goto(c, IF request[c].kind = "advance" THEN "advance" ELSE "check")
        /\ UNCHANGED request
     \/ /\ execLock # NoClient
        /\ Return(c)
        /\ UNCHANGED execLock
  /\ UNCHANGED <<fence, storeLock, stores>>

\* The compare-and-swap of the execution state; it may also be refused.
Advance(c) ==
  /\ pc[c] = "advance"
  /\ fence' = IF fence < MaxFence THEN fence + 1 ELSE fence
  /\ Goto(c, "unlockExecution")
  /\ UNCHANGED <<execLock, storeLock, stores, request>>

\* assertBinding, assertExecutionBinding: the store's fence and the submitted
\* one are the execution's.
CheckBinding(c) ==
  /\ pc[c] = "check"
  /\ Goto(c, IF bound[request[c].store] = fence /\ request[c].fence = fence
             THEN "storeLock" ELSE "unlockExecution")
  /\ UNCHANGED <<fence, execLock, storeLock, stores, request>>

LockStore(c) ==
  LET s == request[c].store IN
  /\ pc[c] = "storeLock"
  /\ \/ /\ storeLock[s] = NoClient
        /\ storeLock' = [storeLock EXCEPT ![s] = c]
        /\ Goto(c, "apply")
        /\ UNCHANGED request
     \/ /\ storeLock[s] # NoClient
        /\ IF execLock = c THEN Goto(c, "unlockExecution") /\ UNCHANGED request ELSE Return(c)
        /\ UNCHANGED storeLock
  /\ UNCHANGED <<fence, execLock, stores>>

\* Faulty variant: a claim takes over an operation whose outcome is unknown.
PermittedAgain(s, r) ==
  \/ r.kind = "claim" /\ status[s] \in {"AVAILABLE", "UNKNOWN"}
  \/ r.kind = "record" /\ status[s] = "CLAIMED" /\ active[s] = r.operation
  \/ r.kind = "reconcile" /\ status[s] = "UNKNOWN" /\ active[s] = r.operation

\* The guards of the mutation itself.
Permitted(s, r) ==
  \/ r.kind = "claim" /\ status[s] = "AVAILABLE"
  \/ r.kind = "record" /\ status[s] = "CLAIMED" /\ active[s] = r.operation
  \/ r.kind = "reconcile" /\ status[s] = "UNKNOWN" /\ active[s] = r.operation

\* validateStore, at every read and before every write: the operation is named
\* while it is under way, and only then.
ValidStore(s) ==
  /\ status[s] \in {"AVAILABLE", "COMPLETED"} => active[s] = NoOperation
  /\ status[s] \in {"CLAIMED", "UNKNOWN", "FAILED"} => active[s] # NoOperation

Accepted(s, r) ==
  /\ ValidStore(s)
  /\ r.expected = Version(s)
  /\ Permitted(s, r)
  /\ Version(s) < MaxVersion[s]

\* Faulty variant: a completed operation stays active.
MutatedKeeping(s, r) ==
  \/ /\ r.kind = "claim"
     /\ status' = [status EXCEPT ![s] = "CLAIMED"]
     /\ active' = [active EXCEPT ![s] = r.operation]
  \/ /\ r.kind # "claim"
     /\ \E settled \in {"COMPLETED", "UNKNOWN", "FAILED"} : status' = [status EXCEPT ![s] = settled]
     /\ UNCHANGED active

\* What a mutation makes of the store: a claim names its operation; a completed
\* operation is no longer active, a failed or an unknown one stays named.
Mutated(s, r) ==
  \/ /\ r.kind = "claim"
     /\ status' = [status EXCEPT ![s] = "CLAIMED"]
     /\ active' = [active EXCEPT ![s] = r.operation]
  \/ /\ r.kind # "claim"
     /\ status' = [status EXCEPT ![s] = "COMPLETED"]
     /\ active' = [active EXCEPT ![s] = NoOperation]
  \/ /\ r.kind # "claim"
     /\ \E unsettled \in {"UNKNOWN", "FAILED"} : status' = [status EXCEPT ![s] = unsettled]
     /\ UNCHANGED active

\* apply, applyProofCas, with whatever result the request reports.  A key that was
\* used before is answered from the index or refused as a conflict: either way
\* the call changes nothing, which is possible of every call.
Apply(c) ==
  LET r == request[c]
      s == r.store
  IN /\ pc[c] = "apply"
     /\ \/ /\ Accepted(s, r)
           /\ Mutated(s, r)
           /\ ledger' = [ledger EXCEPT ![s] =
                Append(ledger[s], [kind |-> r.kind, operation |-> r.operation])]
        \/ UNCHANGED <<status, active, ledger>>
     /\ Goto(c, "unlockStore")
     /\ UNCHANGED <<fence, execLock, storeLock, bound, request>>

UnlockStore(c) ==
  /\ pc[c] = "unlockStore"
  /\ storeLock' = [storeLock EXCEPT ![request[c].store] = NoClient]
  /\ IF execLock = c THEN Goto(c, "unlockExecution") /\ UNCHANGED request ELSE Return(c)
  /\ UNCHANGED <<fence, execLock, stores>>

\* The finally block of a call that has finished.
UnlockExecution(c) ==
  /\ pc[c] = "unlockExecution"
  /\ execLock' = NoClient
  /\ Return(c)
  /\ UNCHANGED <<fence, storeLock, stores>>

\* Faulty variant: the launch does not await its compare-and-swap either.
UnlockExecutionAlways(c) ==
  /\ pc[c] \in {"storeLock", "apply", "unlockStore"}
  /\ execLock = c
  /\ execLock' = NoClient
  /\ UNCHANGED <<fence, storeLock, stores, pc, request>>

\* The finally block of a claim that did not await its compare-and-swap runs
\* at any time after the compare-and-swap was started.
UnlockExecutionEarly(c) ==
  /\ pc[c] \in {"storeLock", "apply", "unlockStore"}
  /\ execLock = c
  /\ request[c].store \notin Awaited
  /\ execLock' = NoClient
  /\ UNCHANGED <<fence, storeLock, stores, pc, request>>

Step(c) ==
  \/ LockExecution(c)
  \/ Advance(c)
  \/ CheckBinding(c)
  \/ LockStore(c)
  \/ Apply(c)
  \/ UnlockStore(c)
  \/ UnlockExecution(c)
  \/ UnlockExecutionEarly(c)

Next ==
  \/ \E s \in Stores : Register(s)
  \/ \E c \in Clients :
       \/ \E s \in Stores, kind \in Kinds, operation \in Operations :
            BeginStoreCall(c, s, kind, operation)
       \/ BeginAdvance(c)
       \/ Step(c)

Spec == Init /\ [][Next]_vars

-----------------------------------------------------------------------------
(* Properties. *)

Labels == {"idle", "execLock", "advance", "check", "storeLock", "apply", "unlockStore",
           "unlockExecution"}
Statuses == {"ABSENT", "AVAILABLE", "CLAIMED", "UNKNOWN", "COMPLETED", "FAILED"}

\* Every variable has its type, and validateStore has nothing to refuse in what
\* the mutations make of a store: the operation is named while it is under way.
TypeOK ==
  /\ fence \in 0 .. MaxFence
  /\ execLock \in Clients \cup {NoClient}
  /\ storeLock \in [Stores -> Clients \cup {NoClient}]
  /\ status \in [Stores -> Statuses]
  /\ bound \in [Stores -> 0 .. MaxFence]
  /\ active \in [Stores -> Operations \cup {NoOperation}]
  /\ \A s \in Stores : ValidStore(s) /\ (status[s] = "ABSENT" => active[s] = NoOperation)
  /\ ledger \in [Stores -> Seq(Entries)]
  /\ pc \in [Clients -> Labels]
  /\ request \in [Clients -> StoreRequests \cup {AdvanceRequest, NoRequest}]

\* "SECOND_MUTATION_DENIED": whatever is claimed, retried, recorded and
\* reconciled, by whomever and in whatever order, one store only ever sees one
\* operation, and it is claimed once.
OneOperation ==
  \A s \in Stores : \A i, j \in 1 .. Len(ledger[s]) :
    /\ ledger[s][i].operation = ledger[s][j].operation
    /\ ledger[s][i].kind = "claim" <=> i = 1

\* The launch store is a OneShotClaim: its claim happens at most once, under the
\* fence it was registered with, and the operation that made it settles it.
FirstOperation(s) == IF ledger[s] = <<>> THEN NoOperation ELSE ledger[s][1].operation
Launch == INSTANCE OneShotClaim WITH status <- status["launch"], bound <- bound["launch"],
                                     operation <- FirstOperation("launch")
ImplementsOneShotClaim == Launch!Spec

\* "It re-reads the authoritative execution state, verifies the execution
\* lineage and submitted fence, and atomically changes the proof from
\* AVAILABLE to IN_USE" (R51_P2N_DURABLE_RESOURCE_OWNERSHIP_PROOF).
ClaimIsFenced ==
  [][\A s \in Stores : status[s] = "AVAILABLE" /\ status'[s] = "CLAIMED" => fence = bound[s]]_vars
=============================================================================
