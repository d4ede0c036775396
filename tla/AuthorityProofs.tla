--------------------------- MODULE AuthorityProofs ---------------------------
(***************************************************************************)
(* Who may act: the claims of a launch and of an ownership proof under the *)
(* execution's fence (FencedStores), and the stores that let a worker run  *)
(* its next job (WorkerAuthority).  The safety properties of both, for     *)
(* every number of callers, operations, fences, versions, attestations and *)
(* expiry times.                                                           *)
(*                                                                         *)
(* OneOperation needs that the ledger starts with the claim of the active  *)
(* operation.  The refinement of OneShotClaim needs, besides, that an      *)
(* awaited claim holds the execution lock from its comparison of fences to *)
(* the end of its compare-and-swap, so that neither the execution's fence  *)
(* nor the store's can change in between.                                  *)
(*                                                                         *)
(* A worker's authority needs that what was decided without a lock and is  *)
(* still to be applied is either decided on an older version, and refused, *)
(* or of the attestation that is there; that a claim is entered into its   *)
(* boundary's index once; and that a revoked credential stays revoked.     *)
(***************************************************************************)
EXTENDS FencedStores, WorkerAuthority, TLAPS

-----------------------------------------------------------------------------
(* FencedStores. *)

USE FencedAssumption, NoRequestAssumption DEF ValidStore

InStore == {"storeLock", "apply", "unlockStore"}

\* Where a call is, what it asks for and whether it holds the execution lock.
CallsInv ==
  \A c \in Clients :
    /\ pc[c] = "execLock" =>
         \/ request[c] = AdvanceRequest
         \/ request[c] \in StoreRequests /\ request[c].kind = "claim"
    /\ pc[c] = "check" => request[c] \in StoreRequests /\ request[c].kind = "claim"
    /\ pc[c] \in InStore => request[c] \in StoreRequests
    /\ pc[c] \in {"advance", "check", "unlockExecution"} => execLock = c
    /\ pc[c] \in {"idle", "execLock"} => execLock # c

\* A claim that awaits its compare-and-swap keeps the lock and the fences.
AwaitedInv ==
  \A c \in Clients :
    pc[c] \in InStore /\ request[c].kind = "claim" /\ request[c].store \in Awaited =>
      execLock = c /\ bound[request[c].store] = fence

\* The ledger of a store starts with the claim of its operation.
LedgerInv ==
  \A s \in Stores :
    /\ status[s] \in {"ABSENT", "AVAILABLE"} => ledger[s] = <<>>
    /\ status[s] \in {"CLAIMED", "UNKNOWN", "COMPLETED", "FAILED"} => ledger[s] # <<>>
    /\ status[s] \in {"CLAIMED", "UNKNOWN"} => active[s] = ledger[s][1].operation

IInv == TypeOK /\ CallsInv /\ AwaitedInv /\ LedgerInv /\ OneOperation

-----------------------------------------------------------------------------
LEMMA InitInv == Init => IInv
BY DEF Init, IInv, TypeOK, CallsInv, AwaitedInv, LedgerInv, OneOperation, Labels, Statuses,
       Stores, InStore

\* The type of a request a caller makes.
LEMMA RequestType ==
  ASSUME NEW s \in Stores, NEW k \in Kinds, NEW o \in Operations, NEW v \in Nat, NEW f \in Nat
  PROVE  [kind |-> k, store |-> s, expected |-> v, operation |-> o, fence |-> f]
           \in StoreRequests
BY DEF StoreRequests

\* What an accepted request does to its store.
LEMMA Mutation ==
  ASSUME TypeOK, NEW c \in Clients, request[c] \in StoreRequests, Apply(c)
  PROVE  \/ UNCHANGED <<status, active, ledger>>
         \/ /\ Permitted(request[c].store, request[c])
            /\ Mutated(request[c].store, request[c])
            /\ ledger' = [ledger EXCEPT ![request[c].store] =
                 Append(ledger[request[c].store],
                        [kind |-> request[c].kind, operation |-> request[c].operation])]
BY DEF Apply, Accepted

\* What a compare-and-swap makes of the stores keeps their invariants.
LEMMA StoresStep ==
  ASSUME IInv, NEW c \in Clients, Apply(c)
  PROVE  /\ status' \in [Stores -> Statuses]
         /\ active' \in [Stores -> Operations \cup {NoOperation}]
         /\ ledger' \in [Stores -> Seq(Entries)]
         /\ \A s \in Stores :
              /\ status'[s] \in {"ABSENT", "AVAILABLE", "COMPLETED"} => active'[s] = NoOperation
              /\ status'[s] \in {"CLAIMED", "UNKNOWN", "FAILED"} => active'[s] \in Operations
         /\ LedgerInv'
         /\ OneOperation'
<1>. DEFINE r == request[c]
            s == r.store
            e == [kind |-> r.kind, operation |-> r.operation]
<1>1. r \in StoreRequests
  BY DEF IInv, CallsInv, Apply, InStore
<1>2. s \in Stores /\ e \in Entries /\ r.kind \in Kinds /\ r.operation \in Operations
  BY <1>1 DEF StoreRequests, Entries
<1>. HIDE DEF r, s, e
<1>3. CASE UNCHANGED <<status, active, ledger>>
  BY <1>3 DEF IInv, TypeOK, LedgerInv, OneOperation
<1>4. CASE /\ Permitted(s, r) /\ Mutated(s, r)
           /\ ledger' = [ledger EXCEPT ![s] = Append(ledger[s], e)]
  <2>1. status' \in [Stores -> Statuses] /\ active' \in [Stores -> Operations \cup {NoOperation}]
    BY <1>2, <1>4 DEF Mutated, IInv, TypeOK, Statuses
  <2>2. ledger' \in [Stores -> Seq(Entries)]
    BY <1>2, <1>4 DEF IInv, TypeOK
  <2>3. \A t \in Stores \ {s} : /\ status'[t] = status[t] /\ active'[t] = active[t]
                                /\ ledger'[t] = ledger[t]
    BY <1>2, <1>4 DEF Mutated, IInv, TypeOK
  <2>4. /\ ledger'[s] = Append(ledger[s], e)
        /\ ledger[s] \in Seq(Entries)
        /\ Len(ledger'[s]) = Len(ledger[s]) + 1
        /\ ledger'[s] # <<>>
        /\ ledger'[s][Len(ledger[s]) + 1] = e
        /\ \A i \in 1 .. Len(ledger[s]) : ledger'[s][i] = ledger[s][i]
    <3>1. ledger \in [Stores -> Seq(Entries)]
      BY DEF IInv, TypeOK
    <3>2. ledger'[s] = Append(ledger[s], e) /\ ledger[s] \in Seq(Entries)
      BY <1>2, <1>4, <3>1
    <3>3. \A q \in Seq(Entries) :
            /\ Len(Append(q, e)) = Len(q) + 1
            /\ Append(q, e) # <<>>
            /\ Append(q, e)[Len(q) + 1] = e
            /\ \A i \in 1 .. Len(q) : Append(q, e)[i] = q[i]
      BY <1>2
    <3>. QED  BY <3>2, <3>3
  <2>5. CASE r.kind = "claim"
    <3>1. status[s] = "AVAILABLE" /\ status'[s] = "CLAIMED" /\ active'[s] = r.operation
      BY <1>2, <1>4, <2>5 DEF Permitted, Mutated, IInv, TypeOK
    <3>2. ledger[s] = <<>>
      BY <1>2, <3>1 DEF IInv, LedgerInv
    <3>3. Len(ledger'[s]) = 1 /\ ledger'[s][1] = e
      BY <2>4, <3>2
    <3>4. e.kind = "claim" /\ e.operation = r.operation
      BY <2>5 DEF e
    <3>5. LedgerInv'
      BY <1>2, <2>3, <2>4, <3>1, <3>3, <3>4 DEF IInv, LedgerInv
    <3>6. OneOperation'
      BY <1>2, <2>3, <3>3, <3>4 DEF IInv, OneOperation
    <3>. QED  BY <1>2, <2>1, <2>2, <2>3, <3>1, <3>5, <3>6 DEF IInv, TypeOK
  <2>6. CASE r.kind # "claim"
    <3>1. /\ status[s] \in {"CLAIMED", "UNKNOWN"} /\ active[s] = r.operation
          /\ status'[s] \in {"COMPLETED", "UNKNOWN", "FAILED"}
          /\ status'[s] = "COMPLETED" => active'[s] = NoOperation
          /\ status'[s] # "COMPLETED" => active'[s] = r.operation
      BY <1>2, <1>4, <2>6 DEF Permitted, Mutated, IInv, TypeOK
    <3>2. ledger[s] # <<>> /\ active[s] = ledger[s][1].operation
      BY <1>2, <3>1 DEF IInv, LedgerInv
    <3>3. Len(ledger[s]) \in Nat /\ Len(ledger[s]) >= 1
      BY <2>4, <3>2
    <3>4. ledger'[s][1] = ledger[s][1]
      BY <2>4, <3>3
    <3>5. e.kind # "claim" /\ e.operation = ledger[s][1].operation
      BY <2>6, <3>1, <3>2 DEF e
    <3>6. LedgerInv'
      BY <1>2, <2>3, <2>4, <3>1, <3>2, <3>4 DEF IInv, LedgerInv
    <3>7. OneOperation'
      <4>1. SUFFICES ASSUME NEW t \in Stores,
                            NEW i \in 1 .. Len(ledger'[t]), NEW j \in 1 .. Len(ledger'[t])
                     PROVE  /\ ledger'[t][i].operation = ledger'[t][j].operation
                            /\ ledger'[t][i].kind = "claim" <=> i = 1
        BY DEF OneOperation
      <4>2. CASE t # s
        BY <2>3, <4>2 DEF IInv, OneOperation
      <4>3. CASE t = s
        <5>1. \A k \in 1 .. Len(ledger[s]) :
                /\ ledger[s][k].operation = ledger[s][1].operation
                /\ ledger[s][k].kind = "claim" <=> k = 1
          BY <1>2, <3>3 DEF IInv, OneOperation
        <5>2. \A k \in 1 .. Len(ledger'[s]) :
                /\ ledger'[s][k].operation = ledger[s][1].operation
                /\ ledger'[s][k].kind = "claim" <=> k = 1
          BY <2>4, <3>3, <3>5, <5>1
        <5>. QED  BY <4>3, <5>2
      <4>. QED  BY <4>2, <4>3
    <3>. QED  BY <1>2, <2>1, <2>2, <2>3, <3>1, <3>6, <3>7 DEF IInv, TypeOK
  <2>. QED  BY <2>5, <2>6
<1>. QED  BY <1>1, <1>3, <1>4, Mutation DEF IInv, r, s, e

-----------------------------------------------------------------------------
\* Every step that leaves the stores alone keeps what is known of them.
LEMMA StoresKept ==
  ASSUME IInv, UNCHANGED stores
  PROVE  LedgerInv' /\ OneOperation'
BY DEF IInv, stores, LedgerInv, OneOperation

LEMMA StepTypes ==
  ASSUME IInv, Next
  PROVE  TypeOK'
<1>. USE DEF IInv, TypeOK, stores
<1>1. ASSUME NEW s \in Stores, Register(s)  PROVE TypeOK'
  <2>1. status' = [status EXCEPT ![s] = "AVAILABLE"] /\ "AVAILABLE" \in Statuses
    BY <1>1 DEF Register, Statuses
  <2>2. /\ status' \in [Stores -> Statuses]
        /\ bound' \in [Stores -> 0 .. MaxFence]
    BY <1>1, <2>1 DEF Register
  <2>3. \A t \in Stores :
          /\ status'[t] \in {"ABSENT", "AVAILABLE", "COMPLETED"} => active'[t] = NoOperation
          /\ status'[t] \in {"CLAIMED", "UNKNOWN", "FAILED"} => active'[t] \in Operations
    BY <1>1, <2>1 DEF Register
  <2>. QED  BY <1>1, <2>2, <2>3 DEF Register
<1>2. ASSUME NEW c \in Clients, NEW s \in Stores, NEW kind \in Kinds,
             NEW operation \in Operations, BeginStoreCall(c, s, kind, operation)
      PROVE  TypeOK'
  <2>1. [kind |-> kind, store |-> s, expected |-> Version(s), operation |-> operation,
         fence |-> fence] \in StoreRequests
    <3>1. Version(s) \in Nat /\ fence \in Nat
      BY DEF Version
    <3>. QED  BY <3>1, RequestType
  <2>2. pc' \in [Clients -> Labels]
    BY <1>2 DEF BeginStoreCall, Goto, Labels
  <2>. QED  BY <1>2, <2>1, <2>2 DEF BeginStoreCall
<1>3. ASSUME NEW c \in Clients, BeginAdvance(c)  PROVE TypeOK'
  BY <1>3 DEF BeginAdvance, Goto, Labels
<1>4. ASSUME NEW c \in Clients, Step(c)  PROVE TypeOK'
  <2>1. CASE LockExecution(c)
    BY <2>1 DEF LockExecution, Goto, Return, Labels
  <2>2. CASE Advance(c)
    BY <2>2 DEF Advance, Goto, Labels
  <2>3. CASE CheckBinding(c)
    BY <2>3 DEF CheckBinding, Goto, Labels
  <2>4. CASE LockStore(c)
    <3>1. pc' \in [Clients -> Labels]
      BY <2>4 DEF LockStore, Goto, Return, Labels
    <3>2. request' \in [Clients -> StoreRequests \cup {AdvanceRequest, NoRequest}]
      BY <2>4 DEF LockStore, Return
    <3>3. storeLock' \in [Stores -> Clients \cup {NoClient}]
      BY <2>4 DEF LockStore
    <3>. QED  BY <2>4, <3>1, <3>2, <3>3 DEF LockStore
  <2>5. CASE Apply(c)
    <3>1. /\ pc' \in [Clients -> Labels]
          /\ UNCHANGED <<fence, execLock, storeLock, bound, request>>
      BY <2>5 DEF Apply, Goto, Labels
    <3>. QED  BY <2>5, <3>1, StoresStep
  <2>6. CASE UnlockStore(c)
    BY <2>6 DEF UnlockStore, Goto, Return, Labels
  <2>7. CASE UnlockExecution(c)
    BY <2>7 DEF UnlockExecution, Goto, Return, Labels
  <2>8. CASE UnlockExecutionEarly(c)
    BY <2>8 DEF UnlockExecutionEarly
  <2>. QED  BY <1>4, <2>1, <2>2, <2>3, <2>4, <2>5, <2>6, <2>7, <2>8 DEF Step
<1>. QED  BY <1>1, <1>2, <1>3, <1>4 DEF Next

\* The invariants of calls: a step of c only moves c, and only the holder of the
\* execution lock changes the fence.
LEMMA StepCalls ==
  ASSUME IInv, Next
  PROVE  CallsInv' /\ AwaitedInv'
<1>. USE DEF IInv, TypeOK, stores
<1>1. ASSUME NEW s \in Stores, Register(s)  PROVE CallsInv' /\ AwaitedInv'
  <2>1. \A c \in Clients : execLock # c
    BY <1>1 DEF Register
  <2>. QED  BY <1>1, <2>1 DEF Register, CallsInv, AwaitedInv
<1>2. ASSUME NEW c \in Clients, NEW s \in Stores, NEW kind \in Kinds,
             NEW operation \in Operations, BeginStoreCall(c, s, kind, operation)
      PROVE  CallsInv' /\ AwaitedInv'
  <2>1. request'[c] \in StoreRequests /\ request'[c].kind = kind
    <3>1. Version(s) \in Nat /\ fence \in Nat
      BY DEF Version
    <3>. QED  BY <1>2, <3>1, RequestType DEF BeginStoreCall
  <2>2. /\ pc[c] = "idle"
        /\ pc'[c] = IF kind = "claim" THEN "execLock" ELSE "storeLock"
        /\ \A d \in Clients \ {c} : pc'[d] = pc[d] /\ request'[d] = request[d]
        /\ UNCHANGED <<fence, execLock, bound>>
    BY <1>2 DEF BeginStoreCall, Goto
  <2>3. execLock # c
    BY <2>2 DEF CallsInv
  <2>. QED  BY <2>1, <2>2, <2>3 DEF CallsInv, AwaitedInv, InStore
<1>3. ASSUME NEW c \in Clients, BeginAdvance(c)  PROVE CallsInv' /\ AwaitedInv'
  BY <1>3 DEF BeginAdvance, Goto, CallsInv, AwaitedInv, InStore
<1>4. ASSUME NEW c \in Clients, Step(c)  PROVE CallsInv' /\ AwaitedInv'
  <2>1. CASE LockExecution(c)
    <3>1. /\ pc[c] = "execLock"
          /\ \A d \in Clients \ {c} : pc'[d] = pc[d] /\ request'[d] = request[d]
          /\ UNCHANGED <<fence, bound>>
      BY <2>1 DEF LockExecution, Goto, Return
    <3>2. CASE execLock = NoClient
      <4>1. /\ execLock' = c /\ request'[c] = request[c]
            /\ pc'[c] = IF request[c].kind = "advance" THEN "advance" ELSE "check"
        BY <2>1, <3>2 DEF LockExecution, Goto, Return
      <4>2. AdvanceRequest.kind = "advance"
        BY DEF AdvanceRequest
      <4>3. \A d \in Clients : execLock # d
        BY <3>2
      <4>4. CallsInv'
        BY <3>1, <4>1, <4>2, <4>3 DEF CallsInv, InStore
      <4>5. AwaitedInv'
        BY <3>1, <4>1, <4>3 DEF AwaitedInv, InStore
      <4>. QED  BY <4>4, <4>5
    <3>3. CASE execLock # NoClient
      <4>1. execLock' = execLock /\ pc'[c] = "idle"
        BY <2>1, <3>3 DEF LockExecution, Goto, Return
      <4>. QED  BY <3>1, <4>1 DEF CallsInv, AwaitedInv, InStore
    <3>. QED  BY <3>2, <3>3
  <2>2. CASE Advance(c)
    <3>1. \A d \in Clients \ {c} : execLock # d
      BY <2>2 DEF Advance, CallsInv
    <3>2. /\ pc[c] = "advance" /\ pc'[c] = "unlockExecution"
          /\ \A d \in Clients \ {c} : pc'[d] = pc[d]
          /\ UNCHANGED <<execLock, bound, request>>
      BY <2>2 DEF Advance, Goto
    <3>. QED  BY <3>1, <3>2 DEF CallsInv, AwaitedInv, InStore
  <2>3. CASE CheckBinding(c)
    <3>1. /\ pc[c] = "check"
          /\ pc'[c] = "storeLock" => bound[request[c].store] = fence
          /\ pc'[c] \in {"storeLock", "unlockExecution"}
          /\ \A d \in Clients \ {c} : pc'[d] = pc[d]
          /\ UNCHANGED <<execLock, bound, fence, request>>
      BY <2>3 DEF CheckBinding, Goto
    <3>. QED  BY <3>1 DEF CallsInv, AwaitedInv, InStore
  <2>4. CASE LockStore(c)
    <3>1. /\ pc[c] = "storeLock"
          /\ \/ pc'[c] = "apply" /\ request'[c] = request[c]
             \/ pc'[c] = "unlockExecution" /\ execLock = c
             \/ pc'[c] = "idle" /\ execLock # c
          /\ \A d \in Clients \ {c} : pc'[d] = pc[d] /\ request'[d] = request[d]
          /\ UNCHANGED <<fence, execLock, bound>>
      BY <2>4 DEF LockStore, Goto, Return
    <3>2. CallsInv'
      <4>1. ASSUME NEW d \in Clients, d # c
            PROVE  pc'[d] = pc[d] /\ request'[d] = request[d] /\ execLock' = execLock
        BY <3>1, <4>1
      <4>2. pc[c] \in InStore /\ request[c] \in StoreRequests
        BY <3>1 DEF CallsInv, InStore
      <4>3. CASE pc'[c] = "apply" /\ request'[c] = request[c]
        BY <3>1, <4>1, <4>2, <4>3 DEF CallsInv, InStore
      <4>4. CASE pc'[c] = "unlockExecution" /\ execLock = c
        BY <3>1, <4>1, <4>4 DEF CallsInv, InStore
      <4>5. CASE pc'[c] = "idle" /\ execLock # c
        BY <3>1, <4>1, <4>5 DEF CallsInv, InStore
      <4>. QED  BY <3>1, <4>3, <4>4, <4>5
    <3>3. AwaitedInv'
      <4>. SUFFICES ASSUME NEW d \in Clients,
                           pc'[d] \in InStore, request'[d].kind = "claim",
                           request'[d].store \in Awaited
                    PROVE  execLock' = d /\ bound'[request'[d].store] = fence'
        BY DEF AwaitedInv
      <4>1. pc[d] \in InStore /\ request'[d] = request[d]
        BY <3>1 DEF InStore
      <4>2. execLock = d /\ bound[request[d].store] = fence
        BY <4>1 DEF AwaitedInv
      <4>. QED  BY <3>1, <4>1, <4>2
    <3>. QED  BY <3>2, <3>3
  <2>5. CASE Apply(c)
    <3>1. /\ pc[c] = "apply" /\ pc'[c] = "unlockStore"
          /\ \A d \in Clients \ {c} : pc'[d] = pc[d]
          /\ UNCHANGED <<fence, execLock, bound, request>>
      BY <2>5 DEF Apply, Goto
    <3>. QED  BY <3>1 DEF CallsInv, AwaitedInv, InStore
  <2>6. CASE UnlockStore(c)
    <3>1. /\ pc[c] = "unlockStore"
          /\ IF execLock = c THEN pc'[c] = "unlockExecution" ELSE pc'[c] = "idle"
          /\ \A d \in Clients \ {c} : pc'[d] = pc[d] /\ request'[d] = request[d]
          /\ UNCHANGED <<fence, execLock, bound>>
      BY <2>6 DEF UnlockStore, Goto, Return
    <3>. QED  BY <3>1 DEF CallsInv, AwaitedInv, InStore
  <2>7. CASE UnlockExecution(c)
    BY <2>7 DEF UnlockExecution, Goto, Return, CallsInv, AwaitedInv, InStore
  <2>8. CASE UnlockExecutionEarly(c)
    BY <2>8 DEF UnlockExecutionEarly, CallsInv, AwaitedInv, InStore
  <2>. QED  BY <1>4, <2>1, <2>2, <2>3, <2>4, <2>5, <2>6, <2>7, <2>8 DEF Step
<1>. QED  BY <1>1, <1>2, <1>3, <1>4 DEF Next

LEMMA StepStores ==
  ASSUME IInv, Next
  PROVE  LedgerInv' /\ OneOperation'
<1>1. ASSUME NEW s \in Stores, Register(s)  PROVE LedgerInv' /\ OneOperation'
  <2>1. status' = [status EXCEPT ![s] = "AVAILABLE"] /\ status[s] = "ABSENT"
        /\ UNCHANGED <<active, ledger>> /\ status \in [Stores -> Statuses]
    BY <1>1 DEF Register, IInv, TypeOK
  <2>. QED  BY <2>1 DEF IInv, LedgerInv, OneOperation
<1>2. ASSUME NEW c \in Clients, NEW s \in Stores, NEW kind \in Kinds,
             NEW operation \in Operations, BeginStoreCall(c, s, kind, operation)
      PROVE  LedgerInv' /\ OneOperation'
  BY <1>2, StoresKept DEF BeginStoreCall
<1>3. ASSUME NEW c \in Clients, BeginAdvance(c)  PROVE LedgerInv' /\ OneOperation'
  BY <1>3, StoresKept DEF BeginAdvance
<1>4. ASSUME NEW c \in Clients, Step(c)  PROVE LedgerInv' /\ OneOperation'
  <2>1. CASE Apply(c)
    BY <2>1, StoresStep
  <2>2. CASE ~Apply(c)
    <3>1. UNCHANGED stores
      BY <1>4, <2>2 DEF Step, LockExecution, Advance, CheckBinding, LockStore, UnlockStore,
                       UnlockExecution, UnlockExecutionEarly
    <3>. QED  BY <3>1, StoresKept
  <2>. QED  BY <2>1, <2>2
<1>. QED  BY <1>1, <1>2, <1>3, <1>4 DEF Next

LEMMA StepInv == IInv /\ [Next]_vars => IInv'
<1>1. ASSUME IInv, Next  PROVE IInv'
  BY <1>1, StepTypes, StepCalls, StepStores DEF IInv
<1>2. ASSUME IInv, UNCHANGED vars  PROVE IInv'
  BY <1>2 DEF vars, IInv, TypeOK, CallsInv, AwaitedInv, LedgerInv, OneOperation
<1>. QED  BY <1>1, <1>2

-----------------------------------------------------------------------------
(* The theorems. *)

\* The inductive invariant of the stores and of the calls under way.
THEOREM FencedInvariant == Spec => []IInv
BY InitInv, StepInv, PTL DEF Spec

\* Every variable has its type and validateStore refuses no store it is shown.
THEOREM FencedTypeOK == Spec => []TypeOK
<1>1. IInv => TypeOK
  BY DEF IInv
<1>. QED  BY <1>1, FencedInvariant, PTL

\* "SECOND_MUTATION_DENIED": a store is claimed once, by the one operation that
\* every later request applied to it names.
THEOREM FencedOneOperation == Spec => []OneOperation
<1>1. IInv => OneOperation
  BY DEF IInv
<1>. QED  BY <1>1, FencedInvariant, PTL

-----------------------------------------------------------------------------
(* The launch store implements OneShotClaim. *)

LEMMA LaunchInit == Init => Launch!Init
BY DEF Init, Launch!Init, FirstOperation, Stores

\* A compare-and-swap of the launch is a claim under the current fence, the
\* settling of the claim, or nothing.
LEMMA LaunchApply ==
  ASSUME IInv, NEW c \in Clients, Apply(c)
  PROVE  [Launch!Next]_Launch!abstract
<1>. DEFINE r == request[c]
            s == r.store
            e == [kind |-> r.kind, operation |-> r.operation]
<1>1. r \in StoreRequests /\ pc[c] = "apply"
  BY DEF IInv, CallsInv, Apply, InStore
<1>2. s \in Stores /\ e \in Entries /\ r.kind \in Kinds /\ r.operation \in Operations
  BY <1>1 DEF StoreRequests, Entries
<1>3. UNCHANGED <<fence, bound>> /\ "launch" \in Stores
  BY DEF Apply, Stores
<1>4. s = "launch" /\ r.kind = "claim" => fence = bound["launch"]
  BY <1>1 DEF IInv, AwaitedInv, InStore, Awaited
<1>. HIDE DEF r, s, e
<1>5. CASE \/ UNCHANGED <<status, active, ledger>>
           \/ s # "launch" /\ Mutated(s, r) /\ ledger' = [ledger EXCEPT ![s] = Append(ledger[s], e)]
  <2>1. status'["launch"] = status["launch"] /\ ledger'["launch"] = ledger["launch"]
    BY <1>2, <1>3, <1>5 DEF IInv, TypeOK, Mutated
  <2>. QED  BY <1>3, <2>1 DEF Launch!abstract, FirstOperation
<1>6. CASE /\ s = "launch" /\ Permitted(s, r) /\ Mutated(s, r)
           /\ ledger' = [ledger EXCEPT ![s] = Append(ledger[s], e)]
  <2>1. /\ ledger'["launch"] = Append(ledger["launch"], e)
        /\ ledger["launch"] \in Seq(Entries)
    BY <1>2, <1>6 DEF IInv, TypeOK
  <2>2. CASE r.kind = "claim"
    <3>1. status["launch"] = "AVAILABLE" /\ status'["launch"] = "CLAIMED"
      BY <1>2, <1>6, <2>2 DEF Permitted, Mutated, IInv, TypeOK
    <3>2. ledger["launch"] = <<>>
      BY <1>3, <3>1 DEF IInv, LedgerInv
    <3>3. ledger'["launch"] # <<>> /\ ledger'["launch"][1] = e
      BY <2>1, <3>2, <1>2
    <3>4. FirstOperation("launch")' = r.operation
      BY <3>3 DEF FirstOperation, e
    <3>. QED  BY <1>2, <1>3, <1>4, <1>6, <2>2, <3>1, <3>4 DEF Launch!Next, Launch!Claim
  <2>3. CASE r.kind # "claim"
    <3>1. /\ status["launch"] \in {"CLAIMED", "UNKNOWN"}
          /\ status'["launch"] \in {"COMPLETED", "UNKNOWN", "FAILED"}
      BY <1>2, <1>6, <2>3 DEF Permitted, Mutated, IInv, TypeOK
    <3>2. ledger["launch"] # <<>>
      BY <1>3, <3>1 DEF IInv, LedgerInv
    <3>3. ledger'["launch"] # <<>> /\ ledger'["launch"][1] = ledger["launch"][1]
      BY <2>1, <3>2, <1>2
    <3>4. FirstOperation("launch")' = FirstOperation("launch")
      BY <3>2, <3>3 DEF FirstOperation
    <3>. QED  BY <1>3, <3>1, <3>4 DEF Launch!Next, Launch!Settle
  <2>. QED  BY <2>2, <2>3
<1>. QED  BY <1>1, <1>5, <1>6, Mutation DEF IInv, r, s, e

LEMMA LaunchStep == IInv /\ [Next]_vars => [Launch!Next]_Launch!abstract
<1>. SUFFICES ASSUME IInv, [Next]_vars
              PROVE  [Launch!Next]_Launch!abstract
  OBVIOUS
<1>. DEFINE Same == /\ UNCHANGED <<fence, bound>>
                    /\ status'["launch"] = status["launch"]
                    /\ ledger'["launch"] = ledger["launch"]
<1>1. Same => UNCHANGED Launch!abstract
  BY DEF Launch!abstract, FirstOperation
<1>2. ASSUME NEW s \in Stores, Register(s)  PROVE [Launch!Next]_Launch!abstract
  <2>1. CASE s = "launch"
    <3>1. /\ status["launch"] = "ABSENT" /\ status'["launch"] = "AVAILABLE"
          /\ bound'["launch"] = fence /\ UNCHANGED <<fence, ledger>>
      BY <1>2, <2>1 DEF Register, IInv, TypeOK
    <3>. QED  BY <3>1 DEF Launch!Next, Launch!Register, FirstOperation
  <2>2. CASE s # "launch"
    <3>1. /\ status'["launch"] = status["launch"] /\ bound'["launch"] = bound["launch"]
          /\ UNCHANGED <<fence, ledger>>
      BY <1>2, <2>2 DEF Register, IInv, TypeOK, Stores
    <3>. QED  BY <3>1 DEF Launch!abstract, FirstOperation
  <2>. QED  BY <2>1, <2>2
<1>3. ASSUME NEW c \in Clients, Advance(c)  PROVE [Launch!Next]_Launch!abstract
  <2>1. UNCHANGED <<status, bound, ledger>> /\ fence' \in {fence, fence + 1}
    BY <1>3 DEF Advance, stores
  <2>. QED  BY <2>1 DEF Launch!Next, Launch!AdvanceFence, Launch!abstract, FirstOperation
<1>4. ASSUME NEW c \in Clients, Apply(c)  PROVE [Launch!Next]_Launch!abstract
  BY <1>4, LaunchApply
<1>5. ASSUME NEW c \in Clients, Step(c), ~Apply(c), ~Advance(c)  PROVE Same
  BY <1>5 DEF Step, LockExecution, CheckBinding, LockStore, UnlockStore, UnlockExecution,
              UnlockExecutionEarly, stores
<1>6. ASSUME NEW c \in Clients, NEW s \in Stores, NEW kind \in Kinds,
             NEW operation \in Operations, BeginStoreCall(c, s, kind, operation)
      PROVE  Same
  BY <1>6 DEF BeginStoreCall, stores
<1>7. ASSUME NEW c \in Clients, BeginAdvance(c)  PROVE Same
  BY <1>7 DEF BeginAdvance, stores
<1>8. ASSUME UNCHANGED vars  PROVE Same
  BY <1>8 DEF vars
<1>. HIDE DEF Same
<1>. QED  BY <1>1, <1>2, <1>3, <1>4, <1>5, <1>6, <1>7, <1>8 DEF Next

\* Whatever the calls do to one another, the launch is claimed once, under the
\* fence the store was registered with, and settled by the claiming operation.
THEOREM FencedImplementsOneShotClaim == Spec => ImplementsOneShotClaim
BY LaunchInit, LaunchStep, FencedInvariant, PTL DEF Spec, ImplementsOneShotClaim, Launch!Spec

\* Which stores the fence protects: those whose claim awaits its compare-and-swap.
AwaitedClaims ==
  \A s \in Awaited : status[s] = "AVAILABLE" /\ status'[s] = "CLAIMED" => fence = bound[s]

LEMMA ClaimAwaits == IInv /\ [Next]_vars => AwaitedClaims
<1>. SUFFICES ASSUME IInv, [Next]_vars, NEW s \in Awaited,
                     status[s] = "AVAILABLE", status'[s] = "CLAIMED"
              PROVE  fence = bound[s]
  BY DEF AwaitedClaims
<1>1. s \in Stores
  BY DEF Awaited, Stores
<1>2. ASSUME NEW t \in Stores, Register(t)  PROVE FALSE
  <2>1. status[t] = "ABSENT" /\ status'[s] \in {status[s], "AVAILABLE"}
    BY <1>1, <1>2 DEF Register, IInv, TypeOK
  <2>. QED  BY <2>1
<1>3. ASSUME NEW c \in Clients, Apply(c)  PROVE fence = bound[s]
  <2>. DEFINE r == request[c]
  <2>1. r \in StoreRequests /\ pc[c] = "apply" /\ r.store \in Stores
    BY <1>3 DEF IInv, CallsInv, Apply, InStore, StoreRequests
  <2>2. Permitted(r.store, r) /\ Mutated(r.store, r)
    BY <1>3, <2>1, Mutation DEF IInv
  <2>3. r.store = s
    BY <1>1, <2>1, <2>2 DEF Mutated, IInv, TypeOK
  <2>4. r.kind = "claim"
    BY <2>2, <2>3 DEF Permitted
  <2>. QED  BY <2>1, <2>3, <2>4 DEF IInv, AwaitedInv, InStore
<1>4. ASSUME UNCHANGED status  PROVE FALSE
  BY <1>4
<1>5. ASSUME NEW c \in Clients, Step(c), ~Apply(c)  PROVE UNCHANGED status
  BY <1>5 DEF Step, LockExecution, Advance, CheckBinding, LockStore, UnlockStore,
              UnlockExecution, UnlockExecutionEarly, stores
<1>6. ASSUME NEW c \in Clients, BeginAdvance(c)  PROVE UNCHANGED status
  BY <1>6 DEF BeginAdvance, stores
<1>7. ASSUME NEW c \in Clients, NEW t \in Stores, NEW kind \in Kinds,
             NEW operation \in Operations, BeginStoreCall(c, t, kind, operation)
      PROVE  UNCHANGED status
  BY <1>7 DEF BeginStoreCall, stores
<1>8. UNCHANGED vars => UNCHANGED status
  BY DEF vars
<1>. QED  BY <1>2, <1>3, <1>4, <1>5, <1>6, <1>7, <1>8 DEF Next

\* ClaimIsFenced, which is false of the ownership proof's store, holds of every store whose
\* claim awaits its compare-and-swap under the execution lock.
THEOREM FencedAwaitedClaims == Spec => [][AwaitedClaims]_vars
<1>1. IInv /\ [Next]_vars => [AwaitedClaims]_vars
  BY ClaimAwaits
<1>. QED  BY <1>1, FencedInvariant, PTL DEF Spec

-----------------------------------------------------------------------------
(* WorkerAuthority. *)

\* A session that is not of the current attestation is of one that has expired,
\* and an expiry that is still to be applied to the version that it was decided
\* on finds the attestation it was decided of.
ReadinessInv ==
  /\ readiness.status = "ABSENT" => sessions = {}
  /\ ExpiryIsTimely
  /\ \A a \in sessions : a = readiness.attestation \/ Expiry[a] <= now
  /\ \A c \in Callers : call[c] # None /\ call[c].kind = "expire" =>
       /\ readiness.status # "ABSENT"
       /\ call[c].expected <= readiness.version
       /\ call[c].expected = readiness.version =>
            readiness.status = "READY" /\ Expiry[readiness.attestation] <= now

\* A revocation that passed leaves nothing to revoke, and a receipt is only issued
\* after it.
CredentialInv ==
  /\ credential.operation # None => credential.operation \in begun
  /\ credential.status = "REVOKED" =>
       credential.revocation = "REVOKED" /\ credential.operation = None
  /\ ReusedIsClean

\* One claim at most is ever entered into the boundary's index, when it leaves
\* AVAILABLE for good, and only claims that were entered are authorized.
BoundaryInv ==
  /\ boundary.status \in {"ABSENT", "AVAILABLE"} => boundary.claims = {}
  /\ \A o, p \in boundary.claims : o = p
  /\ \A k \in authorized : k.operation \in boundary.claims

AuthorityInv == AuthorityTypeOK /\ ReadinessInv /\ CredentialInv /\ BoundaryInv

-----------------------------------------------------------------------------
LEMMA AuthorityInitInv == AuthorityInit => AuthorityInv
<1>. SUFFICES ASSUME AuthorityInit  PROVE AuthorityInv
  OBVIOUS
<1>1. AuthorityTypeOK
  <2>1. now \in 0 .. MaxTime
    BY AuthorityAssumption DEF AuthorityInit
  <2>2. /\ readiness \in [status : {"ABSENT", "READY", "EXPIRED"},
                          attestation : Attestations \cup {None}, version : Nat]
        /\ capability \in [status : {"ABSENT", "ACTIVE", "DRIFTED"}, dynamic : BOOLEAN]
        /\ credential \in [status : {"ABSENT", "ACTIVE", "EXPIRED", "REVOKED"},
                           revocation : {"NOT_REQUIRED", "REQUIRED", "IN_PROGRESS",
                                         "OUTCOME_UNKNOWN", "REVOKED"},
                           operation : OperationIds \cup {None}]
    BY DEF AuthorityInit
  <2>3. /\ receipt \in [status : {"ABSENT", "AVAILABLE", "CONSUMED", "EXPIRED", "INVALID"},
                        attestation : sessions \cup {None}]
        /\ boundary \in [status : {"ABSENT", "AVAILABLE", "CLAIMED", "INVALID"},
                         claim : boundary.claims \cup {None}, version : Nat,
                         claims : SUBSET OperationIds]
    BY DEF AuthorityInit
  <2>. QED  BY <2>1, <2>2, <2>3 DEF AuthorityInit, AuthorityTypeOK
<1>2. ReadinessInv /\ CredentialInv /\ BoundaryInv
  BY DEF AuthorityInit, ReadinessInv, ExpiryIsTimely, CredentialInv, ReusedIsClean, BoundaryInv
<1>. QED  BY <1>1, <1>2 DEF AuthorityInv

\* What a step leaves alone keeps its invariant.
LEMMA AuthorityFrame ==
  ASSUME AuthorityInv
  PROVE  /\ UNCHANGED <<now, readiness, sessions, call>> => ReadinessInv'
         /\ UNCHANGED previous => CredentialInv'
         /\ UNCHANGED isolation => BoundaryInv'
<1>1. UNCHANGED <<now, readiness, sessions, call>> => ReadinessInv'
  BY DEF AuthorityInv, ReadinessInv, ExpiryIsTimely
<1>2. UNCHANGED previous => CredentialInv'
  BY DEF AuthorityInv, CredentialInv, ReusedIsClean, previous
<1>3. UNCHANGED isolation => BoundaryInv'
  BY DEF AuthorityInv, BoundaryInv, isolation
<1>. QED  BY <1>1, <1>2, <1>3

LEMMA TickInv ==
  ASSUME AuthorityInv, Tick
  PROVE  AuthorityInv'
<1>. USE DEF AuthorityInv
<1>1. now \in Nat /\ now' = now + 1 /\ now' \in 0 .. MaxTime
  BY AuthorityAssumption DEF Tick, AuthorityTypeOK
<1>2. UNCHANGED <<readiness, sessions, capability, previous, isolation, call>>
  BY DEF Tick
<1>3. AuthorityTypeOK'
  BY <1>1, <1>2 DEF AuthorityTypeOK, previous, isolation
<1>4. \A a \in Attestations : Expiry[a] <= now => Expiry[a] <= now'
  BY <1>1, AuthorityAssumption
<1>5. ReadinessInv'
  <2>1. readiness.status # "ABSENT" => readiness.attestation \in Attestations
    BY DEF AuthorityTypeOK
  <2>2. sessions \subseteq Attestations
    BY DEF AuthorityTypeOK
  <2>. QED  BY <1>2, <1>4, <2>1, <2>2 DEF ReadinessInv, ExpiryIsTimely
<1>. QED  BY <1>2, <1>3, <1>5, AuthorityFrame

LEMMA ReadinessStepInv ==
  ASSUME AuthorityInv, ReadinessStep
  PROVE  AuthorityInv'
<1>. USE DEF AuthorityInv
<1>1. /\ readiness \in [status : {"ABSENT", "READY", "EXPIRED"},
                        attestation : Attestations \cup {None}, version : Nat]
      /\ readiness.status # "ABSENT" => readiness.attestation \in Attestations
      /\ sessions \subseteq Attestations
      /\ call \in [Callers -> Calls \cup {None}]
      /\ now \in Nat /\ Expiry \in [Attestations -> Nat] /\ None \notin Attestations
  BY AuthorityAssumption DEF AuthorityTypeOK
<1>2. ASSUME /\ readiness' \in [status : {"ABSENT", "READY", "EXPIRED"},
                                attestation : Attestations \cup {None}, version : Nat]
             /\ readiness'.status # "ABSENT" => readiness'.attestation # None
             /\ sessions \subseteq sessions' /\ sessions' \subseteq Attestations
             /\ call' \in [Callers -> Calls \cup {None}]
             /\ UNCHANGED <<now, capability, previous, isolation>>
             /\ ReadinessInv'
      PROVE  AuthorityInv'
  <2>1. AuthorityTypeOK'
    BY <1>2 DEF AuthorityTypeOK, previous, isolation
  <2>. QED  BY <1>2, <2>1, AuthorityFrame
<1>3. ASSUME NEW a \in Attestations, RegisterReadiness(a)  PROVE AuthorityInv'
  <2>1. /\ readiness.status = "ABSENT" /\ Expiry[a] > now
        /\ readiness' = [readiness EXCEPT !.status = "READY", !.attestation = a]
        /\ UNCHANGED <<now, sessions, capability, previous, isolation, call>>
    BY <1>3 DEF RegisterReadiness, ValidAttestation
  <2>2. readiness'.status = "READY" /\ readiness'.attestation = a
    BY <1>1, <2>1
  <2>3. ReadinessInv'
    BY <2>1, <2>2 DEF ReadinessInv, ExpiryIsTimely
  <2>. QED  BY <1>1, <1>2, <2>1, <2>2, <2>3
<1>4. ASSUME NEW a \in Attestations, ReplaceAttestation(a)  PROVE AuthorityInv'
  <2>1. /\ readiness.status = "EXPIRED" /\ Expiry[a] > now
        /\ readiness' = [status |-> "READY", attestation |-> a, version |-> readiness.version + 1]
        /\ UNCHANGED <<now, sessions, capability, previous, isolation, call>>
    BY <1>4 DEF ReplaceAttestation, ValidAttestation
  <2>2. \A b \in sessions : Expiry[b] <= now
    BY <2>1 DEF ReadinessInv, ExpiryIsTimely
  <2>3. \A c \in Callers : call[c] # None /\ call[c].kind = "expire" =>
          call[c].expected <= readiness.version /\ call[c].expected \in Nat
    BY <1>1 DEF ReadinessInv, Calls
  <2>4. \A c \in Callers : call[c] # None /\ call[c].kind = "expire" =>
          call[c].expected <= readiness.version + 1 /\ call[c].expected # readiness.version + 1
    BY <1>1, <2>3
  <2>5. ReadinessInv'
    BY <2>1, <2>2, <2>4 DEF ReadinessInv, ExpiryIsTimely
  <2>. QED  BY <1>1, <1>2, <2>1, <2>5
<1>5. ASSUME NEW c \in Callers, BeginExpiry(c)  PROVE AuthorityInv'
  <2>. DEFINE k == [kind |-> "expire", expected |-> readiness.version]
  <2>1. /\ readiness.status = "READY" /\ Expiry[readiness.attestation] <= now
        /\ call' = [call EXCEPT ![c] = k]
        /\ UNCHANGED <<now, readiness, sessions, capability, previous, isolation>>
    BY <1>5 DEF BeginExpiry
  <2>2. k \in Calls
    BY <1>1 DEF Calls
  <2>3. \A d \in Callers : call'[d] = IF d = c THEN k ELSE call[d]
    BY <1>1, <2>1
  <2>4. ReadinessInv'
    BY <1>1, <2>1, <2>3 DEF ReadinessInv, ExpiryIsTimely
  <2>. QED  BY <1>1, <1>2, <2>1, <2>2, <2>4
<1>6. ASSUME NEW c \in Callers, ApplyExpiry(c)  PROVE AuthorityInv'
  <2>1. /\ call[c] # None /\ call[c].kind = "expire"
        /\ call' = [call EXCEPT ![c] = None]
        /\ UNCHANGED <<now, sessions, capability, previous, isolation>>
    BY <1>6 DEF ApplyExpiry
  <2>2. \A d \in Callers : call'[d] # None => call'[d] = call[d]
    BY <1>1, <2>1
  <2>3. CASE call[c].expected = readiness.version
    <3>1. readiness' = [readiness EXCEPT !.status = "EXPIRED", !.version = @ + 1]
      BY <1>6, <2>3 DEF ApplyExpiry
    <3>2. /\ readiness'.status = "EXPIRED" /\ readiness'.version = readiness.version + 1
          /\ readiness'.attestation = readiness.attestation
      BY <1>1, <3>1
    <3>3. readiness.status = "READY" /\ Expiry[readiness.attestation] <= now
      BY <2>1, <2>3 DEF ReadinessInv
    <3>4. \A d \in Callers : call[d] # None /\ call[d].kind = "expire" =>
            call[d].expected <= readiness.version + 1 /\ call[d].expected # readiness.version + 1
      <4>1. \A d \in Callers : call[d] # None /\ call[d].kind = "expire" =>
              call[d].expected <= readiness.version /\ call[d].expected \in Nat
        BY <1>1 DEF ReadinessInv, Calls
      <4>. QED  BY <1>1, <4>1
    <3>5. ReadinessInv'
      BY <2>1, <2>2, <3>2, <3>3, <3>4 DEF ReadinessInv, ExpiryIsTimely
    <3>6. readiness'.status # "ABSENT" /\ readiness'.attestation # None
      BY <1>1, <3>2, <3>3
    <3>7. readiness' \in [status : {"ABSENT", "READY", "EXPIRED"},
                          attestation : Attestations \cup {None}, version : Nat]
      <4>1. readiness' = [status |-> "EXPIRED", attestation |-> readiness.attestation,
                          version |-> readiness.version + 1]
        BY <1>1, <3>1
      <4>2. readiness.version + 1 \in Nat
        BY <1>1
      <4>. QED  BY <1>1, <4>1, <4>2
    <3>8. call' \in [Callers -> Calls \cup {None}]
      BY <1>1, <2>1
    <3>. QED  BY <1>1, <1>2, <2>1, <3>5, <3>6, <3>7, <3>8
  <2>4. CASE call[c].expected # readiness.version
    <3>1. readiness' = readiness
      BY <1>6, <2>4 DEF ApplyExpiry
    <3>2. ReadinessInv'
      BY <2>1, <2>2, <3>1 DEF ReadinessInv, ExpiryIsTimely
    <3>. QED  BY <1>1, <1>2, <2>1, <3>1, <3>2
  <2>. QED  BY <2>3, <2>4
<1>7. CASE BindSession
  <2>1. /\ readiness.status = "READY" /\ sessions' = sessions \cup {readiness.attestation}
        /\ UNCHANGED <<now, readiness, capability, previous, isolation, call>>
    BY <1>7 DEF BindSession, GateOpen
  <2>2. ReadinessInv'
    BY <2>1 DEF ReadinessInv, ExpiryIsTimely
  <2>. QED  BY <1>1, <1>2, <2>1, <2>2
<1>. QED  BY <1>3, <1>4, <1>5, <1>6, <1>7 DEF ReadinessStep

LEMMA CapabilityStepInv ==
  ASSUME AuthorityInv, RegisterCapability \/ \E drift \in BOOLEAN : RecordDynamicAttestation(drift)
  PROVE  AuthorityInv'
<1>1. /\ capability' \in [status : {"ABSENT", "ACTIVE", "DRIFTED"}, dynamic : BOOLEAN]
      /\ UNCHANGED <<now, readiness, sessions, previous, isolation, call>>
  <2>1. CASE RegisterCapability
    BY <2>1 DEF RegisterCapability
  <2>2. ASSUME NEW drift \in BOOLEAN, RecordDynamicAttestation(drift)
        PROVE  /\ capability' \in [status : {"ABSENT", "ACTIVE", "DRIFTED"}, dynamic : BOOLEAN]
               /\ UNCHANGED <<now, readiness, sessions, previous, isolation, call>>
    <3>1. CASE drift
      BY <2>2, <3>1 DEF RecordDynamicAttestation
    <3>2. CASE ~drift
      BY <2>2, <3>2 DEF RecordDynamicAttestation
    <3>. QED  BY <3>1, <3>2
  <2>. QED  BY <2>1, <2>2
<1>2. AuthorityTypeOK'
  BY <1>1 DEF AuthorityInv, AuthorityTypeOK, previous, isolation
<1>. QED  BY <1>1, <1>2, AuthorityFrame DEF AuthorityInv

LEMMA CredentialStepInv ==
  ASSUME AuthorityInv, CredentialStep
  PROVE  AuthorityInv'
<1>. DEFINE Credentials == [status : {"ABSENT", "ACTIVE", "EXPIRED", "REVOKED"},
                            revocation : {"NOT_REQUIRED", "REQUIRED", "IN_PROGRESS",
                                          "OUTCOME_UNKNOWN", "REVOKED"},
                            operation : OperationIds \cup {None}]
<1>. USE DEF AuthorityInv
<1>1. /\ credential \in Credentials
      /\ begun \subseteq OperationIds /\ unknown \subseteq begun
      /\ None \notin OperationIds
  BY AuthorityAssumption DEF AuthorityTypeOK
<1>2. ASSUME /\ credential' \in Credentials
             /\ credential'.revocation \in {"IN_PROGRESS", "OUTCOME_UNKNOWN"} =>
                  credential'.operation \in begun'
             /\ begun' \subseteq OperationIds /\ unknown' \subseteq begun'
             /\ UNCHANGED <<now, readiness, sessions, capability, receipt, isolation, call>>
             /\ CredentialInv'
      PROVE  AuthorityInv'
  <2>1. AuthorityTypeOK'
    BY <1>2 DEF AuthorityTypeOK, isolation
  <2>. QED  BY <1>2, <2>1, AuthorityFrame
<1>3. CASE IssueCredential \/ ReconcileCredentialExpiry \/ RequireRevocation
  <2>1. /\ credential' = [status |-> credential'.status, revocation |-> credential'.revocation,
                          operation |-> credential.operation]
        /\ credential.status # "REVOKED"
        /\ credential'.status \in {"ACTIVE", "EXPIRED"}
        /\ credential'.revocation \in {credential.revocation, "REQUIRED"}
        /\ UNCHANGED <<now, readiness, sessions, capability, begun, unknown, receipt, isolation,
                       call>>
    BY <1>1, <1>3 DEF IssueCredential, ReconcileCredentialExpiry, RequireRevocation, Held
  <2>2. CredentialInv'
    BY <1>1, <2>1 DEF CredentialInv, ReusedIsClean
  <2>3. /\ credential' \in Credentials
        /\ credential'.revocation \in {"IN_PROGRESS", "OUTCOME_UNKNOWN"} =>
             credential'.operation \in begun'
    BY <1>1, <2>1 DEF AuthorityTypeOK
  <2>. QED  BY <1>1, <1>2, <2>1, <2>2, <2>3
<1>4. ASSUME NEW o \in OperationIds, BeginRevocation(o)  PROVE AuthorityInv'
  <2>1. /\ credential.revocation \in {"REQUIRED", "OUTCOME_UNKNOWN"}
        /\ credential' = [status |-> credential.status, revocation |-> "IN_PROGRESS",
                          operation |-> o]
        /\ begun' = begun \cup {o}
        /\ UNCHANGED <<now, readiness, sessions, capability, unknown, receipt, isolation, call>>
    BY <1>1, <1>4 DEF BeginRevocation
  <2>2. CredentialInv'
    BY <1>1, <2>1 DEF CredentialInv, ReusedIsClean
  <2>. QED  BY <1>1, <1>2, <2>1, <2>2
<1>5. ASSUME NEW o \in OperationIds, RevocationPassed(o)  PROVE AuthorityInv'
  <2>1. /\ credential' = [status |-> "REVOKED", revocation |-> "REVOKED", operation |-> None]
        /\ UNCHANGED <<now, readiness, sessions, capability, begun, unknown, receipt, isolation,
                       call>>
    BY <1>5 DEF RevocationPassed
  <2>2. CredentialInv'
    BY <2>1 DEF CredentialInv, ReusedIsClean
  <2>. QED  BY <1>1, <1>2, <2>1, <2>2
<1>6. ASSUME NEW o \in OperationIds, RevocationUnknown(o)  PROVE AuthorityInv'
  <2>1. /\ credential.operation = o /\ o # None
        /\ credential' = [status |-> credential.status, revocation |-> "OUTCOME_UNKNOWN",
                          operation |-> o]
        /\ unknown' = unknown \cup {o}
        /\ UNCHANGED <<now, readiness, sessions, capability, begun, receipt, isolation, call>>
    BY <1>1, <1>6 DEF RevocationUnknown
  <2>2. o \in begun /\ credential.status # "REVOKED"
    BY <2>1 DEF CredentialInv
  <2>3. CredentialInv'
    BY <1>1, <2>1, <2>2 DEF CredentialInv, ReusedIsClean
  <2>. QED  BY <1>1, <1>2, <2>1, <2>2, <2>3
<1>. QED  BY <1>3, <1>4, <1>5, <1>6 DEF CredentialStep

LEMMA ReceiptStepInv ==
  ASSUME AuthorityInv, ReceiptStep
  PROVE  AuthorityInv'
<1>. USE DEF AuthorityInv
<1>1. receipt \in [status : {"ABSENT", "AVAILABLE", "CONSUMED", "EXPIRED", "INVALID"},
                   attestation : sessions \cup {None}]
  BY DEF AuthorityTypeOK
<1>2. /\ receipt' \in [status : {"ABSENT", "AVAILABLE", "CONSUMED", "EXPIRED", "INVALID"},
                       attestation : sessions \cup {None}]
      /\ receipt'.status \in {"AVAILABLE", "CONSUMED"} => credential.status = "REVOKED"
      /\ UNCHANGED <<now, readiness, sessions, capability, credential, begun, unknown, isolation,
                     call>>
  <2>1. ASSUME NEW a \in Attestations, IssueReceipt(a) \/ ConsumeReceipt(a)
        PROVE  <1>2!:
    BY <1>1, <2>1 DEF IssueReceipt, ConsumeReceipt, WarmReuse, CredentialInv, ReusedIsClean
  <2>2. CASE ReconcileReceiptExpiry \/ InvalidateReceipt
    BY <1>1, <2>2 DEF ReconcileReceiptExpiry, InvalidateReceipt
  <2>. QED  BY <2>1, <2>2 DEF ReceiptStep
<1>3. AuthorityTypeOK'
  BY <1>2 DEF AuthorityTypeOK, isolation
<1>4. CredentialInv'
  BY <1>2 DEF CredentialInv, ReusedIsClean
<1>. QED  BY <1>2, <1>3, <1>4, AuthorityFrame

LEMMA BoundaryStepInv ==
  ASSUME AuthorityInv, BoundaryStep
  PROVE  AuthorityInv'
<1>. DEFINE Boundaries(claims) ==
              [status : {"ABSENT", "AVAILABLE", "CLAIMED", "INVALID"},
               claim : claims \cup {None}, version : Nat, claims : SUBSET OperationIds]
            Authorized == [operation : OperationIds, boundary : {"CLAIMED", "INVALID"}]
<1>. USE DEF AuthorityInv
<1>1. /\ boundary \in Boundaries(boundary.claims)
      /\ authorized \subseteq Authorized
      /\ call \in [Callers -> Calls \cup {None}]
      /\ launch \in {"AVAILABLE", "CLAIMED"} /\ fenced \in BOOLEAN
  BY DEF AuthorityTypeOK
<1>2. ASSUME /\ boundary' \in Boundaries(boundary'.claims)
             /\ authorized' \subseteq Authorized
             /\ call' \in [Callers -> Calls \cup {None}]
             /\ launch' \in {"AVAILABLE", "CLAIMED"} /\ fenced' \in BOOLEAN
             /\ UNCHANGED <<now, readiness, sessions, capability, previous>>
             /\ \A c \in Callers : call'[c] # None /\ call'[c].kind = "expire" => call'[c] = call[c]
             /\ BoundaryInv'
      PROVE  AuthorityInv'
  <2>1. AuthorityTypeOK'
    BY <1>2 DEF AuthorityTypeOK, previous
  <2>2. ReadinessInv'
    BY <1>2 DEF ReadinessInv, ExpiryIsTimely
  <2>. QED  BY <1>2, <2>1, <2>2, AuthorityFrame
<1>3. CASE RegisterBoundary \/ InvalidateBoundary
  <2>1. /\ boundary' = [status |-> boundary'.status, claim |-> boundary'.claim,
                        version |-> boundary'.version, claims |-> boundary.claims]
        /\ boundary'.claim \in {boundary.claim, None}
        /\ boundary'.version \in {boundary.version, boundary.version + 1}
        /\ \/ boundary.status = "ABSENT" /\ boundary'.status = "AVAILABLE"
           \/ boundary'.status = "INVALID"
        /\ UNCHANGED <<now, readiness, sessions, capability, previous, launch, fenced,
                       authorized, call>>
    BY <1>1, <1>3 DEF RegisterBoundary, InvalidateBoundary
  <2>2. boundary' \in Boundaries(boundary'.claims)
    <3>1. boundary.version + 1 \in Nat
      BY <1>1
    <3>. QED  BY <1>1, <2>1, <3>1
  <2>3. BoundaryInv'
    BY <1>1, <2>1 DEF BoundaryInv
  <2>. QED  BY <1>1, <1>2, <2>1, <2>2, <2>3
<1>4. CASE ClaimLaunch \/ AdvanceFence
  <2>1. /\ launch' \in {"AVAILABLE", "CLAIMED"} /\ fenced' \in BOOLEAN
        /\ UNCHANGED <<now, readiness, sessions, capability, previous, boundary, authorized, call>>
    BY <1>1, <1>4 DEF ClaimLaunch, AdvanceFence
  <2>2. BoundaryInv'
    BY <2>1 DEF BoundaryInv
  <2>. QED  BY <1>1, <1>2, <2>1, <2>2
<1>5. ASSUME NEW c \in Callers, NEW o \in OperationIds, CheckClaim(c, o)  PROVE AuthorityInv'
  <2>. DEFINE k == [kind |-> "claim", operation |-> o, expected |-> boundary.version]
  <2>1. /\ call' = [call EXCEPT ![c] = k]
        /\ UNCHANGED <<now, readiness, sessions, capability, previous, isolation>>
    BY <1>5 DEF CheckClaim
  <2>2. k \in Calls
    BY <1>1 DEF Calls
  <2>3. call' \in [Callers -> Calls \cup {None}]
    BY <1>1, <2>1, <2>2
  <2>4. \A d \in Callers : call'[d] # None /\ call'[d].kind = "expire" => call'[d] = call[d]
    BY <1>1, <2>1
  <2>5. UNCHANGED <<boundary, authorized, launch, fenced>>
    BY <2>1 DEF isolation
  <2>. QED  BY <1>1, <1>2, <2>1, <2>3, <2>4, <2>5, AuthorityFrame
<1>6. ASSUME NEW c \in Callers, ApplyClaim(c)  PROVE AuthorityInv'
  <2>. DEFINE k == call[c]
              o == k.operation
  <2>1. /\ k # None /\ k.kind = "claim"
        /\ boundary' = IF Claimable(k) THEN Claimed(o) ELSE boundary
        /\ authorized' = IF Replayed(o) \/ Claimable(k)
                         THEN authorized \cup {[operation |-> o, boundary |-> boundary'.status]}
                         ELSE authorized
        /\ call' = [call EXCEPT ![c] = None]
        /\ UNCHANGED <<now, readiness, sessions, capability, previous, launch, fenced>>
    BY <1>6 DEF ApplyClaim
  <2>2. o \in OperationIds
    BY <1>1, <2>1 DEF Calls
  <2>3. /\ call' \in [Callers -> Calls \cup {None}]
        /\ \A d \in Callers : call'[d] # None /\ call'[d].kind = "expire" => call'[d] = call[d]
    BY <1>1, <2>1
  <2>. HIDE DEF k, o
  <2>4. CASE Claimable(k)
    <3>1. boundary.status = "AVAILABLE" /\ boundary.claims = {}
      BY <2>4 DEF Claimable, BoundaryInv
    <3>2. /\ boundary' = [status |-> "CLAIMED", claim |-> o, version |-> boundary.version + 1,
                          claims |-> boundary.claims \cup {o}]
          /\ authorized' = authorized \cup {[operation |-> o, boundary |-> "CLAIMED"]}
      BY <1>1, <2>1, <2>4 DEF Claimed
    <3>3. BoundaryInv'
      BY <3>1, <3>2 DEF BoundaryInv
    <3>4. boundary' \in Boundaries(boundary'.claims) /\ authorized' \subseteq Authorized
      BY <1>1, <2>2, <3>2
    <3>. QED  BY <1>1, <1>2, <2>1, <2>3, <3>3, <3>4
  <2>5. CASE ~Claimable(k) /\ Replayed(o)
    <3>1. /\ boundary' = boundary
          /\ authorized' = authorized \cup {[operation |-> o, boundary |-> boundary.status]}
      BY <2>1, <2>5
    <3>2. o \in boundary.claims /\ boundary.status \in {"CLAIMED", "INVALID"}
      BY <1>1, <2>5 DEF Replayed, BoundaryInv
    <3>3. BoundaryInv'
      BY <3>1, <3>2 DEF BoundaryInv
    <3>. QED  BY <1>1, <1>2, <2>1, <2>2, <2>3, <3>1, <3>2, <3>3
  <2>6. CASE ~Claimable(k) /\ ~Replayed(o)
    <3>1. UNCHANGED <<boundary, authorized>>
      BY <2>1, <2>6
    <3>2. BoundaryInv'
      BY <3>1 DEF BoundaryInv
    <3>. QED  BY <1>1, <1>2, <2>1, <2>3, <3>1, <3>2
  <2>. QED  BY <2>4, <2>5, <2>6
<1>. QED  BY <1>3, <1>4, <1>5, <1>6 DEF BoundaryStep

LEMMA AuthorityStepInv == AuthorityInv /\ [AuthorityNext]_authorityVars => AuthorityInv'
<1>. SUFFICES ASSUME AuthorityInv, [AuthorityNext]_authorityVars  PROVE AuthorityInv'
  OBVIOUS
<1>1. CASE UNCHANGED authorityVars
  <2>1. UNCHANGED <<now, readiness, sessions, capability, previous, isolation, call>>
    BY <1>1 DEF authorityVars
  <2>2. AuthorityTypeOK'
    BY <2>1 DEF AuthorityInv, AuthorityTypeOK, previous, isolation
  <2>. QED  BY <2>1, <2>2, AuthorityFrame DEF AuthorityInv
<1>. QED  BY <1>1, TickInv, ReadinessStepInv, CapabilityStepInv, CredentialStepInv,
             ReceiptStepInv, BoundaryStepInv DEF AuthorityNext

\* The inductive invariant of what lets a worker run its next job.
THEOREM AuthorityInvariant == AuthoritySpec => []AuthorityInv
BY AuthorityInitInv, AuthorityStepInv, PTL DEF AuthoritySpec

\* Every store holds what it can: in particular a claim is in the idempotency
\* index of its boundary, and a revocation under way has its operation.
THEOREM AuthorityTypes == AuthoritySpec => []AuthorityTypeOK
<1>1. AuthorityInv => AuthorityTypeOK
  BY DEF AuthorityInv
<1>. QED  BY <1>1, AuthorityInvariant, PTL

\* However reads, expiries, replacements, checks and claims interleave, authority
\* is given to one operation, in time, and to a worker whose credential is gone.
THEOREM AuthorityIsSound == AuthoritySpec => []AuthoritySound
<1>1. AuthorityInv => AuthoritySound
  BY DEF AuthorityInv, ReadinessInv, CredentialInv, BoundaryInv, AuthoritySound, OneAuthorization
<1>. QED  BY <1>1, AuthorityInvariant, PTL

-----------------------------------------------------------------------------
NotRegained ==
  /\ \A a \in sessions : ~SessionCurrent(a) => ~SessionCurrent(a)'
  /\ credential.status # "ABSENT" /\ ~CredentialUsable => ~CredentialUsable'
  /\ capability.status = "DRIFTED" => ~CapabilityCurrent'
  /\ \A a \in sessions : receipt.status # "ABSENT" /\ ~WarmReuse(a) => ~WarmReuse(a)'
  /\ boundary.status = "INVALID" => boundary'.status = "INVALID"

\* Time only takes authority away, and a store that is unchanged gives none.
LEMMA AuthorityKept ==
  ASSUME AuthorityInv, now' \in Nat, now <= now'
  PROVE  /\ UNCHANGED readiness => \A a \in sessions : ~SessionCurrent(a) => ~SessionCurrent(a)'
         /\ UNCHANGED credential => (~CredentialUsable => ~CredentialUsable')
         /\ UNCHANGED receipt => \A a \in sessions : ~WarmReuse(a) => ~WarmReuse(a)'
<1>1. /\ now \in Nat
      /\ Expiry \in [Attestations -> Nat]
      /\ CredentialExpiry \in Nat
      /\ ReceiptExpiry \in Nat
  BY AuthorityAssumption DEF AuthorityInv, AuthorityTypeOK
<1>2. \A e \in Nat : e <= now => e <= now' /\ ~(now' < e) /\ ~(e > now')
  BY <1>1
<1>3. readiness.status = "READY" => Expiry[readiness.attestation] \in Nat
  BY <1>1 DEF AuthorityInv, AuthorityTypeOK
<1>4. \A e \in Nat : ~(e > now) => e <= now
  BY <1>1
<1>5. \A e \in Nat : ~(now < e) => e <= now
  BY <1>1
<1>6. UNCHANGED readiness => \A a \in sessions : ~SessionCurrent(a) => ~SessionCurrent(a)'
  BY <1>2, <1>3, <1>4 DEF SessionCurrent, GateOpen
<1>7. UNCHANGED credential => (~CredentialUsable => ~CredentialUsable')
  BY <1>1, <1>2, <1>5 DEF CredentialUsable
<1>8. UNCHANGED receipt => \A a \in sessions : ~WarmReuse(a) => ~WarmReuse(a)'
  BY <1>1, <1>2, <1>5 DEF WarmReuse
<1>. QED  BY <1>6, <1>7, <1>8

\* Each group of steps moves its own stores only.
LEMMA AuthorityFrames ==
  /\ Tick \/ UNCHANGED authorityVars =>
       now' \in {now, now + 1} /\ UNCHANGED <<readiness, capability, credential, receipt, boundary>>
  /\ ReadinessStep => UNCHANGED <<now, capability, credential, receipt, boundary>>
  /\ RegisterCapability \/ (\E drift \in BOOLEAN : RecordDynamicAttestation(drift)) =>
       UNCHANGED <<now, readiness, credential, receipt, boundary>>
  /\ CredentialStep => UNCHANGED <<now, readiness, capability, receipt, boundary>>
  /\ ReceiptStep => UNCHANGED <<now, readiness, capability, credential, boundary>>
  /\ BoundaryStep => UNCHANGED <<now, readiness, capability, credential, receipt>>
<1>. USE DEF previous, isolation
<1>1. Tick \/ UNCHANGED authorityVars =>
        /\ now' \in {now, now + 1}
        /\ UNCHANGED <<readiness, capability, credential, receipt, boundary>>
  BY DEF Tick, authorityVars
<1>2. ReadinessStep => UNCHANGED <<now, capability, credential, receipt, boundary>>
  BY DEF ReadinessStep, RegisterReadiness, ReplaceAttestation, BeginExpiry, ApplyExpiry, BindSession
<1>3. RegisterCapability \/ (\E drift \in BOOLEAN : RecordDynamicAttestation(drift)) =>
        UNCHANGED <<now, readiness, credential, receipt, boundary>>
  BY DEF RegisterCapability, RecordDynamicAttestation
<1>4. CredentialStep => UNCHANGED <<now, readiness, capability, receipt, boundary>>
  BY DEF CredentialStep, IssueCredential, ReconcileCredentialExpiry, RequireRevocation,
         BeginRevocation, RevocationPassed, RevocationUnknown
<1>5. ReceiptStep => UNCHANGED <<now, readiness, capability, credential, boundary>>
  BY DEF ReceiptStep, IssueReceipt, ConsumeReceipt, ReconcileReceiptExpiry, InvalidateReceipt
<1>6. BoundaryStep => UNCHANGED <<now, readiness, capability, credential, receipt>>
  BY DEF BoundaryStep, CheckClaim, ApplyClaim, RegisterBoundary, InvalidateBoundary, ClaimLaunch,
         AdvanceFence
<1>. QED  BY <1>1, <1>2, <1>3, <1>4, <1>5, <1>6

LEMMA AuthorityStepNotRegained ==
  AuthorityInv /\ [AuthorityNext]_authorityVars => NotRegained
<1>. SUFFICES ASSUME AuthorityInv, [AuthorityNext]_authorityVars  PROVE NotRegained
  OBVIOUS
<1>1. now' \in Nat /\ now \in Nat /\ now <= now'
  <2>1. now \in Nat
    BY AuthorityAssumption DEF AuthorityInv, AuthorityTypeOK
  <2>2. now' = now \/ now' = now + 1
    BY AuthorityFrames DEF AuthorityNext
  <2>. QED  BY <2>1, <2>2
<1>2. \A a \in sessions : ~SessionCurrent(a) => ~SessionCurrent(a)'
  <2>1. CASE UNCHANGED readiness
    BY <1>1, <2>1, AuthorityKept
  <2>2. ASSUME NEW a \in Attestations, RegisterReadiness(a)  PROVE sessions = {}
    BY <2>2 DEF RegisterReadiness, AuthorityInv, ReadinessInv
  <2>3. ASSUME NEW a \in Attestations, ReplaceAttestation(a), NEW b \in sessions
        PROVE  ~SessionCurrent(b)'
    <3>1. Expiry[b] <= now
      BY <2>3 DEF ReplaceAttestation, AuthorityInv, ReadinessInv, ExpiryIsTimely
    <3>2. Expiry[a] > now /\ readiness'.attestation = a
      BY <2>3 DEF ReplaceAttestation, ValidAttestation
    <3>3. Expiry[a] \in Nat /\ Expiry[b] \in Nat
      BY AuthorityAssumption DEF AuthorityInv, AuthorityTypeOK
    <3>4. a # b
      BY <1>1, <3>1, <3>2, <3>3
    <3>. QED  BY <3>2, <3>4 DEF SessionCurrent
  <2>4. ASSUME NEW c \in Callers, ApplyExpiry(c)
        PROVE  UNCHANGED readiness \/ \A a \in sessions : ~SessionCurrent(a)'
    <3>1. UNCHANGED readiness \/ readiness'.status = "EXPIRED"
      BY <2>4 DEF ApplyExpiry, AuthorityInv, AuthorityTypeOK
    <3>. QED  BY <3>1 DEF SessionCurrent, GateOpen
  <2>5. BindSession \/ (\E c \in Callers : BeginExpiry(c)) => UNCHANGED readiness
    BY DEF BindSession, BeginExpiry
  <2>. QED  BY <2>1, <2>2, <2>3, <2>4, <2>5, AuthorityFrames DEF AuthorityNext, ReadinessStep
<1>3. credential.status # "ABSENT" /\ ~CredentialUsable => ~CredentialUsable'
  <2>1. CASE UNCHANGED credential
    BY <1>1, <2>1, AuthorityKept
  <2>2. CASE CredentialStep
    <3>1. credential \in [status : {"ABSENT", "ACTIVE", "EXPIRED", "REVOKED"},
                          revocation : {"NOT_REQUIRED", "REQUIRED", "IN_PROGRESS",
                                        "OUTCOME_UNKNOWN", "REVOKED"},
                          operation : OperationIds \cup {None}]
      BY DEF AuthorityInv, AuthorityTypeOK
    <3>2. IssueCredential => credential.status = "ABSENT"
      BY DEF IssueCredential
    <3>3. ReconcileCredentialExpiry \/ RequireRevocation => credential'.revocation = "REQUIRED"
      BY <3>1 DEF ReconcileCredentialExpiry, RequireRevocation
    <3>4. \A o \in OperationIds :
            BeginRevocation(o) \/ RevocationPassed(o) \/ RevocationUnknown(o) =>
              credential'.revocation \in {"IN_PROGRESS", "REVOKED", "OUTCOME_UNKNOWN"}
      <4>. TAKE o \in OperationIds
      <4>1. BeginRevocation(o) => credential'.revocation = "IN_PROGRESS"
        BY <3>1 DEF BeginRevocation
      <4>2. RevocationPassed(o) => credential'.revocation = "REVOKED"
        BY DEF RevocationPassed
      <4>3. RevocationUnknown(o) => credential'.revocation = "OUTCOME_UNKNOWN"
        BY <3>1 DEF RevocationUnknown
      <4>. QED  BY <4>1, <4>2, <4>3
    <3>5. credential.status = "ABSENT" \/ credential'.revocation # "NOT_REQUIRED"
      BY <2>2, <3>2, <3>3, <3>4 DEF CredentialStep
    <3>. QED  BY <3>5 DEF CredentialUsable
  <2>3. ~CredentialStep => UNCHANGED credential
    BY AuthorityFrames DEF AuthorityNext
  <2>. QED  BY <2>1, <2>2, <2>3
<1>4. capability.status = "DRIFTED" => ~CapabilityCurrent'
  <2>1. UNCHANGED capability \/ capability.status # "DRIFTED"
    BY AuthorityFrames DEF AuthorityNext, RegisterCapability, RecordDynamicAttestation
  <2>. QED  BY <2>1 DEF CapabilityCurrent
<1>5. \A a \in sessions : receipt.status # "ABSENT" /\ ~WarmReuse(a) => ~WarmReuse(a)'
  <2>1. CASE UNCHANGED receipt
    BY <1>1, <2>1, AuthorityKept
  <2>2. CASE ReceiptStep
    <3>1. receipt.status = "ABSENT" \/ receipt'.status # "AVAILABLE"
      BY <2>2 DEF ReceiptStep, IssueReceipt, ConsumeReceipt, ReconcileReceiptExpiry,
                  InvalidateReceipt, AuthorityInv, AuthorityTypeOK
    <3>. QED  BY <3>1 DEF WarmReuse
  <2>3. ~ReceiptStep => UNCHANGED receipt
    BY AuthorityFrames DEF AuthorityNext
  <2>. QED  BY <2>1, <2>2, <2>3
<1>6. boundary.status = "INVALID" => boundary'.status = "INVALID"
  <2>. SUFFICES ASSUME boundary.status = "INVALID"  PROVE UNCHANGED boundary
    OBVIOUS
  <2>1. CASE BoundaryStep
    BY <2>1 DEF BoundaryStep, CheckClaim, ApplyClaim, Claimable, RegisterBoundary,
                InvalidateBoundary, ClaimLaunch, AdvanceFence, isolation
  <2>2. ~BoundaryStep => UNCHANGED boundary
    BY AuthorityFrames DEF AuthorityNext
  <2>. QED  BY <2>1, <2>2
<1>. QED  BY <1>2, <1>3, <1>4, <1>5, <1>6 DEF NotRegained

\* Authority that ended does not come back, however the clock and the stores move:
\* not to a session of a replaced attestation, through a credential that cannot be
\* used, to a drifted capability, a used receipt or an invalid boundary.
THEOREM AuthorityNeverRegained == AuthoritySpec => AuthorityIsNeverRegained
BY AuthorityInvariant, AuthorityStepNotRegained, PTL
   DEF AuthoritySpec, AuthorityIsNeverRegained, NotRegained
=============================================================================
