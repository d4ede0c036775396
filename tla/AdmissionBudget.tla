--------------------------- MODULE AdmissionBudget ---------------------------
(***************************************************************************)
(* Admission of executions, retries and repairs against a budget, their    *)
(* cancellation, and the accounting of what they used:                     *)
(* durable-admission-budget-cancellation-v1 and                            *)
(* durable-reservation-settlement-v1.                                      *)
(*                                                                         *)
(* An admission request holds the execution lock and the admission lock    *)
(* until its write is in the directory.  Readers take no lock: whoever     *)
(* accounts for usage settles the reservations of a document it read at    *)
(* some earlier time, perhaps one a power failure then takes back.         *)
(*                                                                         *)
(* Runtime seconds and micro dollars are treated alike: one amount stands  *)
(* for both.  ADMISSION_OPEN is CANCELLATION_STATUS = "NONE", as           *)
(* validateStore requires of every document read or written.  Replays and  *)
(* version conflicts change nothing (ExecutionState): they are left out.   *)
(***************************************************************************)
EXTENDS Integers, FiniteSets, FiniteSetsExt

CONSTANTS Ids,             \* RESERVATION_IDs
          Limit,           \* per kind, MAX_EXECUTIONS, MAX_RETRIES, MAX_REPAIRS
          MaxParallelism,  \* MAX_PARALLELISM
          MaxAmount,       \* MAX_RUNTIME_SECONDS or MAX_COST_MICRO_USD, or Unlimited
          Unlimited,
          Amounts,         \* what a reservation may ask for
          Usages,          \* what the accountant may report for one
          MaxFence,        \* bound on the fence
          MaxPowerLosses,  \* bound on power failures
          None

Kinds == {"EXECUTION", "RETRY", "REPAIR"}

ASSUME BudgetAssumption ==
  /\ IsFiniteSet(Ids)
  /\ Limit \in [Kinds -> Nat]
  /\ MaxParallelism \in Nat \ {0}
  /\ MaxAmount \in Nat \cup {Unlimited}
  /\ Amounts \subseteq Nat
  /\ Usages \subseteq Nat
  /\ MaxFence \in Nat \ {0}
  /\ MaxPowerLosses \in Nat

VARIABLES execution,   \* fence and pending reconciliation of the execution state
          store,       \* the admission document as readers see it
          committing,  \* a request has renamed it and not yet synced the directory
          stable,      \* the document a power failure leaves
          snapshot,    \* the finished reservations the accountant last read
          settlement,  \* per reservation, its settlement
          totals,      \* of the settlement store
          losses       \* power failures so far

vars == <<execution, store, committing, stable, snapshot, settlement, totals, losses>>

Terminal == {"SUCCEEDED", "FAILED", "CANCELLED"}
Fences == 1 .. MaxFence
Reservation ==
  [kind : Kinds, state : {"RESERVED", "STARTED"} \cup Terminal, amount : Nat, fence : Fences]
Reservations == [Ids -> Reservation \cup {None}]
Store ==
  [reservations : Reservations, count : [Kinds -> Nat], amount : Nat,
   status : {"NONE", "REQUESTED", "CANCELLED"}, fence : Fences \cup {None}]
Settlement == [state : Terminal, actual : Nat, released : Nat, fence : Fences]

ASSUME NoneAssumption == None \notin Reservation \cup Settlement \cup Reservations \cup Fences

Held(r) == {i \in Ids : r[i] # None}
Active(r) == {i \in Held(r) : r[i].state \notin Terminal}

\* The parts of validateStore that relate fields to each other.
Valid(s) ==
  /\ s.status = "NONE" <=> s.fence = None
  /\ Cardinality(Active(s.reservations)) <= MaxParallelism
  /\ s.status = "CANCELLED" => Active(s.reservations) = {}

-----------------------------------------------------------------------------
EmptyStore ==
  [reservations |-> [i \in Ids |-> None], count |-> [k \in Kinds |-> 0], amount |-> 0,
   status |-> "NONE", fence |-> None]

Init ==
  /\ execution = [fence |-> 1, reconcile |-> FALSE]
  /\ store = EmptyStore
  /\ committing = FALSE
  /\ stable = EmptyStore
  /\ snapshot = None
  /\ settlement = [i \in Ids |-> None]
  /\ totals = [actual |-> 0, released |-> 0]
  /\ losses = 0

\* A request submits the fence its caller knows.  It is answered under both
\* locks, and only while the execution awaits no reconciliation.
Admitted(f, next) ==
  /\ ~committing
  /\ ~execution.reconcile
  /\ f = execution.fence
  /\ Valid(next)
  /\ store' = next
  /\ committing' = TRUE
  /\ UNCHANGED <<execution, stable, snapshot, settlement, totals, losses>>

\* The directory is synced, the locks are released and the caller is answered.
Committed ==
  /\ committing
  /\ committing' = FALSE
  /\ stable' = store
  /\ UNCHANGED <<execution, store, snapshot, settlement, totals, losses>>

\* Faulty variant: the amount is charged to the budget when work starts.
WithinBudgetOfStarted(k, a) ==
  /\ store.count[k] < Limit[k]
  /\ MaxAmount # Unlimited =>
       a + MapThenSumSet(LAMBDA i : store.reservations[i].amount, Active(store.reservations)) <= MaxAmount

WithinBudget(k, a) ==
  /\ store.count[k] < Limit[k]
  /\ MaxAmount # Unlimited => store.amount + a <= MaxAmount

Reserved(i, k, a, f) ==
  [store EXCEPT !.reservations[i] = [kind |-> k, state |-> "RESERVED", amount |-> a, fence |-> f],
                !.count[k] = @ + 1,
                !.amount = @ + a]

Reserve(i, k, a, f) ==
  /\ store.status = "NONE"
  /\ store.reservations[i] = None
  /\ Cardinality(Active(store.reservations)) < MaxParallelism
  /\ WithinBudget(k, a)
  /\ Admitted(f, Reserved(i, k, a, f))

\* Faulty variant: work reserved before the cancellation may still start.
StartLate(i, f) ==
  /\ store.reservations[i] # None
  /\ store.reservations[i].state = "RESERVED"
  /\ Admitted(f, [store EXCEPT !.reservations[i].state = "STARTED"])

Start(i, f) ==
  /\ store.status = "NONE"
  /\ store.reservations[i] # None
  /\ store.reservations[i].state = "RESERVED"
  /\ Admitted(f, [store EXCEPT !.reservations[i].state = "STARTED"])

\* Faulty variant: the reservation that settles is still counted as active.
SettledPending(i, t) ==
  [store EXCEPT !.reservations[i].state = t,
                !.status = IF @ = "REQUESTED" /\ Active(store.reservations) = {}
                           THEN "CANCELLED" ELSE @]

\* The last active reservation takes a requested cancellation to its end.
Settled(i, t) ==
  [store EXCEPT !.reservations[i].state = t,
                !.status = IF @ = "REQUESTED" /\ Active(store.reservations) \subseteq {i}
                           THEN "CANCELLED" ELSE @]

\* Faulty variant: a settled reservation may be settled once more.
SettleAgain(i, t, f) ==
  /\ store.reservations[i] # None
  /\ Admitted(f, Settled(i, t))

Settle(i, t, f) ==
  /\ store.reservations[i] # None
  /\ store.reservations[i].state \notin Terminal
  /\ Admitted(f, Settled(i, t))

RequestCancellation(f) ==
  /\ store.status = "NONE"
  /\ Admitted(f, [store EXCEPT
       !.fence = f,
       !.status = IF Active(store.reservations) = {} THEN "CANCELLED" ELSE "REQUESTED"])

-----------------------------------------------------------------------------
(* Accounting. *)

\* What can be settled of a document: RESERVATION_NOT_TERMINAL is decided from it.
Settleable(r) ==
  [i \in Ids |-> IF i \in Held(r) \ Active(r) THEN r[i] ELSE None]

\* readDurableAdmissionBudgetV1; what cannot be settled later is left out.
ReadAdmission ==
  /\ snapshot' = Settleable(store.reservations)
  /\ UNCHANGED <<execution, store, committing, stable, settlement, totals, losses>>

\* Faulty variant: usage beyond the reservation is accepted.
SettleUsageBeyond(i, actual) ==
  /\ snapshot # None
  /\ snapshot[i] # None
  /\ settlement[i] = None
  /\ settlement' = [settlement EXCEPT ![i] =
       [state |-> snapshot[i].state, actual |-> actual,
        released |-> snapshot[i].amount - actual, fence |-> snapshot[i].fence]]
  /\ totals' = [actual |-> totals.actual + actual,
                released |-> totals.released + snapshot[i].amount - actual]
  /\ UNCHANGED <<execution, store, committing, stable, snapshot, losses>>

\* One step: its store is locked, read and written for one reservation, and
\* nobody reads it before its own directory sync.
SettleUsage(i, actual) ==
  /\ snapshot # None
  /\ snapshot[i] # None
  /\ actual <= snapshot[i].amount
  /\ settlement[i] = None
  /\ settlement' = [settlement EXCEPT ![i] =
       [state |-> snapshot[i].state, actual |-> actual,
        released |-> snapshot[i].amount - actual, fence |-> snapshot[i].fence]]
  /\ totals' = [actual |-> totals.actual + actual,
                released |-> totals.released + snapshot[i].amount - actual]
  /\ UNCHANGED <<execution, store, committing, stable, snapshot, losses>>

-----------------------------------------------------------------------------
(* What the rest of the runtime does to the execution state under its      *)
(* lock, and power failures.                                               *)

AdvanceFence ==
  /\ ~committing
  /\ execution.fence < MaxFence
  /\ execution' = [execution EXCEPT !.fence = @ + 1]
  /\ UNCHANGED <<store, committing, stable, snapshot, settlement, totals, losses>>

\* An outcome becomes unknown, or is reconciled.
TurnReconciliation ==
  /\ ~committing
  /\ execution' = [execution EXCEPT !.reconcile = ~@]
  /\ UNCHANGED <<store, committing, stable, snapshot, settlement, totals, losses>>

\* The accountant's process dies too.
PowerLoss ==
  /\ losses < MaxPowerLosses
  /\ losses' = losses + 1
  /\ store' = stable
  /\ committing' = FALSE
  /\ snapshot' = None
  /\ UNCHANGED <<execution, stable, settlement, totals>>

Next ==
  \/ \E f \in Fences :
       \/ \E i \in Ids :
            \/ \E k \in Kinds, a \in Amounts : Reserve(i, k, a, f)
            \/ Start(i, f)
            \/ \E t \in Terminal : Settle(i, t, f)
       \/ RequestCancellation(f)
  \/ Committed
  \/ ReadAdmission
  \/ \E i \in Ids, actual \in Usages : SettleUsage(i, actual)
  \/ AdvanceFence
  \/ TurnReconciliation
  \/ PowerLoss

Spec == Init /\ [][Next]_vars

-----------------------------------------------------------------------------
(* Properties. *)

TypeOK ==
  /\ execution \in [fence : Fences, reconcile : BOOLEAN]
  /\ store \in Store
  /\ committing \in BOOLEAN
  /\ stable \in Store
  /\ snapshot \in Reservations \cup {None}
  /\ settlement \in [Ids -> Settlement \cup {None}]
  /\ totals \in [actual : Nat, released : Nat]
  /\ losses \in 0 .. MaxPowerLosses

\* "Budget is intentionally not refunded": the counters are what all the
\* reservations ever made, finished ones included, amount to, and that never
\* exceeds the task contract, across concurrent requests and reopened stores.
OfKind(r, k) == {i \in Held(r) : r[i].kind = k}
WithinCounts(s) ==
  \A k \in Kinds :
    s.count[k] = Cardinality(OfKind(s.reservations, k)) /\ s.count[k] <= Limit[k]
WithinAmount(s) == MaxAmount # Unlimited => s.amount <= MaxAmount

BudgetHolds ==
  /\ WithinCounts(store)
  /\ WithinAmount(store)
  /\ store.amount = MapThenSumSet(LAMBDA i : store.reservations[i].amount, Held(store.reservations))

\* A cancellation is terminal exactly when nothing is active any more: it is
\* neither reported early nor left requested for ever after the last settlement.
Exact(s) == s.status # "NONE" => (s.status = "CANCELLED" <=> Active(s.reservations) = {})
CancellationIsExact == Exact(store)

\* Unless the power fails, a settlement is of a reservation that is still in
\* the terminal state and under the fence the accountant read, however long
\* ago that was.
SettlementIsOfTerminal ==
  losses = 0 =>
    \A i \in Ids : settlement[i] # None =>
      /\ store.reservations[i] # None
      /\ store.reservations[i].state = settlement[i].state
      /\ store.reservations[i].fence = settlement[i].fence
      /\ store.reservations[i].amount = settlement[i].actual + settlement[i].released

\* After a cancellation is requested nothing is reserved or started any more,
\* and it is never taken back, except that a power failure reverts the request
\* that was not yet answered.
NothingStartsAfterCancellation ==
  [][store.status # "NONE" /\ losses' = losses =>
       /\ store'.status # "NONE"
       /\ store'.fence = store.fence
       /\ \A i \in Active(store'.reservations) :
            /\ i \in Active(store.reservations)
            /\ store'.reservations[i] = store.reservations[i]]_vars
=============================================================================
