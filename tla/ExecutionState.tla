--------------------------- MODULE ExecutionState ---------------------------
(***************************************************************************)
(* The durable execution state (durable-execution-state-v1) and the        *)
(* operator interventions recorded in it (operator-intervention-trust-     *)
(* reset-v1).                                                              *)
(*                                                                         *)
(* Every mutation is a compare-and-swap under the store's lock file and is *)
(* one step here: DurableStore shows that the file protocol implements it. *)
(* An intervention is two: recordOperatorInterventionV1 reads the state    *)
(* without the lock, builds its receipt from what it read and then calls   *)
(* the compare-and-swap.                                                   *)
(*                                                                         *)
(* The store is its event ledger.  Beside its key and request an event     *)
(* carries the record the store held after it; the store itself keeps only *)
(* the last one, and STATE_VERSION is the number of events less one.       *)
(***************************************************************************)
EXTENDS Integers, Sequences

CONSTANTS Keys,              \* idempotency keys
          Tokens,            \* fence tokens
          Attempts,          \* attempt ids
          MaterialStates,    \* values of MATERIALIZED_STATE
          ProviderStates,    \* PROVIDER_OPERATION_STATES
          Interventions,     \* calls of recordOperatorInterventionV1
          InteractionClasses, \* classes a caller names, known or not
          MaxVersion,        \* bound on STATE_VERSION
          MaxLease,          \* bound on LEASE_GENERATION
          None               \* an absent value

ASSUME ExecutionAssumption ==
  /\ MaxVersion \in Nat
  /\ MaxLease \in Nat \ {0}
  /\ "OUTCOME_UNKNOWN" \in ProviderStates
  /\ None \notin Keys \cup Tokens \cup Attempts \cup MaterialStates \cup ProviderStates \cup Nat

VARIABLES ledger,  \* EVENT_LEDGER, empty before the store is initialized
          pc,      \* per intervention, "idle", "cas" or "done"
          input,   \* per intervention, its key and the request it submits
          reply    \* per intervention, the receipt it returned, or None

vars == <<ledger, pc, input, reply>>

Positive == Nat \ {0}
Authorities == [attempt : Attempts, lease : Positive, seq : Positive, token : Tokens]
Records == [attempt : Attempts, lease : Positive, seq : Positive, token : Tokens,
            used : Seq(Tokens), materialized : MaterialStates,
            provider : ProviderStates, reconcile : BOOLEAN]
Receipts == [class : {"OBSERVE_ONLY", "STATE_AFFECTING"}, pre : Authorities, post : Authorities]

ASSUME NoReceiptAssumption == None \notin Receipts

\* What a request asks to change; None where it leaves a field alone.
Changes == [attempt : Attempts \cup {None}, lease : Positive \cup {None},
            seq : Positive \cup {None}, token : Tokens \cup {None},
            materialized : MaterialStates \cup {None}, provider : ProviderStates \cup {None}]
NoChange == [attempt |-> None, lease |-> None, seq |-> None, token |-> None,
             materialized |-> None, provider |-> None]

Kinds == {"INITIALIZED", "TRANSITION", "OUTCOME", "FENCE_ADVANCED", "OBSERVED", "TRUST_RESET"}
RequestSet == [kind : Kinds, expected : 0 .. MaxVersion, token : Tokens, next : Changes,
               receipt : Receipts \cup {None}]

Version == Len(ledger) - 1
Current == ledger[Len(ledger)].record
Authority(r) == [attempt |-> r.attempt, lease |-> r.lease, seq |-> r.seq, token |-> r.token]

-----------------------------------------------------------------------------
\* validateStore: the current token is a used one, and no token is used twice.
Valid(r) ==
  /\ \E i \in 1 .. Len(r.used) : r.used[i] = r.token
  /\ \A i, j \in 1 .. Len(r.used) : r.used[i] = r.used[j] => i = j

Transitioned(r, next) == [r EXCEPT !.materialized = next.materialized]

OutcomeRecorded(r, next) ==
  [r EXCEPT !.provider = next.provider,
            !.reconcile = (next.provider = "OUTCOME_UNKNOWN")]

Given(value, default) == IF value = None THEN default ELSE value

\* Faulty variant: only the new token is remembered as used.
FenceAdvancedForgetting(r, next) ==
  [r EXCEPT !.seq = next.seq, !.token = next.token, !.used = <<next.token>>,
            !.attempt = Given(next.attempt, r.attempt), !.lease = Given(next.lease, r.lease)]

\* Faulty variant: an attempt and a lease that were not given are written anyway.
FenceAdvancedAlways(r, next) ==
  [r EXCEPT !.seq = next.seq, !.token = next.token, !.used = Append(r.used, next.token),
            !.attempt = next.attempt, !.lease = next.lease]

\* Faulty variant: the lease generation that was asked for is not taken over.
FenceAdvancedPartly(r, next) ==
  [r EXCEPT !.seq = next.seq, !.token = next.token, !.used = Append(r.used, next.token),
            !.attempt = Given(next.attempt, r.attempt)]

\* Faulty variant: a new authority starts without the old uncertainty.
FenceAdvancedFresh(r, next) ==
  [r EXCEPT !.seq = next.seq, !.token = next.token, !.used = Append(r.used, next.token),
            !.attempt = Given(next.attempt, r.attempt), !.lease = Given(next.lease, r.lease),
            !.reconcile = FALSE]

FenceAdvanced(r, next) ==
  [r EXCEPT !.seq = next.seq, !.token = next.token, !.used = Append(r.used, next.token),
            !.attempt = Given(next.attempt, r.attempt), !.lease = Given(next.lease, r.lease)]

\* The guards of advanceExecutionFenceV1.
FenceMayAdvance(r, next) ==
  /\ next.seq = r.seq + 1
  /\ \A i \in 1 .. Len(r.used) : r.used[i] # next.token
  /\ next.lease # None => next.lease > r.lease

AdvancesFence(request) == request.kind \in {"FENCE_ADVANCED", "TRUST_RESET"}

After(r, request) ==
  IF request.kind \in {"TRANSITION", "OBSERVED"} THEN Transitioned(r, request.next)
  ELSE IF request.kind = "OUTCOME" THEN OutcomeRecorded(r, request.next)
  ELSE FenceAdvanced(r, request.next)

\* The bound on the number of events.
Room == Version < MaxVersion

Recorded(key) == \E i \in 1 .. Len(ledger) : ledger[i].key = key

\* Faulty variant: applyCas without the version comparison.
AcceptedUnversioned(key, request) ==
  /\ ledger # <<>>
  /\ Room
  /\ ~Recorded(key)
  /\ request.token = Current.token
  /\ AdvancesFence(request) => FenceMayAdvance(Current, request.next)
  /\ Valid(After(Current, request))

\* applyCas, up to the write.
Accepted(key, request) ==
  /\ ledger # <<>>
  /\ Room
  /\ ~Recorded(key)
  /\ request.expected = Version
  /\ request.token = Current.token
  /\ AdvancesFence(request) => FenceMayAdvance(Current, request.next)
  /\ Valid(After(Current, request))

Write(key, request) ==
  ledger' = Append(ledger, [key |-> key, request |-> request,
                            record |-> After(Current, request)])

\* The same key with the same request: IDEMPOTENCY_INDEX holds its fingerprint.
Replayed(key, request) ==
  \E i \in 1 .. Len(ledger) : ledger[i].key = key /\ ledger[i].request = request

-----------------------------------------------------------------------------
Init ==
  /\ ledger = <<>>
  /\ pc = [o \in Interventions |-> "idle"]
  /\ input = [o \in Interventions |-> None]
  /\ reply = [o \in Interventions |-> None]

\* Lease generation and fence sequence are counted from their initial values.
Initialize(attempt, token, materialized, provider) ==
  /\ ledger = <<>>
  /\ ledger' = << [key |-> None,
                   request |-> [kind |-> "INITIALIZED", expected |-> 0, token |-> token,
                                next |-> NoChange, receipt |-> None],
                   record |-> [attempt |-> attempt, lease |-> 1, seq |-> 1, token |-> token,
                               used |-> <<token>>, materialized |-> materialized,
                               provider |-> provider, reconcile |-> FALSE]] >>
  /\ UNCHANGED <<pc, input, reply>>

\* A direct call of the compare-and-swap.  Whoever submits another version or
\* fence token than the current ones is refused and changes nothing, so that
\* only the current ones are enumerated.
Submit(key, kind, next) ==
  LET request == [kind |-> kind, expected |-> Version, token |-> Current.token,
                  next |-> next, receipt |-> None]
  IN /\ Accepted(key, request)
     /\ Write(key, request)
     /\ UNCHANGED <<pc, input, reply>>

Transition(key, materialized) ==
  Submit(key, "TRANSITION", [NoChange EXCEPT !.materialized = materialized])

RecordProviderOutcome(key, provider) ==
  Submit(key, "OUTCOME", [NoChange EXCEPT !.provider = provider])

AdvanceFence(key, next) == Submit(key, "FENCE_ADVANCED", next)

-----------------------------------------------------------------------------
(* Operator interventions. *)

\* A class the runtime does not know resets trust.
ClassOf(class) == IF class = "OBSERVE_ONLY" THEN "OBSERVE_ONLY" ELSE "STATE_AFFECTING"

\* The receipt built from the state that was read.
Receipt(r, class, next) ==
  [class |-> ClassOf(class), pre |-> Authority(r),
   post |-> IF ClassOf(class) = "OBSERVE_ONLY" THEN Authority(r)
            ELSE [attempt |-> next.attempt, lease |-> next.lease,
                  seq |-> next.seq, token |-> next.token]]

\* The request built from the state that was read.
InterventionRequest(r, class, expected, token, next) ==
  IF ClassOf(class) = "OBSERVE_ONLY"
  THEN [kind |-> "OBSERVED", expected |-> expected, token |-> token,
        next |-> [NoChange EXCEPT !.materialized = r.materialized],
        receipt |-> Receipt(r, class, next)]
  ELSE [kind |-> "TRUST_RESET", expected |-> expected, token |-> token,
        next |-> next, receipt |-> Receipt(r, class, next)]

\* historicalReceiptForKey
Historical(key) ==
  {ledger[i].request.receipt : i \in {j \in 1 .. Len(ledger) : ledger[j].key = key}} \ {None}

\* assertReplayMatchesInput
MatchesInput(receipt, class, next) ==
  /\ receipt.class = ClassOf(class)
  /\ receipt.class = "STATE_AFFECTING" =>
       receipt.post = [attempt |-> next.attempt, lease |-> next.lease,
                       seq |-> next.seq, token |-> next.token]

\* validateOperatorInterventionReceiptV1: both authorities are complete, and one
\* that only observed changed nothing.  It runs on a receipt that was just built
\* and on one found in the ledger.
ValidReceipt(receipt) ==
  /\ {receipt.pre, receipt.post} \subseteq Authorities
  /\ receipt.class = "OBSERVE_ONLY" => receipt.pre = receipt.post

\* The call until it submits: the state is read without the lock.  The version
\* and token the caller submits are those of a state it has seen before.
BeginIntervention(o, key, class, expected, next) ==
  /\ pc[o] = "idle"
  /\ ledger # <<>>
  /\ IF Historical(key) = {}
     THEN /\ ValidReceipt(Receipt(Current, class, next))
          /\ pc' = [pc EXCEPT ![o] = "cas"]
          /\ input' = [input EXCEPT ![o] =
               [key |-> key, request |-> InterventionRequest(Current, class, expected,
                                           ledger[expected + 1].record.token, next)]]
          /\ UNCHANGED reply
     ELSE /\ pc' = [pc EXCEPT ![o] = "done"]
          /\ reply' = [reply EXCEPT ![o] =
               LET receipt == CHOOSE r \in Historical(key) : TRUE
               IN IF ValidReceipt(receipt) /\ MatchesInput(receipt, class, next)
                  THEN receipt ELSE None]
          /\ UNCHANGED input
  /\ UNCHANGED ledger

Return(o, receipt) ==
  /\ pc' = [pc EXCEPT ![o] = "done"]
  /\ reply' = [reply EXCEPT ![o] = receipt]
  /\ input' = [input EXCEPT ![o] = None]

\* Faulty variant: a recorded key is taken for a replay whatever was requested.
SubmitInterventionLenient(o) ==
  /\ pc[o] = "cas"
  /\ \/ /\ Accepted(input[o].key, input[o].request)
        /\ Write(input[o].key, input[o].request)
        /\ Return(o, input[o].request.receipt)
     \/ /\ Recorded(input[o].key)
        /\ Return(o, input[o].request.receipt)
        /\ UNCHANGED ledger

\* The compare-and-swap of the call, and its return; a call that is refused,
\* or finds the store locked, throws.
SubmitIntervention(o) ==
  /\ pc[o] = "cas"
  /\ \/ /\ Accepted(input[o].key, input[o].request)
        /\ Write(input[o].key, input[o].request)
        /\ Return(o, input[o].request.receipt)
     \/ /\ Replayed(input[o].key, input[o].request)
        /\ Return(o, input[o].request.receipt)
        /\ UNCHANGED ledger
     \/ /\ Return(o, None)
        /\ UNCHANGED ledger

-----------------------------------------------------------------------------
\* Where callers take their inputs from.  After a state with record r, an
\* intervention asks for the next fence sequence and lease generation with any
\* token, and must name no authority if it only observes; an advance of the
\* fence may also leave attempt and lease alone.
Fence(attempt, lease, seq, token) ==
  [attempt |-> attempt, lease |-> lease, seq |-> seq, token |-> token,
   materialized |-> None, provider |-> None]
NewAuthorities(class, r) ==
  IF ClassOf(class) = "OBSERVE_ONLY" THEN {NoChange}
  ELSE {Fence(a, r.lease + 1, r.seq + 1, t) : a \in Attempts, t \in Tokens}
NewFences(s) ==
  {Fence(None, None, s, t) : t \in Tokens}
  \cup {Fence(a, n, s, t) : a \in Attempts, n \in 1 .. MaxLease, t \in Tokens}

Next ==
  \/ \E a \in Attempts, t \in Tokens, m \in MaterialStates, p \in ProviderStates :
       Initialize(a, t, m, p)
  \/ \E key \in Keys :
       \/ \E m \in MaterialStates : Transition(key, m)
       \/ \E p \in ProviderStates : RecordProviderOutcome(key, p)
       \/ \E s \in 1 .. MaxVersion + 1 : \E next \in NewFences(s) : AdvanceFence(key, next)
  \/ \E o \in Interventions :
       \/ \E key \in Keys, class \in InteractionClasses, expected \in 0 .. Version :
            \E next \in NewAuthorities(class, ledger[expected + 1].record) :
              BeginIntervention(o, key, class, expected, next)
       \/ SubmitIntervention(o)

Spec == Init /\ [][Next]_vars

-----------------------------------------------------------------------------
(* Properties. *)

Events == [key : Keys \cup {None}, request : RequestSet, record : Records]
Inputs == [key : Keys, request : RequestSet]

TypeOK ==
  /\ ledger \in Seq(Events)
  /\ Len(ledger) <= MaxVersion + 1
  /\ pc \in [Interventions -> {"idle", "cas", "done"}]
  /\ input \in [Interventions -> Inputs \cup {None}]
  /\ reply \in [Interventions -> Receipts \cup {None}]

\* FENCE_TOKEN_ORDER=STRICTLY_MONOTONIC, FENCE_TOKEN_REUSE=DENY: over the whole
\* life of an execution sequence and lease never fall, a token names one fence
\* sequence for ever, and one fence sequence means one authority.
FenceOrder ==
  \A j \in 1 .. Len(ledger) : \A i \in 1 .. j :
    LET old == ledger[i].record
        new == ledger[j].record
    IN /\ old.seq <= new.seq
       /\ old.lease <= new.lease
       /\ old.token = new.token => old.seq = new.seq
       /\ old.seq = new.seq => Authority(old) = Authority(new)

\* The receipt in the ledger was built from a read without the lock, and yet it
\* names exactly the authority the intervention replaced and the one it left.
ReceiptsBindAuthority ==
  \A i \in 2 .. Len(ledger) :
    ledger[i].request.receipt # None =>
      /\ ledger[i].request.receipt.pre = Authority(ledger[i - 1].record)
      /\ ledger[i].request.receipt.post = Authority(ledger[i].record)

\* An OBSERVE_ONLY intervention writes the materialized state it read back: it
\* never undoes a transition that came between its read and its write.
ObserveOnlyPreserves ==
  \A i \in 2 .. Len(ledger) :
    ledger[i].request.kind = "OBSERVED" => ledger[i].record = ledger[i - 1].record

\* OUTCOME_UNKNOWN_BLIND_RETRY=DENY: once an operation's outcome was recorded as
\* unknown, reconciliation stays required through transitions, fences and trust
\* resets, until another outcome is recorded.
UnknownRequiresReconciliation ==
  \A j \in 1 .. Len(ledger) : \A i \in 1 .. j :
    /\ ledger[i].request.kind = "OUTCOME"
    /\ ledger[i].record.provider = "OUTCOME_UNKNOWN"
    /\ \A k \in i + 1 .. j : ledger[k].request.kind # "OUTCOME"
    => ledger[j].record.reconcile

\* A caller that is handed a receipt, at the first try or at a retry with the
\* same key, was handed the one that is in the ledger.
ReturnedReceiptIsRecorded ==
  \A o \in Interventions :
    reply[o] # None => \E i \in 1 .. Len(ledger) : ledger[i].request.receipt = reply[o]
=============================================================================
